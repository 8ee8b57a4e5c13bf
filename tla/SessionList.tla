----------------------------- MODULE SessionList -----------------------------
(***************************************************************************)
(* session.list.request: SessionEnumerator.list (src/sessions/enumerator.ts) *)
(* scans the engines' directories on every request, while sessions are     *)
(* written, created and removed; the relay walks the pages with the cursor *)
(* it was given last.                                                      *)
(*                                                                         *)
(* A path is a number, in the order readdir returns the files; what its    *)
(* name and its head records say is fixed, its mtime is not.               *)
(***************************************************************************)
EXTENDS Paths, FiniteSets

CONSTANTS
  NPath,        \* the number of paths
  About,        \* what the file at a path is (see AboutType)
  Key,          \* its cursorKey, engine:session_id, in code-unit order
  Collate,      \* the same key in localeCompare's order
  Filters,      \* the filters a walk may ask for
  ListLimits,   \* the page limits a request may ask for
  MaxResponse,  \* MAX_RESPONSE_SESSIONS
  MaxSubagents, \* maxSubagentFiles
  Window,       \* ACTIVE_WINDOW_MS
  MaxTime       \* bound on the clock

Path == 1 .. NPath

\* nested: below a subagents directory, so only scanned when subagents are asked
\* for; cwd: the one in its head records; head: what each of these says of who runs
\* the session (claude's entrypoint; codex has one record, with source, originator).
AboutType == [engine : {"claude", "codex"}, nested : BOOLEAN, cwd : Seq(STRING),
              head : Seq({"none", "interactive", "programmatic"})]
FilterType == [engine : {"any", "claude", "codex"}, subagents : BOOLEAN, active : BOOLEAN, after : Nat,
               prefix : Seq(STRING)]

ASSUME ListAssumption ==
  /\ NPath \in Nat \ {0} /\ About \in [Path -> AboutType] /\ Key \in [Path -> Nat]
  /\ Collate \in [Path -> Nat] /\ \A p, q \in Path : (Key[p] = Key[q]) <=> (Collate[p] = Collate[q])
  /\ Filters \subseteq FilterType /\ ListLimits \subseteq Nat \ {0}
  /\ MaxResponse \in Nat \ {0} /\ {MaxSubagents, Window, MaxTime} \subseteq Nat
  /\ \A p \in Path : About[p].nested => About[p].engine = "claude"

VARIABLES
  mtime,   \* of every path; 0: not yet, or no longer, there
  gone,    \* the removed paths
  clock,   \* Date.now
  listing  \* the relay's walk

list == <<mtime, gone, clock, listing>>

There(p) == mtime[p] # 0

-----------------------------------------------------------------------------
(* The scan.                                                               *)

\* scanClaudeSubagentDir counts the nested files it comes to, and gives up at the
\* cap; the ones behind it are not looked at.
NestedBefore(p) == Cardinality({q \in Path : q < p /\ There(q) /\ About[q].nested})
BehindCap(p) == There(p) /\ About[p].nested /\ NestedBefore(p) >= MaxSubagents

SubagentCapReached(f) ==
  RealAllowlist # {} /\ f.engine # "codex" /\ f.subagents /\ \E p \in Path : BehindCap(p)

\* The first record that says who runs the session decides.
IsProgrammatic(head) ==
  LET said == SelectSeq(head, LAMBDA r : r # "none")
  IN said # <<>> /\ said[1] = "programmatic"

\* What parseClaudeFile and parseCodexFile make of the head.
Scoped == {p \in Path : InScope(About[p].cwd)}
Cwd == [p \in Scoped |-> Redacted(About[p].cwd)]
Primary == {p \in Path : ~About[p].nested /\ ~IsProgrammatic(About[p].head)}

\* scanClaude and scanCodex.
Scanned(f, p) ==
  /\ There(p) /\ p \in Scoped /\ f.engine \in {"any", About[p].engine}
  /\ About[p].nested => f.subagents /\ ~BehindCap(p)

CwdMatchesPrefix(cwd, prefix) == prefix = <<>> \/ Within(cwd, prefix)

\* The filters of list.
Filtered(f) ==
  {p \in Path : /\ Scanned(f, p)
                /\ f.active => clock <= mtime[p] + Window
                /\ f.subagents \/ p \in Primary
                /\ mtime[p] > f.after
                /\ CwdMatchesPrefix(Cwd[p], f.prefix)}

\* The sort of list; candidates it cannot tell apart stay in scan order.
Before(p, q) ==
  \/ mtime[p] > mtime[q]
  \/ mtime[p] = mtime[q] /\ Collate[p] < Collate[q]
  \/ mtime[p] = mtime[q] /\ Collate[p] = Collate[q] /\ p < q

\* The index of p when S is sorted.
Rank(S, p) == Cardinality({q \in S : Before(q, p)})

-----------------------------------------------------------------------------
(* Pages.                                                                  *)

NoCursor == <<0, 0>>
CursorOf(p) == <<mtime[p], Key[p]>>                                \* encodeCursor
CursorIsCurrent(f, c) == \E p \in Filtered(f) : CursorOf(p) = c

\* Mutant: the session of the cursor itself is listed again.
MutantBehind(c, p) == mtime[p] < c[1] \/ (mtime[p] = c[1] /\ Key[p] >= c[2])

Behind(c, p) == mtime[p] < c[1] \/ (mtime[p] = c[1] /\ Key[p] > c[2])

\* Mutant: a cursor whose session has changed ends the walk.
MutantAfterCursor(f, c) ==
  IF c = NoCursor THEN Filtered(f)
  ELSE IF CursorIsCurrent(f, c) THEN {p \in Filtered(f) : Behind(c, p)} ELSE {}

\* A cursor whose session has changed since is ignored: the walk starts again.
AfterCursor(f, c) ==
  IF CursorIsCurrent(f, c) THEN {p \in Filtered(f) : Behind(c, p)} ELSE Filtered(f)

PageLimit(limit) == IF limit > MaxResponse THEN MaxResponse ELSE limit

\* The first n of the rest, in sorted order, and the last of them.
FirstOf(rest, n) == {p \in rest : Rank(rest, p) < n}
LastOf(page) == CHOOSE p \in page : \A q \in page : q = p \/ Before(q, p)

-----------------------------------------------------------------------------
(* The walk.  got: the sessions listed so far; steady: the sessions that   *)
(* matched when it began and in every page, were not written since, and    *)
(* never shared an mtime with one the two orders disagree about.           *)

NoFilter == [engine |-> "any", subagents |-> FALSE, active |-> FALSE, after |-> 0,
             prefix |-> <<>>]
NotListing == [at |-> "idle", filter |-> NoFilter, cursor |-> NoCursor, got |-> {}, steady |-> {},
               truncated |-> FALSE]

ListInit == mtime \in [Path -> 0 .. 1] /\ gone = {} /\ clock = 1 /\ listing = NotListing

Confusable(p, q) ==
  /\ p # q /\ mtime[p] = mtime[q]
  /\ Key[p] = Key[q] \/ (Key[p] < Key[q]) # (Collate[p] < Collate[q])
Clear(S) == {p \in S : \A q \in Path : ~Confusable(p, q)}

\* list, and the daemon's session.list.response.
ListPage(f, limit) ==
  LET rest == AfterCursor(f, listing.cursor)
      n == PageLimit(limit)
      more == Cardinality(rest) > n
      page == FirstOf(rest, n)
      steady == IF listing.at = "idle" THEN Filtered(f) ELSE listing.steady \cap Filtered(f)
  IN /\ listing.at = "idle" \/ (listing.at = "walking" /\ f = listing.filter)
     /\ listing' = [at |-> IF more THEN "walking" ELSE "done", filter |-> f,
                    cursor |-> IF more THEN CursorOf(LastOf(page)) ELSE NoCursor,
                    got |-> listing.got \cup page, steady |-> Clear(steady),
                    truncated |-> more \/ SubagentCapReached(f)]
     /\ UNCHANGED <<mtime, gone, clock>>

ListAgain ==
  /\ listing.at = "done"
  /\ listing' = NotListing
  /\ UNCHANGED <<mtime, gone, clock>>

-----------------------------------------------------------------------------
(* The engines, external.                                                  *)

\* A session is created, or written again.
WriteSession(p) ==
  /\ p \notin gone /\ mtime[p] # clock
  /\ mtime' = [mtime EXCEPT ![p] = clock] /\ listing' = [listing EXCEPT !.steady = @ \ {p}]
  /\ UNCHANGED <<gone, clock>>

RemoveSession(p) ==
  /\ There(p) /\ mtime' = [mtime EXCEPT ![p] = 0] /\ gone' = gone \cup {p}
  /\ listing' = [listing EXCEPT !.steady = @ \ {p}]
  /\ UNCHANGED clock

ClockTick == clock < MaxTime /\ clock' = clock + 1 /\ UNCHANGED <<mtime, gone, listing>>

ListNext ==
  \/ \E f \in Filters, limit \in ListLimits : ListPage(f, limit)
  \/ ListAgain \/ ClockTick
  \/ \E p \in Path : WriteSession(p) \/ RemoveSession(p)

\* A walk that ends has listed every session that was there all along: sessions
\* written or removed meanwhile may move past the cursor, or make it stale, and
\* neither may hide another one.
ListComplete == listing.at = "done" => listing.steady \subseteq listing.got

\* The files can only change finitely often (clock is bounded, a removed file stays
\* away): once they rest, the cursors reach the end.
ListWalkEnds == (listing.at = "walking") ~> (listing.at # "walking")
=============================================================================
