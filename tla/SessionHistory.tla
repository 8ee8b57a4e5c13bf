--------------------------- MODULE SessionHistory ---------------------------
(***************************************************************************)
(* session.history.request: readHistory (src/sessions/enumerator.ts) and   *)
(* the reader behind it (src/sessions/history.ts), while the engine keeps  *)
(* writing the session file.                                               *)
(*                                                                         *)
(* A file is a sequence of JSONL records, reduced to what the reader tells *)
(* apart; a line still being written is malformed and read as absent, so   *)
(* it is not in the sequence.  The entry made from line i has entry_id i.  *)
(* A text is a sequence of UTF-16 units: a cut between the halves of a     *)
(* surrogate pair costs more bytes than the pair.                          *)
(***************************************************************************)
EXTENDS Integers, Sequences, FiniteSets, FiniteSetsExt, SequencesExt

CONSTANTS
  ClaudeLines, CodexLines,  \* the records the two engines may append
  NoId,          \* a record without a call id
  MaxLines,      \* bound on the file; a longer one is over MAX_SESSION_BYTES
  ContentCap,    \* HISTORY_CONTENT_CAP
  ToolIoCap,     \* HISTORY_TOOL_IO_CAP
  EntryMax,      \* HISTORY_ENTRY_BYTE_MAX
  FrameBudget,   \* HISTORY_FRAME_BUDGET
  PageMax,       \* HISTORY_PAGE_MAX
  Limits         \* the limits a request may ask for (none: HISTORY_PAGE_DEFAULT)

\* A Claude record: type "user", "assistant" or another; its tool_use ids (one use
\* of an id per record), its tool_result ids, its text blocks and the number of
\* blocks that are left out.  A Codex record: "message" with a role, "call", "output", "enrichment" (exec_command_end,
\* patch_apply_end) or another, with its call id in uses.
LineType == [type : STRING, role : STRING, uses : Seq(STRING), results : Seq(STRING),
             parts : Seq(Seq(STRING)), omitted : Nat]

ASSUME HistoryAssumption ==
  /\ ClaudeLines \subseteq LineType
  /\ CodexLines \subseteq {l \in LineType : Len(l.uses) = 1}
  /\ {MaxLines, ContentCap, ToolIoCap, FrameBudget, PageMax} \subseteq Nat \ {0}
  /\ Limits \subseteq Nat \ {0}
  /\ EntryMax \in 3 .. FrameBudget   \* an entry without text and calls fits

VARIABLES
  engine,   \* who writes the file
  file,     \* its records
  exists,   \* the file is there and its cwd below an allowed root
  handle,   \* the handle the relay holds is one this process gave out
  walk      \* the relay's walk from the newest entry to the oldest

history == <<engine, file, exists, handle, walk>>

Line(type, role, uses, results, parts, omitted) ==
  [type |-> type, role |-> role, uses |-> uses, results |-> results, parts |-> parts, omitted |-> omitted]

\* extractClaudeText, extractCodexMessageText: the blocks that are not empty, a line each.
Text(l) ==
  LET Joined[i \in 0 .. Len(l.parts)] ==
        IF i = 0 THEN <<>>
        ELSE IF l.parts[i] = <<>> THEN Joined[i - 1]
        ELSE IF Joined[i - 1] = <<>> THEN l.parts[i] ELSE Joined[i - 1] \o <<"nl">> \o l.parts[i]
  IN Joined[Len(l.parts)]

-----------------------------------------------------------------------------
(* Sizes.                                                                  *)

\* JSON.stringify: a pair is 4 bytes, a half of one 6 and a newline 2 (escapes), others 1.
Pairs(t) == {i \in 1 .. Len(t) - 1 : t[i] = "hi" /\ t[i + 1] = "lo"}
Halves(t) == {i \in 1 .. Len(t) : t[i] \in {"hi", "lo"}}
TextBytes(t) == Len(t) - Cardinality(Halves(t)) + Cardinality({i \in 1 .. Len(t) : t[i] = "nl"})
                + 4 * Cardinality(Pairs(t)) + 6 * (Cardinality(Halves(t)) - 2 * Cardinality(Pairs(t)))

\* historyEntryBytes, in units: the entry itself, its text, each call with its
\* outputs, and the flags that say what was left out.  out: the lines its output
\* is made of, cut by capToolIo.
CallBytes(c) == 2 + Min({Cardinality(c.out), ToolIoCap})
EntryBytes(e) ==
  1 + TextBytes(e.content) + (IF e.truncated THEN 1 ELSE 0) + (IF e.omitted > 0 THEN 1 ELSE 0)
    + SumFunction([i \in 1 .. Len(e.calls) |-> CallBytes(e.calls[i])])

Fits(e) == EntryBytes(e) <= EntryMax

\* capString for content.
Entry(i, role, text, omitted, calls) ==
  [id |-> i, role |-> role, omitted |-> omitted, calls |-> calls,
   content |-> SubSeq(text, 1, IF Len(text) > ContentCap THEN ContentCap ELSE Len(text)),
   truncated |-> Len(text) > ContentCap]

\* The loop of boundHistoryEntryBytes: the last calls are dropped, and counted as
\* omitted, until the entry fits.
WithoutCalls(e, d) == [e EXCEPT !.calls = SubSeq(@, 1, Len(@) - d), !.omitted = @ + d]
DropCalls(e) ==
  LET enough == {d \in 0 .. Len(e.calls) - 1 : Fits(WithoutCalls(e, d))}
  IN WithoutCalls(e, IF enough = {} THEN Len(e.calls) ELSE Min(enough))

\* truncateEntryContentToByteLimit: the rounds of its binary search for a prefix that fits.
Prefix(e, n) == [e EXCEPT !.content = SubSeq(@, 1, n), !.truncated = TRUE]
Halve(e, s) ==
  LET mid == (s.lo + s.hi) \div 2
  IN IF s.lo > s.hi THEN s
     ELSE IF Fits(Prefix(e, mid)) THEN [s EXCEPT !.lo = mid + 1, !.best = mid]
     ELSE [s EXCEPT !.hi = mid - 1]
TruncateContent(e) ==
  LET n == Len(e.content)
      Search[i \in 0 .. n + 1] ==
        IF i = 0 THEN [lo |-> 0, hi |-> n, best |-> 0] ELSE Halve(e, Search[i - 1])
  IN Prefix(e, Search[n + 1].best)

\* Mutant: the calls are dropped, but a long text stays.
MutantBoundEntry(e) == IF Fits(e) THEN e ELSE DropCalls(e)

BoundEntry(e) ==
  IF Fits(e) THEN e
  ELSE LET dropped == DropCalls(e) IN IF Fits(dropped) THEN dropped ELSE TruncateContent(dropped)

-----------------------------------------------------------------------------
(* Claude.                                                                 *)

\* Tool results are queued by id and handed out in the order of the calls: the
\* n-th call of an id gets its n-th result (the line it is on), or none.
Nth(positions, n) == {p \in positions : Cardinality({q \in positions : q <= p}) = n}

\* The records whose calls are shown.
Speaks(l) == l.type \in {"user", "assistant"} /\ l.role = "assistant"

ClaudeOutput(lines, i, id) ==
  Nth({k \in 1 .. Len(lines) : id \in Range(lines[k].results)},
      Cardinality({k \in 1 .. i : Speaks(lines[k]) /\ id \in Range(lines[k].uses)}))

ClaudeCalls(lines, i) ==
  IF ~Speaks(lines[i]) THEN <<>>
  ELSE [j \in 1 .. Min({Len(lines[i].uses), PageMax}) |->
          [id |-> lines[i].uses[j], out |-> ClaudeOutput(lines, i, lines[i].uses[j])]]

\* A user record that only carries tool results is no entry of its own.
ClaudeHasEntry(l) ==
  /\ l.type \in {"user", "assistant"} /\ l.role \in {"user", "assistant"}
  /\ ~(l.role = "user" /\ l.results # <<>> /\ l.parts = <<>> /\ l.uses = <<>> /\ l.omitted = 0)

BuildClaude(lines) ==
  LET at == {i \in 1 .. Len(lines) : ClaudeHasEntry(lines[i])}
  IN [n \in 1 .. Cardinality(at) |->
        LET i == CHOOSE i \in Nth(at, n) : TRUE l == lines[i]
        IN Entry(i, l.role, Text(l), l.omitted, ClaudeCalls(lines, i))]

-----------------------------------------------------------------------------
(* Codex: calls and enrichments hang on the assistant entry before them,   *)
(* or on a synthetic one.                                                  *)

CallAt(lines, id) == {k \in 1 .. Len(lines) : lines[k].type = "call" /\ lines[k].uses = <<id>>}
OutputAt(lines, id) == {k \in 1 .. Len(lines) : lines[k].type = "output" /\ lines[k].uses = <<id>>}
EnrichmentAt(lines, id) == {k \in 1 .. Len(lines) : lines[k].type = "enrichment" /\ lines[k].uses = <<id>>}

\* combinedToolResult: the call's own result and every enrichment that names it.
CodexOutput(lines, i, id) ==
  Nth(OutputAt(lines, id), Cardinality({k \in CallAt(lines, id) : k <= i})) \cup EnrichmentAt(lines, id)

CodexToolCall(lines, i) ==
  LET id == lines[i].uses[1] IN [id |-> id, out |-> CodexOutput(lines, i, id)]

\* s: the entries so far and the current assistant entry (0 for none).
Attach(s, i, call) ==
  LET open == IF s.current # 0 THEN s
              ELSE [entries |-> Append(s.entries, Entry(i, "assistant", <<>>, 0, <<>>)),
                    current |-> Len(s.entries) + 1]
  IN [open EXCEPT !.entries[open.current].calls =
        IF Len(@) < PageMax THEN Append(@, call) ELSE @]

CodexLine(lines, s, i) ==
  LET l == lines[i]
      id == l.uses[1]
  IN CASE l.type = "message" /\ l.role \in {"user", "assistant"} ->
            [entries |-> Append(s.entries, Entry(i, l.role, Text(l), l.omitted, <<>>)),
             current |-> IF l.role = "assistant" THEN Len(s.entries) + 1 ELSE 0]
       [] l.type = "call" /\ id # NoId -> Attach(s, i, CodexToolCall(lines, i))
       [] l.type = "enrichment" /\ (id = NoId \/ CallAt(lines, id) = {}) ->
            Attach(s, i, [id |-> id, out |-> {i}])
       [] OTHER -> s

BuildCodex(lines) ==
  LET Built[i \in 0 .. Len(lines)] ==
        IF i = 0 THEN [entries |-> <<>>, current |-> 0] ELSE CodexLine(lines, Built[i - 1], i)
  IN Built[Len(lines)].entries

BuildEntries(lines) ==
  LET raw == IF engine = "claude" THEN BuildClaude(lines) ELSE BuildCodex(lines)
  IN [n \in 1 .. Len(raw) |-> BoundEntry(raw[n])]

-----------------------------------------------------------------------------
(* paginateHistory.                                                        *)

PageBytes(entries, s, b) == SumFunction([i \in s + 1 .. b |-> EntryBytes(entries[i])])

ClampLimit(limit) == Min({limit, PageMax})

\* Where the page that ends at b starts: the limit and the frame hold it, but one
\* entry is always taken.
PageStart(entries, b, limit) ==
  Min({s \in 0 .. b : /\ b - s <= ClampLimit(limit)
                      /\ b - s <= 1 \/ PageBytes(entries, s, b) <= FrameBudget})

\* Mutant: the cursor counts from the newest entry.
MutantBoundary(entries, cursor) ==
  IF cursor = -1 THEN Len(entries) ELSE Max({0, Len(entries) - (walk.first - cursor)})

\* The boundary of a request: the end, or what the cursor says.
Boundary(entries, cursor) == IF cursor = -1 THEN Len(entries) ELSE cursor

\* decodeHistoryCursor; a cursor is only ever sent back for its own session.
CursorValid(entries, cursor) == cursor <= Len(entries)

-----------------------------------------------------------------------------
(* The relay walks with the cursor it was given last.  first is the number *)
(* of entries when the walk began, goal their ids; appended is FALSE once, *)
(* under way, the file did anything but grow, or a record was appended     *)
(* that takes an entry away.                                               *)

NoWalk == [at |-> "idle", cursor |-> -1, first |-> 0, goal |-> <<>>, got |-> <<>>,
           page |-> 0, appended |-> TRUE]

HistoryInit ==
  /\ engine \in {"claude", "codex"} /\ file = <<>> /\ exists = TRUE /\ handle = TRUE /\ walk = NoWalk

Ids(entries) == [i \in 1 .. Len(entries) |-> entries[i].id]

\* validateHandle.
Handled == handle /\ exists

\* readHistory: the handle's file is checked, then read.
ReadPage(limit) ==
  LET entries == BuildEntries(file)
      b == Boundary(entries, walk.cursor)
      start == PageStart(entries, b, limit)
      page == SubSeq(entries, start + 1, b)
      first == walk.at = "idle"
  IN /\ walk.at \in {"idle", "walking"}
     /\ Handled /\ Len(file) <= MaxLines /\ CursorValid(entries, walk.cursor)
     /\ walk' = [walk EXCEPT !.at = IF start > 0 THEN "walking" ELSE "done", !.cursor = start,
                             !.first = IF first THEN Len(entries) ELSE @,
                             !.goal = IF first THEN Ids(entries) ELSE @,
                             !.got = Ids(page) \o @, !.page = PageBytes(entries, start, b)]
     /\ UNCHANGED <<engine, file, exists, handle>>

\* handle_invalid of a session that is gone, file_unreadable, payload_too_large or cursor_invalid.
ReadFails ==
  /\ walk.at \in {"idle", "walking"}
  /\ \/ ~exists
     \/ Handled /\ (Len(file) > MaxLines \/ ~CursorValid(BuildEntries(file), walk.cursor))
  /\ walk' = [NoWalk EXCEPT !.at = "failed"]
  /\ UNCHANGED <<engine, file, exists, handle>>

\* The daemon restarts and forgets its handles.  The relay, told handle_invalid,
\* lists again (handleFor), and goes on with the cursor it has: a cursor is bound
\* to the session and its path, not to the handle.
Forget == handle /\ handle' = FALSE /\ UNCHANGED <<engine, file, exists, walk>>
Relist == ~handle /\ exists /\ handle' = TRUE /\ UNCHANGED <<engine, file, exists, walk>>

WalkAgain ==
  /\ walk.at \in {"done", "failed"} /\ walk' = NoWalk
  /\ UNCHANGED <<engine, file, exists, handle>>

\* buildCodex collects the ids of all calls first: an enrichment that stood alone
\* and had been given an entry loses it to a call that comes later.
Displaces(l) ==
  LET entries == BuildEntries(file)
  IN /\ l.type = "call" /\ l.uses[1] # NoId
     /\ \E n \in 1 .. Len(entries) : entries[n].id \in EnrichmentAt(file, l.uses[1])

Disturbed(w) == [w EXCEPT !.appended = @ /\ w.at # "walking"]

\* The engine, external.
AppendLine(l) ==
  /\ exists /\ Len(file) <= MaxLines
  /\ l \in IF engine = "claude" THEN ClaudeLines ELSE CodexLines
  /\ file' = Append(file, l)
  /\ walk' = IF Displaces(l) THEN Disturbed(walk) ELSE walk
  /\ UNCHANGED <<engine, exists, handle>>

\* The file is rewritten shorter, or goes away.
Rewrite(n) ==
  /\ exists /\ n < Len(file)
  /\ file' = SubSeq(file, 1, n) /\ walk' = Disturbed(walk)
  /\ UNCHANGED <<engine, exists, handle>>
RemoveFile ==
  /\ exists /\ exists' = FALSE /\ file' = <<>> /\ walk' = Disturbed(walk)
  /\ UNCHANGED <<engine, handle>>

HistoryNext ==
  \/ \E limit \in Limits : ReadPage(limit)
  \/ ReadFails \/ WalkAgain \/ RemoveFile \/ Forget \/ Relist
  \/ \E l \in ClaudeLines \cup CodexLines : AppendLine(l)
  \/ \E n \in 0 .. MaxLines : Rewrite(n)

\* "walks older without dup/skip, and is append-stable" (AV9 in e2e.ts): line indices
\* never move, so a walk over a file that only grows returns every entry there was
\* when it began, once each and in order.  Not so, for Codex, when a call is appended
\* behind an enrichment that names it and that had an entry of its own: that entry is
\* gone, and the cursor may point one entry too far.
WalkExact ==
  walk.appended /\ walk.at \in {"walking", "done"} =>
    /\ walk.got = SubSeq(walk.goal, walk.cursor + 1, Len(walk.goal))
    /\ walk.at = "done" => walk.got = walk.goal

\* A page always fits the frame, although it always holds an entry.
PageFits == walk.page <= FrameBudget
=============================================================================
