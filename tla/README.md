# TLA+ verification of hugin-agent

`hugind` is a daemon that dials out to a cloud relay, receives jobs, runs a
coding CLI (Claude Code, Codex) for them, and streams events and results back.
This directory holds a formal model of its core: TLA+ modules translated from
the TypeScript under `src/`, TLC configurations that check them on small
instances, and TLAPS proofs of the most important properties for all instances.
`PROJECT.json` ties each definition to the lines it models and lists runs,
mutants, hazards, findings and theorems.

Paths below are relative to the repository root.

## 1. Inventory

| Part | State it keeps | Operations | Talks to |
|---|---|---|---|
| **EventLog** `src/store/eventlog.ts` | SQLite tables `attempts`, `events`, `results` | create / status / lease / delete of an attempt, append, ack, replay of events, save / update / ack of a result | called by JobManager and by the daemon for the hello |
| **JobManager + JobRegistry** `src/jobs/` | registry: attempt → JobState (lease, previous lease, seq, paused, fenced, run, pending approvals) | one handler per inbound frame (`job.assign`, `stream.ack`, `job.result.ack`, `lease.*`, `job.cancel`, `approval.response`), engine callbacks `onEvent`, `onDone`, `onApprovalRequest`, `applyResume` | relay (frames), engine, EventLog |
| **Daemon** `src/daemon.ts` | current connection, epoch, stop flag | dial, handshake, apply resume directives, pump frames, reconnect with backoff, stop | RelayClient, JobManager, SessionResumeManager |
| **RelayClient, handshake** `src/conn/` | inbound buffer, waiters, armed flag | open, waitFor, first message, signed hello, heartbeat | WebSocket |
| **ClaudeEngine** `src/engine/claude.ts` | per run: started, done, paused, cancelled, stdout buffer, timers, child, worktree, bridge | run, pause, resume, cancel; stdout, stderr, error, close, timeout, kill timer | worktree, ApprovalBridge, child process |
| **Worktree** `src/workspace/worktree.ts` | a directory per attempt | validate, create, cleanup | git |
| **ApprovalBridge and permission subprocess** `src/engine/permission.ts` | pending sockets by request | request, resolve, close | child's MCP tool, JobManager |
| **Session turns** `src/sessions/resume-manager.ts`, `resume.ts` | active turns, busy session keys; per runner: buffers, held events, flags | start, cancel, ack, timeout, cancelActiveTurns; runner pause / resume / drain / close | relay, CLI child |
| **Session enumeration and history** `src/sessions/enumerator.ts`, `history.ts` | handles given out; the files are the engines' | list (scan, scope, filter, sort, page), read history (parse, bound, page) | file system, relay |
| **CLI process control** `src/cli.ts` | pidfile | start, stop, status, connect | daemon process |
| **Pairing** `src/auth/`, `src/connect.ts`, server in `mock-relay/pairing-server.ts` | key store, config file; on the server rows, poll tokens, registered keys | complete with a proof of possession, poll, complete again, store the key, write the config; the simple flow | pairing server, operator |
| **Startup, self-checks, isolation** `src/index.ts`, `src/engine/isolate.ts` | config and signer in memory, isolation directory | load the config, build the isolation, login probe, gate probe, load the key | child process, key store, config file |
| **Protocol** `protocol/v1/` | none | schemas, digests, transcripts | both ends |

What is hard here. Node runs a handler to completion, so nothing races inside
one; everything else does: frames, engine callbacks, timers, child exits and
disconnects come in any order, across an `await` as well. The daemon may die
between any two SQL statements. The relay delivers at least once. Leases fence
an attempt that has been moved on, but the fenced run's child goes on living
for seconds. Backpressure pauses a stream in the middle of a line.
What each part must guarantee:

* *JobManager / EventLog*: one run per attempt, a stable run id, no result or
  unacked event lost, no gap in a stream, capacity respected, paused streams
  resumed, results collected.
* *ClaudeEngine / worktree*: one `onDone`, no child after the run is over, no
  run in another's directory, no child that lives for ever.
* *Approvals*: no tool without an explicit allow, every prompt answered, the
  answer final.
* *Session turns*: one turn per session, a turn that says `ok` has sent
  everything, every turn ends.
* *Session list and history*: a relay that pages gets every session and every
  entry that stayed put, once, in pages that fit a frame.
* *Pairing and startup*: no half-written pairing passes for one, a token pairs
  one device, a paired daemon's hello verifies, and the approval gate is open
  only when it was proven.
* *Daemon, RelayClient, handshake*: no frame lost between the accept and the
  pump, nothing handled on a refused connection, nothing sent that the relay's
  phase or version refuses, `stop()` always ends the loop.
* *CLI*: at most one start at a time, no daemon that `stop` does not know of.

Every hazard is listed at its line in `PROJECT.json`, with the properties
aimed at it.

## 2. Modules

```
EventLog  <-- JobManager <-- JobManagerProofs
                  ^
              MCJobManager                      EngineRun (abstract)
                                                    ^ implemented by
                                         Paths <-- ClaudeRun <-- MCClaudeRun, ClaudeRunProofs
                                           ^
Approvals <-- ApprovalsProofs              +------ SessionList
                                                       ^
SessionTurns <-- MCSessionTurns,        SessionHistory <-- Sessions <-- MCSessions, SessionsProofs
                 SessionTurnsProofs

Wire <-- RelaySession <-- MCRelaySession,      PairingServer <-- Pairing <-- Startup <-- MCStartup,
                          RelaySessionProofs                                             StartupProofs

Pidfile <-- PidfileProofs
```

An `MC` module adds the symmetry set of its safety runs (liveness runs use no
symmetry) or the values of constants that a cfg cannot write down. `Approvals`
and `Pidfile` are checked directly. Operators
named `Mutant...` are deliberate mistakes, each defined beside the operator it
corrupts and used by no specification; substituting one shows that a property
can fail.

### EventLog and JobManager

`EventLog` has one operator per SQL statement, over tables that are functions
from attempts to rows. It keeps statements apart that the code executes apart
(`InsertEvent` / `RaiseLastSeq`, `DeleteAttemptRow` / `DeleteEvents`), so that
`JobManager` can stop between them.

`JobManager` has the state `attempts, events, results` (durable), `registry,
job` (lost in a crash), `conn`, `hello` (the report sent at the start of a
connection), and `relay` (what the far side has received; external).

| Code | Actions |
|---|---|
| `handleAssign` | `AssignDuplicate`, `AssignRefused`, `AssignStarts` |
| `onEvent` (stdout / stderr / output after a timeout) | `EngineStdout`, `EngineStderr`, `EngineLateOutput`, `EventKeyThrows` |
| `onDone` | `EngineExits`, `EngineFails`, `EngineTimesOut`, via `OnDone` |
| `handleStreamAck`, `handleResultAck` | `HandleStreamAck`, `HandleResultAck` |
| `handleLeaseGranted`, `handleRevoke`, `handleCancel` | the actions of these names |
| `Daemon.runSession`, `applyResume` | `Dial`, `HandshakeFails`, `HelloAccepted` (all directives, then the pending results), `Disconnect` |
| death of the process | `Crash`; between statements `CrashInAssign`, `CrashInAppend`, `CrashInOnDone`, `CrashInResultAck`, `CrashInRevoke`, `CrashInResume` |

The relay is any relay that keeps the protocol: it acks only what it has,
answers each reported attempt with one of the directives the schema allows for
it, uses increasing leases, rotates only a lease of an assignment that was
accepted (`protocol/README.md:49`), and does not assign again what it has acked. A link
may be dead (`"broken"`) for a while before the daemon sees it; frames sent
meanwhile are lost, and so may be the relay's acks.

Abstractions: a payload is nothing, an event is one unit against the caps, so
bytes and counts coincide. Leases are numbers, because the relay never reuses
one. The overlap of a rotated lease ends at any time (`OverlapExpires`).

### EngineRun and ClaudeRun

`EngineRun` is the contract of `src/engine/types.ts` as JobManager relies on
it: a run begins, may spawn a child, outputs, and ends at most once. Two kinds of
call come after its end: a run that timed out may output until the killed child's
pipes close (`late`), and one that was cancelled while `bridge.start` is awaited may
report that the bridge failed, because that `catch` does not look at `finished`
(`ending`: `Quit`, then `LateFail` or `LateClose`). The engine actions of
`JobManager` allow all that `EngineRun` does; it has one state, `late`, for both
kinds, and lets either of them emit more than once.

`ClaudeRun` models the closure of `ClaudeEngine.run`: the step (`queued`,
`bridge`, `spawned`, one per await), then the child with its pipes, the signal sent to
its group, the timers, the flags of the closure, and the shared directory
`worktrees/<attempt_id>`. `EngineOf` maps it to the contract, and
`ImplementsEngineRun` is the refinement. When `bridge.start` settles, `BridgeFails`
emits and finishes whether or not the run is over; `ConfigFails` and `BridgeReady`
come after the check of `finished`, which ends a cancelled run's start silently.
`ChildPrints`, the child's exit code
and its reaction to SIGTERM are nondeterministic. A run begins with `validate`:
`ValidateWorkspace` is `validateWorkspace` over the real paths of `Paths`, and
`SafeSegment` maps an attempt id to the name of its directory, so that runs of
one attempt, and of two attempts whose ids map to one name, meet in it.

`Paths` has the containment test that worktrees and the session list share: a
path is the sequence of its names, and the file system a function from the
paths that exist to their real paths.

### Approvals

The prompts of one run: what each call of the subprocess has come to
(`prompt`), its socket and the decision line on it (`sock`, `wire`), the
bridge's map (`pending`), the manager's timers (`timers`), the phase of the run,
the link, and, external, what the relay was asked and the human said. `OnApprovalRequest`, `ApprovalTimesOut`,
`HandleApprovalResponse`, `Fenced`, `RunEnds`, `ChannelBreaks` are the
handlers; an answer may come twice, late, or under a stale lease.

### SessionTurns

The manager's turns and locks together with the runner of
`src/sessions/resume.ts` (the Claude and the Codex runner have the same
control): events held back during a pause, the drain that stops in the middle
of a chunk, the close that waits for the drain, cancel, timeout, disconnect.
A line makes `EventsPerLine` events, because a pause in the middle of one is
where the care is needed.

### Wire and RelaySession

`Daemon.start`, `runSession` and `stop`, one `RelayClient` per connection, and
`performHandshake`. `loop` says at which `await` the daemon is suspended; a
client has its socket's state, its phase (`authed`, `v2`, `armed`), its buffer,
its waiter and the message that resolved it. A promise's continuation runs
before the next timer, signal or socket event, but `ws` may emit several
`message` events first; `Settled` expresses this, and only `Receive` ignores it.
That is the window the synchronous phase flip in `client.ts` is about.

| Code | Actions |
|---|---|
| `start`, `runSession` | `Dial`, `ConnectContinues`, `EpochRefused`, `Established`, `Exits` |
| `performHandshake` | `ChallengeContinues`, `HandshakeFails`, `WaitTimesOut` |
| `RelayClient` listeners | `Opens`, `ConnectFails`, `Receive`, `Oversized`, `Closes` |
| `stop` | `Stop` |

`Oversized` is `maxPayload` of the `ws` socket: at the header of a larger frame `ws`
starts to close, with 1009, and hands nothing more to the client, so the size check of
`decodeInbound` is not reached here and what the relay sent behind that frame is
lost with the connection. Any other frame that does not decode is skipped. The size
of what the daemon sends is not modelled.

A frame after the accept is a number; what its handler does is in `JobManager`
and `SessionTurns`, whose connection steps (`Dial`, `HelloAccepted`,
`Disconnect`) abstract this module. A version is its major number. The relay is
external and may be silent, send an accept before it has the hello, repeat an
epoch, or name a version the agent does not speak. `SafeSend` and `Beats` are
everything the daemon may send at any moment, turns and heartbeat included.

`Wire` holds what decides whether a frame gets through at either end:
`DIRECTION`, the types of the two protocol versions and of the handshake,
`negotiateVersion` and `decodeInbound`.

### PairingServer, Pairing and Startup

`PairingServer` is the server of `mock-relay/pairing-server.ts`, the
in-repository counterpart of the pairing endpoints: one operator per handler,
with the reply as its last parameter. `Pairing` has the processes that run
`connect` or `connectSimple`, the key store and the config file of each host.
`Startup` adds a daemon that starts on such a host.

| Code | Actions |
|---|---|
| `connect` | `StartConnect`, `CompleteReturns`, `StatusReturns`, `Wake`, `StoreSeed`, `OpenConfig`, `WriteConfig` |
| `connectSimple` | `StartSimple`, `ProbeReturns`, `SimpleReturns`, then as above |
| the server's handlers | `ServeComplete`, `ServeBadComplete`, `ServeStatus`, `ServeProbe`, `ServeSimple`; `Mint`, `Confirm`, `Reject` |
| network, death | `FetchFails`, `Killed` |
| `runDaemon` | `Start`, `Detected`, `LoginChecked`, `Finish`, `LoadSigner`, `Stops` |
| the probed engine (external) | `ProbePrompts`, `ProbeWrites`, `ProbeDies` |

A request is served at some moment between the await and the reply, or lost
before or after. `writePairingConfig` is a plain `writeFileSync`, so the config
is first opened (and torn until it is written). A key and a signature are
symbolic: a signature is who signed what. The relay's `verifyHello` is applied
to the hello the started daemon would sign.

### SessionList, SessionHistory and Sessions

`SessionList` is `SessionEnumerator.list`, asked again and again with the
cursor it gave last, while sessions are written and removed. `ListPage` scans,
scopes by real path (`Paths`), filters, sorts and cuts a page, as one step; the
subagent cap, the order of `readdir`, and the difference between the sort's
`localeCompare` and the cursor's `>` are in it. `SessionHistory` is
`readHistory`: a file of records becomes entries (`BuildClaude`, `BuildCodex`:
tool results are matched with calls, first come first served), entries are cut
to their byte limit, and `ReadPage` cuts a page for the frame, while the engine
appends any record to the file, in any order, or rewrites it. A text is a sequence of UTF-16 units,
because a cut through a surrogate pair changes its size in bytes. `Sessions`
puts the two walks, which share no state, behind one specification.

### Pidfile

The processes of `hugind start | stop | status | restart`. They share nothing
but `hugind.pid`, so a step is one system call on it (open with `wx`, write,
stat, read, unlink, rename), one look at a process, or one signal. The contents
of the file (kind and owner) never repeat and stand for its fingerprint.
`clobbered` is a history variable: it becomes true when an unlink removes
another file than the one that was compared, or the claim of a live CLI that
needed more than the two seconds of grace to write it. `service/README.md:95` admits
the first; of the second, which needs a CLI suspended between `open` and `write`, it
does not speak. `ps` may fail, a claim
may be fresh or old, a CLI and a daemon may die anywhere. The first pidfile may
be missing, unreadable, a bare pid, or a record, of a process that lives, is
dead, or has its pid reused.

## 3. Runs

Safety runs use `Spec`, without fairness; runs with a liveness property use
`FairSpec`. Each `CHECK_DEADLOCK FALSE` is there
because the system legitimately comes to rest: bounded leases, runs and events
are used up and the daemon waits for work that no longer comes.

| Run | Shows |
|---|---|
| `JobFencing` | `LiveRunIsRegistered`: a live run that is not fenced is the one in the registry, so an attempt never has two. `ResultMeansFinished`: a stored result has its row and no running job, which is why `ack_pending` and `job.result.ack` may drop a registry entry without fencing. `ResultReachesRelayOutsideHandshake`: on an established connection the relay has every pending result, but for runs that ended after the hello had reported them as active and before `hello.accepted`; a run that ends later on that connection is not excepted. `RunStable`: a repeated assign is never answered with another run. `NoResultLost`: a result goes only when the relay has it or gave up. All this with late callbacks, crashes and torn handlers. |
| `JobStream` | `NoEventLost`: an event is stored until acked. `NoGap`: the relay sees no seq ahead of its prefix. Crashes between handlers are included; late callbacks and torn handlers are not, see below. |
| `JobLiveness` | `LiveRunsWithinCapacity` with two attempts and one slot; `RunsFinish`, `ResultsCollected`. |
| `ClaudeRuns` | `ImplementsEngineRun` (one end, a cancel during an await spawns nothing, and after the end only the two kinds of late call), `WorktreeIsOwn`, `StdoutComplete` (of a run not paused at its end), `RunsEnd`, `ChildrenDie`, with a child that may hang, a daemon that may die, and two attempts that share a directory name. An assumption of `MCClaudeRun` compares `ValidateWorkspace` with the set of workspaces that is meant. |
| `ApprovalPrompts` | `FailClosed`, `HeldPromptIsTimed`, `OneDecision`; `PromptsSettle`, even with the relay gone. |
| `RelaySessions` | `NoFrameLost`: while the socket lives, the frames after the accept are dispatched, buffered or in flight, all of them, in order; of a frame larger than `ws` takes, all before it. `EpochFences`: only a connection with a new epoch is served, what a refused one had buffered reaches no handler, and no pump is left when the store closes. `UplinkDecodes`: the relay can decode everything it is sent. `StopEnds`: `stop()` at any moment ends the loop. `HandshakeSettles`, with a silent relay. |
| `Pidfiles` | `ClaimHeld`: the pidfile of a start in progress is its claim, so starts exclude each other. `NoOrphan`: every daemon not asked to go is in the pidfile or still watched. Both hold unless `clobbered`, and `NoOrphan` excepts a start killed between spawn and record: the limits `service/README.md` admits, and a claim left empty beyond its grace, are the only ones. |
| `TurnSafety` | `BusyMeansOneTurn`, `OkMeansAllLines`, `SecondWriterOnlyAfterKill`, `OverIsFinal`. |
| `TurnLiveness` | `TurnsEnd`. |
| `Devices` | `NeverHalfPaired`: a config file that parses names a key that the key store holds and the server activated for it. `PairedDaemonVerifies`: a daemon that serves from what `connect` wrote sends a hello the relay verifies, although config and key are read minutes apart. `GateIsProven`: the gate is open only under the isolated config, after a prompt that was denied, and when the probe can no longer write. `OneDevicePerToken`: a connect that ends paired has its key registered, and no two end so by one token. `ConnectEnds`, whatever the server answers. |
| `Sessions` | `ListComplete`: a walk that ends has listed every session that was there all along. `WalkExact`: over a file that only grows, the walk returns the entries of its beginning, once each and in order, unless a Codex call is appended behind an enrichment that names it and had an entry of its own (below). `PageFits`: a page fits the frame although it always holds an entry. `ListWalkEnds`. |

### Disagreements between the code and its documentation

`JobStuckPause` ends in a counterexample; `PROJECT.json` quotes the sentence
that the code does not keep.

| Run | What happens |
|---|---|
| `JobStuckPause` | A run paused by the connection-wide cap is not resumed when another attempt's acks free the connection: `handleStreamAck` looks only at the acked attempt. It stays paused with nothing unacked. |

The same models showed, in earlier instances, further places where the code
does less than a sentence in the repository suggests. They shape the properties
above, which are stated so as to hold:

* A run that ends between the hello and `hello.accepted` was reported as active,
  gets `resume_from`, and its result is neither sent nor reported until the next
  reconnect (`src/daemon.ts:151`, against "they stay durable + resume" at line
  185). `ResultReachesRelayOutsideHandshake` excepts exactly these runs: `hello.missed`
  is fixed when `hello.accepted` is handled.
* `catch` around `bridge.start` (`src/engine/claude.ts:151`) emits `engine_error`
  without a look at `finished`; the check in line 156 ("cancelled while the bridge
  was starting") is on the other path. A run that was cancelled meanwhile thus calls
  `onEvent` after `onDone`. `EngineRun` and `JobManager` have this call.
* The drain on `close` does nothing while a run is paused, so lines still in
  `stdoutBuf` are lost and the run succeeds ("drain(); // flush any buffered
  tail", `src/engine/claude.ts:194`). `StdoutComplete` speaks of runs that are
  not paused at their end.
* The check in `scripts/e2e.ts:4123` reads "walks older without dup/skip, and is
  append-stable". For Codex, `buildCodexHistoryEntries` reads the ids of all calls
  first (`src/sessions/history.ts:153`), and an enrichment with a call has no entry of
  its own (line 215). A call appended behind an enrichment that names it takes
  away the entry the enrichment had, later entries may move, and a cursor given
  out before then points one entry too far: the walk gets one again. Nothing in the
  repository says in which order the engine writes the two, so `AppendLine` allows
  both, and `WalkExact` no longer speaks of a walk once this has happened
  (`Displaces`).
* An accept that the relay sent before it had the hello is discarded only if it
  is also read before the client is armed; read later it is taken, although
  `src/conn/handshake.ts:116` says that "any accept the relay sent BEFORE the
  possession proof" is discarded.
* `handleRevoke` and `handleLeaseGranted` return when the registry has no entry.
  After a restart, or once the run has ended, the row of a revoked attempt stays
  (and fences the next assignment), and a rotated lease is not stored
  ("Durable drop so a fresh re-assignment (new lease) starts clean",
  `src/jobs/manager.ts:457`). `JobLiveness` therefore has one lease.
* A timed-out run is finished before its child's pipes are drained. Output read
  after that is appended even when the attempt has been acked and deleted, or
  assigned again, in which case the old run's events get into the new run's
  stream. A handler torn between `deleteAttempt`'s two statements leaves events
  behind in the same way. `JobStream` excludes these two faults because `NoGap`
  fails under both.
* stderr, and the rest of a line with several events, are emitted while paused,
  so the unacked events of a job exceed the cap by that much. Session turns hold
  such events back.
* `job.result.ack` deletes unacked events with the attempt, so the tail of a
  stream may never reach the relay once the result has.
* All runs of an attempt share `worktrees/<attempt_id>`. A re-assignment that
  meets the directory of a dying run, or of a daemon that died, fails with
  `worktree_failed`; nothing reclaims orphans at start-up.
* Session events are neither stored nor resent, although
  `docs/c2-session-attach-integration-brief.md:140` says so.
* A timeout or a disconnect frees the session while the CLI on it has only been
  sent SIGTERM, so a second turn may start beside it, against "a per-session
  mutex so two turns can't resume the same session concurrently"
  (`docs/session-attach-design-spec.md:80`). `SecondWriterOnlyAfterKill` is what
  holds.
* `docs/c2-session-attach-integration-brief.md:90` has the list sorted with ties
  broken by handle, and a stale cursor answered by `cursor_invalid`. The code
  breaks ties by `cursorKey` and starts again from the top.
* The list is sorted with `localeCompare` and continued with `>`
  (`src/sessions/enumerator.ts:101`, `:107`): of sessions with one mtime whose
  keys the two order differently, or whose keys are equal, some may be skipped at
  a page boundary. `ListComplete` excepts them (`Confusable`).
* `truncated` reports the subagent cap of the last scan only; a session behind
  the cap on one page may come in front of it on the next.
* `selfCheckLogin` takes a probe that its 60 second timer killed, or that failed
  in words the pattern does not know, for logged in
  (`src/engine/isolate.ts:110-121`). The gate does not rely on it.
* `writePairingConfig` is "Atomically-ish" by its comment
  (`src/auth/config-file.ts:38`) and a `writeFileSync` in place by its code: a
  crash leaves a torn file. `readPairingConfig` refuses it, so `NeverHalfPaired`
  holds.
* `validateWorkspace` looks for `cwd` in the repository, while the run uses it
  inside the new worktree, where it may not exist. An allowed root `/` admits
  only itself, as nothing starts with `//`.
* `safeSegment` is not injective: attempts `a.` and `a/` share a directory, and
  the second of them fails with `worktree_failed` (`WorktreeIsOwn` shows that it
  does not use the other's).

### Bounds

* `Attempt`: one suffices for fencing and streaming, as attempts share nothing
  but the capacity and the connection cap; the runs about those two have two.
* `Run`: two, so that a run meets its replacement, or another for the slot.
* `MaxLease` 2: a lease and its successor, enough for every stale / overlap /
  current comparison; 3 in `JobStream`, so that a lease is rotated and the attempt
  assigned anew as well. `MaxSeq` 2 or 3, with `CapAttempt` 2 below it, so that a
  stream pauses, is resumed, and can exceed the cap. In `JobLiveness` the cap
  is one and so is the stream, so that a single event pauses a run.
* `Faults` chooses among `late` (a timeout with output after it, and a cancel whose
  bridge fails afterwards), `crash`, `torn`; `JobFencing` has all.
* `MaxLines` 2 / `MaxStderr` 1 (ClaudeRun): a line buffered behind a paused
  one.
* `Cap` 3 with `EventsPerLine` 2 (SessionTurns): the cap falls inside a line.
  `TurnLiveness` uses cap 2 and three lines, so that a turn pauses repeatedly.
* Attempts `a.` and `a/` (ClaudeRun) share a segment: two runs of one attempt
  behave as these do. The file system has links into a repository and out of it.
* `Conn` 2, `MaxEpoch` 2, `MaxFrames` 2, majors 1 and 2 (RelaySession): a
  reconnect with an old, the same or a new epoch while the first socket is still
  closing; two frames, so that order shows; the version changes what decodes.
* `Cli` 2 (Pidfile): with the daemon of an earlier pidfile there are three
  parties; every race on the file is between two of its users.
* `Conn` 2, one `Host`, one `Token`, one `Code` (Devices): the races are between
  two connects for one token, and over one host's files. `TokenTtl`,
  `ActiveTtl` 1 and `PendingTtl` 2 with `MaxTime` 2 let each expiry come before
  and after every request; the caps are one, so that each is reached.
* `NPath` 4 (Sessions): a session, two nested ones behind a cap of one, and one
  of the other engine, with keys that collate against their order and a repeated
  key; pages of one and two. `MaxLines` 3 with two or three entries to a page;
  the byte limits lie so that a text is cut in and beside a surrogate pair, calls
  are dropped, and a page is filled by bytes as well as by count.
* `Req`: two prompts, so that an answer to one may disturb the other.

### Fairness

Weak fairness only, and only on what the runtime does by itself:
spawning and reading a child (the event loop), timers that have been set, the
exit of a child that has been killed or, in `JobLiveness` and `TurnLiveness`,
that is not blocked on a full pipe; the daemon's redial loop; and a relay that
acks what it has, which the protocol requires. `ClaudeRuns` assumes that
`bridge.start` settles for a run that is not over, and no cooperation of the child
before SIGKILL; `ApprovalPrompts` assumes none of the relay or the human. `RelaySessions` asks nothing of the relay: continuations
and timers run, and a closing socket closes, because `ws` destroys it after 30
seconds; a dial may hang, as `connect()` has no timeout. `Devices` lets the
clock advance and a request be answered or fail, and asks neither the server
for a good answer nor the operator for a confirmation. `Sessions` assumes a
relay that walks the list to ask for the next page; files change only finitely
often.
No fairness is put on failures, cancels or disconnects.
The two liveness properties that need the relay have `<>[](conn = "up")` as a
premise: with a link that always breaks nothing can be promised.

## 4. Proofs

TLAPS checks the eight `...Proofs` modules, for every value of the constants:
every safety invariant and every action property of the passing runs, and the
refinement of `EngineRun`; what is left to TLC is liveness. TLC has checked each
inductive invariant on its run's instance. The assumptions are those named in the
modules: bounds and caps are naturals, "none" values are no members of their sets,
attempts are finitely many, a record of a session file has a known form and an entry
without text and calls fits (`HistoryAssumption`), a key is a connect's own
(`KeyIsConn`), no identity reads `absent` or `torn` (`ConfigAssumption`), and what the daemon sends on a link
is of the version it advertises and not a frame of the other direction
(`FrameAssumption`), which the types of the TypeScript see to.

**JobManager** (`Invariance`, from which `TypeCorrect`, `Fencing`,
`ResultsAreOfFinishedRuns`, `RunIdentity` and `ResultDurability` follow). None
of the properties is inductive alone. `IInv` adds to `TypeOK`,
`LiveRunIsRegistered` and `ResultMeansFinished`:

* `JobHasAttempt`: a run with a child, or with pipes left of one, belongs to an
  attempt;
* `RegistryBacked`: what the registry holds is a live, unfenced run of that
  attempt, the attempts row names it, and there is no result yet. Without it an
  assign could overwrite the row of a registered run;
* `ResultBacked`: a stored result is of the run its attempts row names;
* `HelloBacked`: what a hello in flight reported is still in the tables when
  the directives are applied, although other handlers ran in between;
* `RelayRunKnown`: the run the relay was told is the one the row names, or is
  over and acked. This carries `RunStable` over a crash.

`Next` is proved action by action; actions with the same footprint share
lemmas (`OnDone`, `Fence`, the append), and each torn handler is a case of its
own. `RunIdentity` and `ResultDurability` are action properties, proved
from `IInv` and the step.

**The link and the stream** (the second part of `JobManagerProofs`, on top of `IInv`,
in two layers).
`LinkInv` holds under all faults, torn handlers included. `SlotsHeld` says that the
registry keeps within the capacity and that memory, row and relay agree on a registered
run's lease; `LeasesKnown` that no row is ahead of the relay; `HelloCovers` that
whatever needs settling was in the hello, which makes the runs that ended between it
and its answer the only exception of `ResultReachesRelayOutsideHandshake`: a run that
ends later sends its result at once, as the link is up. `CapacityKept` and
`ResultsReachTheRelay` follow; the first through `LiveRunIsRegistered`, as live
unfenced runs map one to one to registered attempts.

`StreamInv` is for daemons that die between two handlers (`Faults` within
`{"crash"}`): `StreamInvariance`, `EventsAreKept`, `StreamHasNoGap` state this as a
hypothesis. It is needed: with a run that still writes after its timeout, or a torn
`deleteAttempt`, `NoGap` is false (section 3). `EventsOfRow`: every stored event is of
its row's run, and no newer than the registered run's counter. `StreamWhole`: what was
emitted beyond the relay's prefix is stored, and on a working connection the prefix
is the counter, because a live frame is sent the moment it is numbered. The hard case
is `HelloAccepted`, where one handler resumes, resends, revokes and forgets attempts
by their directives.

**ClaudeRun** (`ClaudeRunInvariance`, then `WorktreeOwned`, `SuccessIsComplete`).
`IInv` relates, run by run, the step to the child, timers and outcome
(`BeforeSpawn`, `EndsWithChild`), puts each line in exactly one of pipe, `stdoutBuf`
and emitted events (`LinesAccounted`), and says that a handle on a worktree is its
owner's (`HandleIsOwners`). `EngineContract` is the refinement: under `EngineOf` each
action is an action of `EngineRun` for that run, or leaves what `EngineRun` sees alone.
A cancel is `Quit`, `End` or a stutter by where the run is; `BridgeFails` is `Fail`, or
`LateFail` if a cancel came first. `SuccessIsComplete` leaves out a run that is paused
at its end, whose buffered lines the code loses.
The steps before `spawn`, a pause, and a kill are stutters.

**SessionTurns** (`SessionTurnsInvariance`, then `OneTurnPerSession`,
`OkIsAllLines`, `OneWriterPerSession`, and the action property `ResultsAreFinal`).
`RunMatchesTurn` ties the manager's turn to the runner behind it; `EventsAccounted`
bounds, from above always and from below while the turn is active, what was sent and
held back plus what the unread lines will make, so that nothing held and nothing
unread at the close means everything sent (`OkIsComplete`). The handlers work on one
turn and its run (`Pair`), and the lemmas follow the drain's loop: each pushed line
keeps the account.

**RelaySession** (`RelaySessionInvariance`, then `EpochsFence`, `UplinkIsHeard`).
`LoopMatchesClient` says what `loop` means for the session's client: nothing is
outstanding when it starts to wait, and a served connection has the newest epoch and
a relay that listens. `Link` follows an accept from the relay through the socket, the
buffer and the waiter to the handshake: wherever it is, it names the version the relay
speaks (`Vouched`), unless the relay sent it too early. `OthersAreGone` closes the
gap that a session over leaves: its socket is closing and nothing is in flight.

The second part, `FlowInvariance` and `NoFrameIsLost`, follows the numbers of the
frames. `FramesFlow` is about one connection: what was handled, what is buffered and
what is in the socket, in this order (`Flow`), ascends and has every number that
decodes (`Kept`). An oversized frame empties the socket, and the relay's numbers end
before it (`KeptCut`). The loss it excludes is that of the synchronous phase flip: a frame
met by a client that does not speak its version yet would be dropped. So `AcceptFirst`
says that a frame is always behind the accept that changes the version, or the
client has already made the change, and `Encoded` that each frame is of the version
the relay speaks. `Serves` leaves out one relay: it accepts before it has the hello,
and then again with a newer version than the agent advertises. The first accept has
settled how the agent decodes, so `NoFrameLost` would be false.

**Pidfile** (`PidfileInvariance`, then `PidfileIsLock`, `NoDaemonIsLost`). The
properties, and `IInv` with them, speak of histories in which no removal has hit a
wrong file (`clobbered`): mostly the limit of a compare-then-unlink that
`service/README.md` admits. Until then `FilesInOrder` has each start create its claim,
write, spawn and publish once, so that a file's contents never come back;
`SnapshotJudged` is the heart: a CLI about to remove a file that is still there
has judged that very file, and nobody is served by it any more (`Spent`).
`RemovalOfDead`, `NamedIsSpawned` and `DaemonIsPublished` carry this to the daemons.

**Startup**, in two parts. `GateInvariance`, then `GateProven`: `GateInv` adds
`ProbedIsIsolated` (what is probed runs under
the isolated config; `IsolatedSettings` shows that no inherited variable can lead
the engine elsewhere) and `GateComesLast` (the gate is still closed while any
check may start an engine, so none lives once it is open). `PairInvariance`, then
`PairedOrNot`, `ServesVerified`, `TokenIsOneDevices`: a chain of knowledge from the
server to the signature. `RowsSettled`: a row with a winner is past completion and its
key registered. `ConnKnows`: a connect that was answered owns its row, one that was
told of an activation may store, and one past `storeSeed` has a seed in the key store.
`DiskKnows`: the server vouches for every stored seed, every config names one.
`DaemonKnows`: so does what the daemon read, minutes before it reads the key.
`ServerMoves` is what makes these stable: no handler forgets an owner or an activation.

**Sessions**, in two parts that share the lemmas about least elements, orders and sums.

*The list* (`ListInvariance`, then `ListIsComplete`). `ListInv` says what a cursor
stands for: every session that stayed and is not listed yet is behind it. A page cuts
the ranked sessions at its last one, so the next cursor is that session's place;
the sort (`Ranks`, `Page`) and the comparison with a cursor agree on all but
confusable sessions. A write moves a session to the front, where the walk has been,
and takes it out of those that stayed. Because `Rank` is a cardinality, the proof
needs no induction over a sorted sequence.

*The history* (`HistoryInvariance`, then `WalkIsExact` and `PagesFit`). `WalkInv` says
that, while the file only grows and no entry is displaced, the entries there were when
the walk began have kept
their places and ids (`Kept`), and what the walk has is exactly what lies behind its
cursor. It rests on three results about `readHistory`:

* `Bounded`: whatever an entry holds, what `boundHistoryEntryBytes` leaves of it fits.
  The loop that drops calls ends in an entry that fits or has none left, and
  `SearchFits` is the loop invariant of the binary search: `best` fits, because an empty
  text does, whatever the rounds have made of the interval;
* `EntriesStable`: appending a record that does not displace an entry (`Displaces`)
  adds entries but moves none. For Claude, the n-th
  record with an entry stays the n-th (`NthStable`). For Codex it is an invariant of the
  two runs of the loop side by side (`Same`): what a record does to the list of entries
  (`Effect`) is not changed by a later one. A call may come behind an enrichment that
  names it as long as that one had joined the entry of another record (`TakesNone`): the
  tool call it had added goes, but no entry moves. If it had an entry of its own,
  `EntriesStable` is false, and `WalkInv` says nothing any more;
* `PageFound`: there always is a page, as one entry alone fits the frame.

The recursive functions of these modules (`Joined`, `Built`, `Search`, the sum of the
sizes) are handled without induction theorems: `Iterates` shows that a function which
each step determines exists, `Upto` and `Along` carry an invariant along its steps, all
from the least element of a set of naturals (`Least`).

**Approvals** (`ApprovalInvariance`, then `ToolsFailClosed`, `PromptsAreTimed`,
`DecisionsAreFinal`). `IInv` adds `AllowIsSaid` (an allow in the channel was
said by the human), `WrittenOnce` (a request has left the pending map when
its decision is written), `PendingIsOpen`, `PromptFirst`, and `TimersServed`
(only a live run has timers).

**Only model-checked**:

* all liveness: fairness and `ENABLED` are outside the prover's reach;
* `NoStuckPause`, which is false.

No module declares a `RECURSIVE` operator: sequence numbers, sets and counters do where
they can, and recursive functions where the code loops, so that all can be proved about.

## 5. Not modelled, and the plan

All parts of the inventory are modelled, the protocol and the mock servers in
part (`PROJECT.json` says which). What is left, in this order:

1. Proofs: the stream under a timeout, for attempts that are not assigned again.
2. Composition: `RelaySession` with `JobManager`, so that the connection steps
   of the latter are shown to be abstractions of the former, and `stop()` meets
   live runs whose callbacks find the store closed.

Left out for good:

* event normalisation (`src/engine/normalize.ts`): a stateless conversion of
  JSON; the models count the events a line makes;
* the field schemas (zod) and the arithmetic of Ed25519 and SHA-256: signatures
  and digests are symbolic, what they cover is modelled;
* `scripts/e2e.ts` and the `gen-*vectors.ts` generators, some 6,800 lines: test
  programs that drive the parts modelled here and keep no state of the system.
  They are most of what the map does not cover;
* fake engines, logging, messages to the operator, the choice of paths.
