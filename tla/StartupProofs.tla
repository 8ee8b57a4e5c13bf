--------------------------- MODULE StartupProofs ---------------------------
(***************************************************************************)
(* Startup for every set of connects, hosts, keys and tokens, and every    *)
(* environment.  First the approval gate, which is open only when the      *)
(* probe has proven it, whatever the connects and the server do; then      *)
(* pairing, from the server's rows to the key that the daemon signs with.  *)
(***************************************************************************)
EXTENDS Startup, TLAPS

\* The fields of the daemon's state stay what they are; the gate is a truth value.
Shape ==
  /\ DOMAIN daemon = {"at", "host", "agent", "key", "override", "env", "settings", "gate", "signer"}
  /\ DOMAIN probe = {"alive", "fired", "wrote"}
  /\ daemon.gate \in BOOLEAN

\* runDaemon between buildIsolation and the end of the gate probe: the engine is run
\* under the isolated config, and that config is in place.
ProbedIsIsolated == daemon.at \in {"login", "gate"} => daemon.env = "isolated" /\ daemon.settings

\* index.ts: the gate is set once, after the probe.
GateComesLast == daemon.at \in {"off", "detect", "login", "gate"} => ~daemon.gate

\* No other engine is alive before the gate probe.
GateInv == Shape /\ ProbedIsIsolated /\ GateComesLast /\ GateIsProven

-----------------------------------------------------------------------------

\* buildIsolation in either mode: whatever the daemon's environment holds, the
\* settings that the engine reads are the isolated ones.
LEMMA IsolatedSettings ==
  ASSUME NEW mode \in IsolationMode
  PROVE  SettingsOf(ScrubbedChildEnv(IsolationEnv(mode))) = "isolated"
<1> DEFINE name == IF mode = "config-dir" THEN "CLAUDE_CONFIG_DIR" ELSE "HOME"
           over == IsolationEnv(mode)
           env == ScrubbedChildEnv(over)
<1>1. DOMAIN EnvAuthOverlay \subseteq {"ANTHROPIC_API_KEY", "CLAUDE_CODE_OAUTH_TOKEN"}
  BY DEF EnvAuthOverlay, Picked
<1>2. DOMAIN over = {name} \cup DOMAIN EnvAuthOverlay /\ over[name] = "isolated"
  BY <1>1 DEF IsolationEnv, Spread
<1>3. DOMAIN env = DOMAIN over \cup DOMAIN Picked(EnvAllowlist)
  BY DEF ScrubbedChildEnv, Spread
<1>4. \A v \in DOMAIN over : env[v] = over[v]
  BY DEF ScrubbedChildEnv, Spread
<1>5. DOMAIN Picked(EnvAllowlist) \subseteq EnvAllowlist
  BY DEF Picked
<1>6. "CLAUDE_CONFIG_DIR" \in DOMAIN env <=> mode = "config-dir"
  BY <1>1, <1>2, <1>3, <1>5 DEF EnvAllowlist, IsolationMode
<1>7. env[name] = "isolated"
  BY <1>2, <1>4
<1> QED
  BY <1>6, <1>7 DEF SettingsOf, IsolationMode

\* A start from any config, and the end of the process, close the gate.
LEMMA GateClosed ==
  ASSUME GateInv,
         (\E override \in BOOLEAN : Start(override)) \/ Stops \/ LoadSigner
  PROVE  GateInv'
<1> USE DEF GateInv, Shape, ProbedIsIsolated, GateComesLast, GateIsProven
<1>1. CASE \E override \in BOOLEAN : Start(override)
  BY <1>1 DEF Start, Load, Off
<1>2. CASE Stops
  BY <1>2 DEF Stops, Exit, Off, NoProbe
<1>3. CASE LoadSigner
  <2>1. CASE Exit
    BY <2>1 DEF Exit, Off, NoProbe
  <2>2. CASE daemon' = [daemon EXCEPT !.at = "serve", !.signer = StoredKey] /\ UNCHANGED probe
    BY <2>2
  <2> QED
    BY <1>3, <2>1, <2>2 DEF LoadSigner
<1> QED
  BY <1>1, <1>2, <1>3

\* The self-checks: the engine is isolated first, and only a probe that asked, was
\* denied, did not write and has exited opens the gate.
LEMMA SelfCheckStep ==
  ASSUME GateInv,
         \/ \E mode \in IsolationMode : Detected(mode)
         \/ \E outcome \in LoginOutcome : LoginChecked(outcome)
         \/ \E exited \in BOOLEAN : Finish(exited)
  PROVE  GateInv'
<1> USE DEF GateInv, Shape, ProbedIsIsolated, GateComesLast, GateIsProven
<1>1. ASSUME NEW mode \in IsolationMode, Detected(mode) PROVE GateInv'
  BY <1>1, IsolatedSettings DEF Detected, BuildIsolation
<1>2. ASSUME NEW outcome \in LoginOutcome, LoginChecked(outcome) PROVE GateInv'
  BY <1>2 DEF LoginChecked, CleanupIsolation, NoProbe
<1>3. ASSUME NEW exited \in BOOLEAN, Finish(exited) PROVE GateInv'
  BY <1>3 DEF Finish
<1> QED
  BY <1>1, <1>2, <1>3

\* The engine is external, and as long as it lives it may do anything.
LEMMA EngineStep ==
  ASSUME GateInv, ProbePrompts \/ ProbeWrites \/ ProbeDies
  PROVE  GateInv'
BY DEF GateInv, Shape, ProbedIsIsolated, GateComesLast, GateIsProven,
       ProbePrompts, ProbeWrites, ProbeDies

\* selfCheckGate, as runDaemon uses it: the invariant of the gate, in every state.
THEOREM GateInvariance == Spec => []GateInv
<1>1. Init => GateInv
  BY DEF Init, Off, NoProbe, GateInv, Shape, ProbedIsIsolated, GateComesLast, GateIsProven
<1>2. GateInv /\ [Next]_vars => GateInv'
  <2> SUFFICES ASSUME GateInv, [Next]_vars PROVE GateInv'
    OBVIOUS
  <2>1. CASE UNCHANGED <<daemon, probe>>
    BY <2>1 DEF GateInv, Shape, ProbedIsIsolated, GateComesLast, GateIsProven
  <2>2. CASE (\E override \in BOOLEAN : Start(override)) \/ Stops \/ LoadSigner
    BY <2>2, GateClosed
  <2>3. CASE StartupStep
    BY <2>3, GateClosed, SelfCheckStep DEF StartupStep
  <2>4. CASE ProbePrompts \/ ProbeWrites \/ ProbeDies
    BY <2>4, EngineStep
  <2> QED
    BY <2>1, <2>2, <2>3, <2>4 DEF Next, vars
<1> QED
  BY <1>1, <1>2, PTL DEF Spec

\* index.ts "the approval gate is LIVE only when BOTH hold": for every environment
\* the daemon may start in, and whatever the probed engine and the connects do.
THEOREM GateProven == Spec => []GateIsProven
BY GateInvariance, PTL DEF GateInv

-----------------------------------------------------------------------------
(* Pairing: what the server has settled, what each connect has learnt of   *)
(* it, and what the hosts and the daemon hold of that.                     *)

RowFields == {"state", "tokenExp", "pendingExp", "attempts", "winner", "pollTokens", "issued", "polls"}
ConnFields == {"at", "host", "token", "net", "poll", "recovered", "deadline", "id"}

RowShape(r) == DOMAIN r = RowFields

PairShape ==
  /\ DOMAIN rows = Token /\ \A t \in Token : RowShape(rows[t])
  /\ registered \subseteq Key /\ minted \in Seq(Token)
  /\ DOMAIN conn = Conn /\ \A c \in Conn : DOMAIN conn[c] = ConnFields /\ conn[c].host \in Host
  /\ keychain \in [Host -> [Identity -> Key \cup {NoKey}]]
  /\ config \in [Host -> Identity \cup {"absent", "torn"}]
  /\ daemon.host \in Host

\* A row is nobody's until a key has proven possession; that key is then registered.
RowsSettled ==
  \A t \in Token : rows[t].winner # NoKey =>
    rows[t].winner \in registered /\ rows[t].state \notin {"none", "issued"}

\* The server vouches for key k under identity i.
Vouches(i, k) ==
  k \in registered /\ (i \in Token => rows[i].state = "active" /\ rows[i].winner = k)

Owns(c) == rows[conn[c].token].winner = c

\* A connect that has been answered owns its row; one told of an activation may store.
ConnKnows(c) ==
  /\ conn[c].at \in {"complete", "recomplete", "status", "sleep"} => conn[c].token \in Token
  /\ conn[c].at \in {"complete", "recomplete"} /\ conn[c].net.code = 202 =>
       Owns(c) /\ conn[c].net.poll[1] = conn[c].token
  /\ conn[c].at \in {"status", "sleep", "recomplete"} => Owns(c)
  /\ conn[c].at \in {"status", "sleep"} => conn[c].poll[1] = conn[c].token
  /\ conn[c].at = "status" /\ conn[c].net.body = "active" =>
       conn[c].net.id = conn[c].token /\ rows[conn[c].token].state = "active"
  /\ conn[c].at = "simple" /\ conn[c].net.code = 200 => conn[c].net.id = SimpleId /\ c \in registered
  /\ conn[c].at \in {"store", "open", "write", "done"} =>
       conn[c].id \in Identity /\ Vouches(conn[c].id, c)
  /\ conn[c].at \in {"open", "write"} => keychain[conn[c].host][conn[c].id] # NoKey

\* Every stored seed is vouched for, and every config names a stored seed.
DiskKnows(h) ==
  /\ \A i \in Identity : keychain[h][i] # NoKey => Vouches(i, keychain[h][i])
  /\ config[h] \in Identity => keychain[h][config[h]] # NoKey

\* What the daemon read of a config, minutes before it reads the key and signs.
DaemonKnows ==
  /\ daemon.at \in Starting \cup {"serve"} /\ ~daemon.override =>
       daemon.agent = daemon.key /\ daemon.agent \in Identity
  /\ daemon.at = "serve" /\ ~daemon.override => Vouches(daemon.agent, daemon.signer)

PairInv ==
  PairShape /\ RowsSettled /\ (\A c \in Conn : ConnKnows(c)) /\ (\A h \in Host : DiskKnows(h)) /\ DaemonKnows

\* A step of the server forgets no owner and no activation, and every key of a row is
\* a registered one.
ServerMoves ==
  /\ registered \subseteq registered' /\ registered' \subseteq Key
  /\ DOMAIN rows' = Token
  /\ \A t \in Token : /\ RowShape(rows'[t])
                      /\ rows[t].winner # NoKey => rows'[t].winner = rows[t].winner
                      /\ rows[t].state = "active" => rows'[t].state = "active"
  /\ RowsSettled'

-----------------------------------------------------------------------------
(* The server's rows.                                                      *)

\* How one row may change: expiry, a poll token, an attempt or a confirmation.
RowMoves(r, q) ==
  /\ RowShape(q) /\ q.winner = r.winner
  /\ r.state = "active" => q.state = "active"
  /\ q.state \in {"none", "issued"} => r.state \in {"none", "issued"}

LEMMA RowHelpers ==
  ASSUME NEW r, RowShape(r)
  PROVE  /\ RowMoves(r, r) /\ RowMoves(r, Expire(r)) /\ Expire(r).state \in {r.state, "expired"}
         /\ \A q : RowMoves(r, q) =>
              /\ RowMoves(r, IncrementAttemptOrBurn(q))
              /\ \A t, exp, k : RowMoves(r, MintPollToken(t, q, exp, k))
              /\ \A p : RowMoves(r, RemovePollToken(q, p))
              /\ q.state = "pending" => RowMoves(r, ConfirmRow(q))
              /\ q.state = "issued" => RowMoves(r, [q EXCEPT !.state = "burned"])
              /\ RowMoves(r, [q EXCEPT !.polls = @ + 1])
<1>1. RowMoves(r, r) /\ RowMoves(r, Expire(r)) /\ Expire(r).state \in {r.state, "expired"}
  BY DEF RowShape, RowFields, RowMoves, Expire
<1> SUFFICES ASSUME NEW q, RowMoves(r, q)
             PROVE  /\ RowMoves(r, IncrementAttemptOrBurn(q))
                    /\ \A t, exp, k : RowMoves(r, MintPollToken(t, q, exp, k))
                    /\ \A p : RowMoves(r, RemovePollToken(q, p))
                    /\ q.state = "pending" => RowMoves(r, ConfirmRow(q))
                    /\ q.state = "issued" => RowMoves(r, [q EXCEPT !.state = "burned"])
                    /\ RowMoves(r, [q EXCEPT !.polls = @ + 1])
  BY <1>1
<1>2. RowMoves(r, IncrementAttemptOrBurn(q))
  BY DEF RowMoves, RowShape, RowFields, IncrementAttemptOrBurn
<1>3. ASSUME NEW t, NEW exp, NEW k
      PROVE  RowMoves(r, MintPollToken(t, q, exp, k))
  BY DEF RowMoves, RowShape, RowFields, MintPollToken
<1>4. ASSUME NEW p
      PROVE  RowMoves(r, RemovePollToken(q, p))
  BY DEF RowMoves, RowShape, RowFields, RemovePollToken
<1>5. q.state = "pending" => RowMoves(r, ConfirmRow(q))
  BY DEF RowMoves, RowShape, RowFields, ConfirmRow
<1>6. q.state = "issued" => RowMoves(r, [q EXCEPT !.state = "burned"])
  BY DEF RowMoves, RowShape, RowFields
<1>7. RowMoves(r, [q EXCEPT !.polls = @ + 1])
  BY DEF RowMoves, RowShape, RowFields
<1> QED
  BY <1>2, <1>3, <1>4, <1>5, <1>6, <1>7

\* Rows that move so, each on its own, settle nothing anew.
LEMMA RowsMove ==
  ASSUME PairShape, RowsSettled, DOMAIN rows' = Token, \A t \in Token : RowMoves(rows[t], rows'[t]),
         registered \subseteq registered', registered' \subseteq Key
  PROVE  ServerMoves
BY DEF ServerMoves, RowMoves, RowsSettled, RowShape

\* handleComplete: a 202 names the row's owner, and a row that is won was nobody's.
LEMMA CompleteRowFacts ==
  ASSUME NEW t, NEW k, NEW sig, RowShape(rows[t])
  PROVE  LET done == CompleteRow(t, k, sig)
         IN /\ ~done.wins => RowMoves(rows[t], done.row)
            /\ done.wins => /\ RowShape(done.row) /\ rows[t].state = "issued" /\ k # NoKey
                            /\ done.row.state = "pending" /\ done.row.winner = k
            /\ done.reply.code = 202 => done.row.winner = k /\ done.reply.poll[1] = t
<1> DEFINE r == Expire(rows[t])
<1>1. RowMoves(rows[t], r) /\ RowShape(r) /\ r.state \in {rows[t].state, "expired"}
  BY RowHelpers DEF RowMoves
<1> HIDE DEF r
<1>2. ASSUME NEW q, RowMoves(rows[t], q)
      PROVE  LET done == FailRow(q)
             IN done.row = q /\ ~done.wins /\ done.reply.code = 400
  BY DEF FailRow, FailComplete, Reply
<1>3. ASSUME NEW exp
      PROVE  LET done == IssueRow(t, r, exp, k)
             IN /\ RowMoves(rows[t], done.row) /\ ~done.wins /\ done.reply.poll[1] = t
                /\ DOMAIN done = {"row", "reply", "wins"}
  BY <1>1, RowHelpers DEF IssueRow, Completed, Reply
<1>4. CASE r.state \in {"none", "expired", "burned", "rejected"}
  <2>1. CompleteRow(t, k, sig) = FailRow(r)
    BY <1>4 DEF CompleteRow, r
  <2> QED
    BY <1>1, <1>2, <2>1
<1>5. CASE ~(r.state \in {"none", "expired", "burned", "rejected"}) /\ ~Proves(t, k, sig)
  <2>1. CompleteRow(t, k, sig) = FailRow(IncrementAttemptOrBurn(r))
    BY <1>5 DEF CompleteRow, r
  <2>2. RowMoves(rows[t], IncrementAttemptOrBurn(r))
    BY <1>1, RowHelpers
  <2> QED
    BY <1>2, <2>1, <2>2
<1>6. CASE r.state = "issued" /\ Proves(t, k, sig)
  <2>1. CompleteRow(t, k, sig) = CompleteIssued(t, r, k)
    BY <1>6 DEF CompleteRow, r
  <2>2. CASE r.attempts >= AttemptCap
    <3>1. CompleteRow(t, k, sig) = FailRow([r EXCEPT !.state = "burned"])
      BY <2>1, <2>2 DEF CompleteIssued
    <3>2. RowMoves(rows[t], [r EXCEPT !.state = "burned"])
      BY <1>1, <1>6, RowHelpers
    <3> QED
      BY <1>2, <3>1, <3>2
  <2>3. CASE ~(r.attempts >= AttemptCap)
    <3> DEFINE iss == IssueRow(t, r, r.pendingExp, k)
    <3>1. CompleteRow(t, k, sig) = [iss EXCEPT !.row.state = "pending", !.row.winner = k, !.wins = TRUE]
      BY <2>1, <2>3 DEF CompleteIssued
    <3>2. /\ RowMoves(rows[t], iss.row) /\ iss.reply.poll[1] = t
          /\ DOMAIN iss = {"row", "reply", "wins"}
      BY <1>3
    <3> HIDE DEF iss
    <3> DEFINE won == [[iss.row EXCEPT !.state = "pending"] EXCEPT !.winner = k]
               done == CompleteRow(t, k, sig)
    <3>3. done.row = won /\ done.wins = TRUE /\ done.reply = iss.reply
      BY <3>1, <3>2
    <3>4. RowShape(won) /\ won.state = "pending" /\ won.winner = k
      BY <3>2 DEF RowMoves, RowShape, RowFields
    <3>5. rows[t].state = "issued" /\ k # NoKey
      BY <1>1, <1>6 DEF Proves
    <3> HIDE DEF won, done
    <3> QED
      BY <3>2, <3>3, <3>4, <3>5 DEF done
  <2> QED
    BY <2>2, <2>3
<1>7. CASE ~(r.state \in {"none", "expired", "burned", "rejected", "issued"}) /\ Proves(t, k, sig)
  <2>1. CASE r.winner # k
    <3>1. CompleteRow(t, k, sig) = FailRow(r)
      BY <1>7, <2>1 DEF CompleteRow, r
    <3> QED
      BY <1>1, <1>2, <3>1
  <2>2. CASE r.winner = k
    <3> DEFINE exp == IF r.state = "active" THEN now + ActiveTtl ELSE r.pendingExp
    <3>1. CompleteRow(t, k, sig) = IssueRow(t, r, exp, k)
      BY <1>7, <2>2 DEF CompleteRow, r
    <3> HIDE DEF exp
    <3> QED
      BY <1>1, <1>3, <2>2, <3>1 DEF RowMoves
  <2> QED
    BY <2>1, <2>2
<1> QED
  BY <1>4, <1>5, <1>6, <1>7

LEMMA HandleCompleteMoves ==
  ASSUME PairShape, RowsSettled, NEW t \in Token, NEW k, NEW sig, NEW reply,
         HandleComplete(t, k, sig, reply), k \in Key \/ k = NoKey
  PROVE  ServerMoves /\ (reply.code = 202 => rows'[t].winner = k /\ reply.poll[1] = t)
<1> DEFINE done == CompleteRow(t, k, sig)
<1>0. /\ rows' = [rows EXCEPT ![t] = done.row] /\ reply = done.reply
      /\ registered' = IF done.wins THEN registered \cup {k} ELSE registered
      /\ RowShape(rows[t]) /\ DOMAIN rows = Token
  BY DEF HandleComplete, PairShape
<1>1. /\ ~done.wins => RowMoves(rows[t], done.row)
      /\ done.wins => /\ RowShape(done.row) /\ rows[t].state = "issued" /\ k # NoKey
                      /\ done.row.state = "pending" /\ done.row.winner = k
      /\ done.reply.code = 202 => done.row.winner = k /\ done.reply.poll[1] = t
  BY <1>0, CompleteRowFacts
<1> HIDE DEF done
<1>2. \A u \in Token \ {t} : rows'[u] = rows[u]
  BY <1>0
<1>3. rows'[t] = done.row
  BY <1>0
<1>4. CASE ~done.wins
  <2>1. \A u \in Token : RowMoves(rows[u], rows'[u])
    BY <1>1, <1>2, <1>3, <1>4, RowHelpers DEF PairShape
  <2>2. ServerMoves
    BY <1>0, <1>4, <2>1, RowsMove DEF PairShape
  <2> QED
    BY <1>0, <1>1, <1>3, <2>2
<1>5. CASE done.wins
  <2>1. registered' = registered \cup {k} /\ k \in Key
    BY <1>0, <1>1, <1>5
  <2>2. rows[t].winner = NoKey
    BY <1>1, <1>5 DEF RowsSettled
  <2>3. RowsSettled'
    BY <1>1, <1>2, <1>3, <1>5, <2>1 DEF RowsSettled
  <2>4. ServerMoves
    BY <1>0, <1>1, <1>2, <1>3, <1>5, <2>1, <2>2, <2>3 DEF ServerMoves, PairShape
  <2> QED
    BY <1>0, <1>1, <1>3, <2>4
<1> QED
  BY <1>4, <1>5

LEMMA PolledMoves ==
  ASSUME NEW t \in Token, RowShape(rows[t]), NEW r, RowMoves(rows[t], r), NEW force \in BOOLEAN, NEW reply,
         DOMAIN rows = Token, Polled(t, r, force, reply)
  PROVE  /\ rows' = [rows EXCEPT ![t] = rows'[t]] /\ RowMoves(rows[t], rows'[t])
         /\ reply.body = "active" => reply.id = t /\ rows'[t].state = "active"
<1> DEFINE zero == opts.confirmAfter = 0 /\ Confirms(r)
           r1 == IF zero THEN ConfirmRow(r) ELSE r
           counts == r1.state = "pending" /\ opts.confirmAfter # NoAuto
           r2 == IF counts THEN [r1 EXCEPT !.polls = @ + 1] ELSE r1
           late == counts /\ Confirms(r2) /\ r2.polls >= opts.confirmAfter
<1>1. RowMoves(rows[t], r1)
  BY RowHelpers DEF Confirms
<1>2. /\ reply = IF force THEN NotFound ELSE StatusBody(t, r1)
      /\ rows' = [rows EXCEPT ![t] = IF force THEN r1 ELSE IF late THEN ConfirmRow(r2) ELSE r2]
  BY DEF Polled
<1> HIDE DEF r1
<1>3. RowMoves(rows[t], r2) /\ (r1.state = "active" => r2 = r1 /\ ~counts)
  BY <1>1, RowHelpers
<1> HIDE DEF r2
<1>4. Confirms(r2) => RowMoves(rows[t], ConfirmRow(r2))
  BY <1>3, RowHelpers DEF Confirms
<1>5. reply.body = "active" => ~force /\ r1.state = "active" /\ reply.id = t
  BY <1>2 DEF StatusBody, NotFound, Reply
<1> QED
  BY <1>1, <1>2, <1>3, <1>4, <1>5

\* handleStatus: an activation is told of an active row, by its own identity.
LEMMA HandleStatusMoves ==
  ASSUME PairShape, RowsSettled, NEW p, p[1] \in Token, NEW reply, HandleStatus(p, reply)
  PROVE  /\ ServerMoves
         /\ reply.body = "active" => reply.id = p[1] /\ rows'[p[1]].state = "active"
<1> DEFINE t == p[1]
           e == Expire(rows[t])
<1>0. t \in Token /\ RowShape(rows[t]) /\ DOMAIN rows = Token /\ registered' = registered
  BY DEF PairShape, HandleStatus
<1>1. /\ RowMoves(rows[t], rows[t]) /\ RowMoves(rows[t], e)
      /\ RowMoves(rows[t], RemovePollToken(rows[t], p)) /\ RowMoves(rows[t], RemovePollToken(e, p))
  BY <1>0, RowHelpers
<1>2. \/ rows' = [rows EXCEPT ![t] = RemovePollToken(rows[t], p)] /\ reply = NotFound
      \/ rows' = [rows EXCEPT ![t] = e] /\ reply = NotFound
      \/ Polled(t, RemovePollToken(e, p), TRUE, reply)
      \/ Polled(t, e, FALSE, reply)
  BY DEF HandleStatus
<1> HIDE DEF t, e
<1>3. /\ rows' = [rows EXCEPT ![t] = rows'[t]] /\ RowMoves(rows[t], rows'[t])
      /\ reply.body = "active" => reply.id = t /\ rows'[t].state = "active"
  <2>1. CASE rows' = [rows EXCEPT ![t] = RemovePollToken(rows[t], p)] /\ reply = NotFound
    BY <1>0, <1>1, <2>1 DEF NotFound, Reply
  <2>2. CASE rows' = [rows EXCEPT ![t] = e] /\ reply = NotFound
    BY <1>0, <1>1, <2>2 DEF NotFound, Reply
  <2>3. CASE Polled(t, RemovePollToken(e, p), TRUE, reply)
    BY <1>0, <1>1, <2>3, PolledMoves
  <2>4. CASE Polled(t, e, FALSE, reply)
    BY <1>0, <1>1, <2>4, PolledMoves
  <2> QED
    BY <1>2, <2>1, <2>2, <2>3, <2>4
<1>4. DOMAIN rows' = Token /\ \A u \in Token : RowMoves(rows[u], rows'[u])
  BY <1>0, <1>3, RowHelpers DEF PairShape
<1>5. ServerMoves
  BY <1>0, <1>4, RowsMove DEF PairShape
<1> QED
  BY <1>3, <1>5 DEF t

\* firstPendingRow, confirm and reject: only a pending row is decided on.
LEMMA DecisionMoves ==
  ASSUME PairShape, RowsSettled, NEW i \in 1 .. Len(minted), Confirm(i) \/ Reject(i)
  PROVE  ServerMoves
<1> DEFINE t == minted[i]
<1>0. t \in Token /\ DOMAIN rows = Token /\ registered' = registered /\ i \in 1 .. i
  BY DEF PairShape, Confirm, Reject
<1>1. /\ DOMAIN Passed(i) = Token
      /\ \A u \in Token : RowMoves(rows[u], Passed(i)[u])
      /\ Passed(i)[t].state = "pending"
  BY <1>0, RowHelpers DEF Passed, Found, Confirm, Reject, PairShape
<1>2. rows' = [Passed(i) EXCEPT ![t] = ConfirmRow(Passed(i)[t])]
      \/ rows' = [Passed(i) EXCEPT ![t] = [Passed(i)[t] EXCEPT !.state = "rejected"]]
  BY DEF Confirm, Reject
<1>3. RowMoves(rows[t], ConfirmRow(Passed(i)[t]))
  BY <1>0, <1>1, RowHelpers DEF PairShape
<1>4. RowMoves(rows[t], [Passed(i)[t] EXCEPT !.state = "rejected"])
  BY <1>0, <1>1 DEF RowMoves, RowShape, RowFields
<1> HIDE DEF t
<1>5. DOMAIN rows' = Token /\ \A u \in Token : RowMoves(rows[u], rows'[u])
  BY <1>0, <1>1, <1>2, <1>3, <1>4
<1> QED
  BY <1>0, <1>5, RowsMove DEF PairShape

LEMMA OperatorMoves ==
  ASSUME PairShape, RowsSettled, Operator
  PROVE  ServerMoves
<1>0. \A u \in Token : RowMoves(rows[u], rows[u])
  BY RowHelpers DEF PairShape
<1>1. CASE Tick \/ \E d \in Code : MintSimpleDeviceCode(d)
  BY <1>0, <1>1, RowsMove DEF Tick, MintSimpleDeviceCode, PairShape
<1>2. ASSUME NEW t \in Token, Mint(t)
      PROVE  ServerMoves
  <2> DEFINE row == [NoRow EXCEPT !.state = "issued", !.tokenExp = now + TokenTtl, !.pendingExp = now + PendingTtl]
  <2>1. RowShape(row) /\ row.state = "issued" /\ row.winner = NoKey
    BY DEF NoRow, RowShape, RowFields
  <2>2. rows' = [rows EXCEPT ![t] = row] /\ registered' = registered /\ rows[t].state = "none"
    BY <1>2 DEF Mint
  <2> HIDE DEF row
  <2>3. RowMoves(rows[t], row)
    BY <2>1, <2>2 DEF RowMoves, RowsSettled
  <2>4. DOMAIN rows' = Token /\ \A u \in Token : RowMoves(rows[u], rows'[u])
    BY <1>0, <2>2, <2>3 DEF PairShape
  <2> QED
    BY <2>2, <2>4, RowsMove DEF PairShape
<1> QED
  BY <1>1, <1>2, DecisionMoves DEF Operator

\* handleSimpleComplete touches no row; a request that changes nothing moves nothing.
LEMMA RowsAlone ==
  ASSUME PairShape, RowsSettled, UNCHANGED rows, registered \subseteq registered', registered' \subseteq Key
  PROVE  ServerMoves
BY RowHelpers, RowsMove DEF PairShape

-----------------------------------------------------------------------------
(* What the connects, the hosts and the daemon know outlives the server's  *)
(* steps.                                                                  *)

LEMMA ConnKeys == \A c \in Conn : c \in Key /\ c # NoKey
BY KeyIsConn, NameAssumption

LEMMA VouchesStay ==
  ASSUME ServerMoves, NEW i, NEW k \in Key, Vouches(i, k)
  PROVE  Vouches(i, k)'
BY NameAssumption DEF ServerMoves, Vouches

\* No seed is ever deleted.
SeedsStay == \A h \in Host, i \in Identity : keychain[h][i] # NoKey => keychain'[h][i] # NoKey

\* A connect that does not move.
LEMMA ConnStays ==
  ASSUME PairShape, NEW c \in Conn, ConnKnows(c), ServerMoves, SeedsStay, conn'[c] = conn[c]
  PROVE  ConnKnows(c)'
<1>1. c \in Key /\ c # NoKey /\ conn[c].host \in Host
  BY ConnKeys DEF PairShape
<1>2. conn[c].token \in Token /\ Owns(c) => Owns(c)'
  BY <1>1 DEF Owns, ServerMoves
<1>3. conn[c].token \in Token /\ rows[conn[c].token].state = "active" => rows'[conn[c].token].state = "active"
  BY DEF ServerMoves
<1>4. Vouches(conn[c].id, c) => Vouches(conn[c].id, c)'
  BY <1>1, VouchesStay
<1>5. c \in registered => c \in registered'
  BY DEF ServerMoves
<1>6. conn[c].id \in Identity /\ keychain[conn[c].host][conn[c].id] # NoKey =>
        keychain'[conn[c].host][conn[c].id] # NoKey
  BY <1>1 DEF SeedsStay
<1> QED
  BY <1>2, <1>3, <1>4, <1>5, <1>6 DEF ConnKnows, Owns

LEMMA DiskStays ==
  ASSUME PairShape, NEW h \in Host, DiskKnows(h), ServerMoves, UNCHANGED disk
  PROVE  DiskKnows(h)'
<1>1. ASSUME NEW i \in Identity, keychain[h][i] # NoKey
      PROVE  Vouches(i, keychain[h][i])'
  <2>1. keychain[h][i] \in Key /\ Vouches(i, keychain[h][i])
    BY <1>1 DEF PairShape, DiskKnows
  <2>2. \A k \in Key : Vouches(i, k) => Vouches(i, k)'
    BY VouchesStay
  <2>3. keychain' = keychain
    BY DEF disk
  <2> QED
    BY <2>1, <2>2, <2>3 DEF Vouches
<1> QED
  BY <1>1 DEF DiskKnows, disk

LEMMA DaemonStays ==
  ASSUME PairShape, DaemonKnows, ServerMoves, UNCHANGED daemon
  PROVE  DaemonKnows'
<1>1. daemon.signer \in Key /\ Vouches(daemon.agent, daemon.signer) => Vouches(daemon.agent, daemon.signer)'
  BY VouchesStay
<1>2. Vouches(daemon.agent, daemon.signer) => daemon.signer \in Key
  BY DEF Vouches, PairShape
<1> QED
  BY <1>1, <1>2 DEF DaemonKnows, Vouches

\* One connect moves, over what the server does in the same step.
ConnMoves(c) ==
  /\ DOMAIN conn' = Conn /\ \A d \in Conn \ {c} : conn'[d] = conn[d]
  /\ DOMAIN conn'[c] = ConnFields /\ conn'[c].host = conn[c].host

LEMMA ConnStep ==
  ASSUME PairInv, ServerMoves, NEW c \in Conn, ConnMoves(c), ConnKnows(c)', UNCHANGED <<disk, daemon>>,
         minted' \in Seq(Token)
  PROVE  PairInv'
<1>1. PairShape'
  BY DEF PairInv, PairShape, ServerMoves, ConnMoves, disk
<1>2. SeedsStay
  BY DEF SeedsStay, disk
<1>3. \A d \in Conn : ConnKnows(d)'
  BY <1>2, ConnStays DEF PairInv, ConnMoves
<1>4. \A h \in Host : DiskKnows(h)'
  BY DiskStays DEF PairInv
<1>5. DaemonKnows'
  BY DaemonStays DEF PairInv
<1>6. RowsSettled'
  BY DEF ServerMoves
<1> QED
  BY <1>1, <1>3, <1>4, <1>5, <1>6 DEF PairInv

\* The end of a connect: it keeps what it did.
LEMMA EndFacts ==
  ASSUME PairShape, NEW c \in Conn, NEW how, End(c, how)
  PROVE  ConnMoves(c) /\ conn'[c].at = how /\ (how = "done" => conn'[c].id = conn[c].id)
<1>1. DOMAIN conn' = Conn /\ \A d \in Conn \ {c} : conn'[d] = conn[d]
  BY DEF End, PairShape
<1>2. DOMAIN conn'[c] = ConnFields /\ conn'[c].host = conn[c].host /\ conn'[c].at = how
  BY DEF End, PairShape, ConnFields
<1>3. how = "done" => conn'[c].id = conn[c].id
  BY DEF End, PairShape, ConnFields
<1> QED
  BY <1>1, <1>2, <1>3 DEF ConnMoves

LEMMA FailureStep ==
  ASSUME PairInv, NEW c \in Conn, End(c, "failed"), UNCHANGED <<server, disk, daemon>>
  PROVE  PairInv'
<1>1. ServerMoves
  BY RowsAlone DEF server, PairInv, PairShape
<1>2. ConnMoves(c) /\ conn'[c].at = "failed"
  BY EndFacts DEF PairInv
<1>3. ConnKnows(c)'
  BY <1>2 DEF ConnKnows
<1>4. minted' \in Seq(Token)
  BY DEF server, PairInv, PairShape
<1> QED
  BY <1>1, <1>2, <1>3, <1>4, ConnStep

-----------------------------------------------------------------------------
(* The steps of a connect.                                                 *)

LEMMA AwaitFacts ==
  ASSUME PairShape, NEW c \in Conn, NEW where, Await(c, where)
  PROVE  /\ ConnMoves(c) /\ conn'[c].at = where /\ conn'[c].net.code = 0 /\ conn'[c].net.body = "sent"
         /\ conn'[c].token = conn[c].token /\ conn'[c].poll = conn[c].poll
BY DEF Await, Sent, Reply, ConnMoves, PairShape, ConnFields

LEMMA ReplyFacts ==
  ASSUME PairShape, NEW c \in Conn, NEW reply, conn' = [conn EXCEPT ![c].net = reply]
  PROVE  /\ ConnMoves(c) /\ conn'[c].at = conn[c].at /\ conn'[c].net = reply
         /\ conn'[c].token = conn[c].token /\ conn'[c].poll = conn[c].poll
BY DEF ConnMoves, PairShape, ConnFields

LEMMA PollingFacts ==
  ASSUME PairShape, NEW c \in Conn, NEW poll, NEW recovered, NEW deadline,
         Polling(c, poll, recovered, deadline)
  PROVE  /\ ConnMoves(c)
         /\ \/ conn'[c].at = "failed"
            \/ /\ conn'[c].at = "status" /\ conn'[c].net.body = "sent" /\ conn'[c].poll = poll
               /\ conn'[c].token = conn[c].token
<1>1. CASE now < deadline
  <2> DEFINE m == [conn[c] EXCEPT !.at = "status", !.net = Sent, !.poll = poll,
                                  !.recovered = recovered, !.deadline = deadline]
  <2>1. /\ DOMAIN m = ConnFields /\ m.host = conn[c].host /\ m.at = "status" /\ m.net.body = "sent"
        /\ m.poll = poll /\ m.token = conn[c].token
    BY DEF PairShape, ConnFields, Sent, Reply
  <2>2. conn' = [conn EXCEPT ![c] = m]
    BY <1>1 DEF Polling
  <2> HIDE DEF m
  <2> QED
    BY <2>1, <2>2 DEF ConnMoves, PairShape
<1>2. CASE ~(now < deadline)
  BY <1>2, EndFacts DEF Polling
<1> QED
  BY <1>1, <1>2

\* An activation lets the connect store what the server vouches for.
LEMMA StoreFacts ==
  ASSUME PairShape, NEW c \in Conn, NEW id,
         conn' = [conn EXCEPT ![c].at = "store", ![c].net = NoReply, ![c].id = id]
  PROVE  ConnMoves(c) /\ conn'[c].at = "store" /\ conn'[c].id = id
BY DEF ConnMoves, PairShape, ConnFields

LEMMA OwnerVouched ==
  ASSUME RowsSettled, NEW c \in Conn, NEW t \in Token, rows[t].winner = c, rows[t].state = "active"
  PROVE  Vouches(t, c) /\ t \in Identity
BY ConnKeys DEF RowsSettled, Vouches, Identity

LEMMA ServeStep ==
  ASSUME PairInv, NEW c \in Conn, Serve(c), UNCHANGED <<daemon>>
  PROVE  PairInv'
<1>0. /\ PairShape /\ RowsSettled /\ ConnKnows(c) /\ c \in Key /\ c # NoKey /\ UNCHANGED <<disk, daemon>>
      /\ minted \in Seq(Token)
  BY ConnKeys DEF PairInv, PairShape, Serve, ServeComplete, ServeStatus, ServeProbe, ServeSimple
<1>1. CASE ServeComplete(c)
  <2>1. PICK reply : /\ \/ HandleComplete(conn[c].token, c, PopSignature(c), reply)
                        \/ HandleForeignComplete(reply)
                     /\ conn' = [conn EXCEPT ![c].net = reply]
    BY <1>1 DEF ServeComplete
  <2>2. conn[c].token \in Token /\ conn[c].at \in {"complete", "recomplete"}
    BY <1>0, <1>1 DEF ServeComplete, ConnKnows
  <2>3. ServerMoves /\ (reply.code = 202 =>
          rows'[conn[c].token].winner = c /\ reply.poll[1] = conn[c].token) /\ minted' \in Seq(Token)
    <3>1. CASE HandleComplete(conn[c].token, c, PopSignature(c), reply)
      <4>1. minted' = minted
        BY <3>1 DEF HandleComplete
      <4> QED
        BY <1>0, <2>2, <3>1, <4>1, HandleCompleteMoves
    <3>2. CASE HandleForeignComplete(reply)
      BY <1>0, <3>2, RowsAlone DEF HandleForeignComplete, server, FailComplete, Reply, PairShape
    <3> QED
      BY <2>1, <3>1, <3>2
  <2>4. /\ ConnMoves(c) /\ conn'[c].at = conn[c].at /\ conn'[c].net = reply
        /\ conn'[c].token = conn[c].token
    BY <1>0, <2>1, ReplyFacts
  <2>5. conn[c].at = "recomplete" => rows'[conn[c].token].winner = c
    BY <1>0, <2>2, <2>3 DEF ConnKnows, Owns, ServerMoves
  <2>6. ConnKnows(c)'
    BY <2>2, <2>3, <2>4, <2>5 DEF ConnKnows, Owns
  <2> QED
    BY <1>0, <2>3, <2>4, <2>6, ConnStep
<1>2. CASE ServeStatus(c)
  <2>1. PICK reply : HandleStatus(conn[c].poll, reply) /\ conn' = [conn EXCEPT ![c].net = reply]
    BY <1>2 DEF ServeStatus
  <2>2. /\ conn[c].token \in Token /\ conn[c].at = "status" /\ conn[c].poll[1] = conn[c].token
        /\ rows[conn[c].token].winner = c
    BY <1>0, <1>2 DEF ServeStatus, ConnKnows, Owns
  <2>3. /\ ServerMoves
        /\ reply.body = "active" => reply.id = conn[c].token /\ rows'[conn[c].token].state = "active"
    BY <1>0, <2>1, <2>2, HandleStatusMoves
  <2>4. /\ ConnMoves(c) /\ conn'[c].at = conn[c].at /\ conn'[c].net = reply
        /\ conn'[c].token = conn[c].token /\ conn'[c].poll = conn[c].poll
    BY <1>0, <2>1, ReplyFacts
  <2>5. rows'[conn[c].token].winner = c
    BY <1>0, <2>2, <2>3 DEF ServerMoves
  <2>6. ConnKnows(c)'
    BY <2>2, <2>3, <2>4, <2>5 DEF ConnKnows, Owns
  <2>7. minted' \in Seq(Token)
    BY <1>0, <2>1 DEF HandleStatus
  <2> QED
    BY <1>0, <2>3, <2>4, <2>6, <2>7, ConnStep
<1>3. CASE ServeProbe(c)
  <2>1. PICK reply : Capability(reply) /\ conn' = [conn EXCEPT ![c].net = reply]
    BY <1>3 DEF ServeProbe
  <2>2. ServerMoves /\ minted' \in Seq(Token)
    BY <1>0, <2>1, RowsAlone DEF Capability, server, PairShape
  <2>3. ConnMoves(c) /\ conn'[c].at = "probe"
    BY <1>0, <1>3, <2>1, ReplyFacts DEF ServeProbe
  <2>4. ConnKnows(c)'
    BY <2>3 DEF ConnKnows
  <2> QED
    BY <1>0, <2>2, <2>3, <2>4, ConnStep
<1>4. CASE ServeSimple(c)
  <2>1. PICK reply : /\ HandleSimpleComplete(conn[c].token, c, reply)
                     /\ conn' = [conn EXCEPT ![c].net = reply]
    BY <1>4 DEF ServeSimple
  <2>2. ServerMoves /\ minted' \in Seq(Token)
    BY <1>0, <2>1, RowsAlone DEF HandleSimpleComplete, PairShape
  <2>3. ConnMoves(c) /\ conn'[c].at = "simple" /\ conn'[c].net = reply
    BY <1>0, <1>4, <2>1, ReplyFacts DEF ServeSimple
  <2>4. reply.code = 200 => reply.id = SimpleId /\ c \in registered'
    BY <2>1 DEF HandleSimpleComplete, FailComplete, Reply
  <2>5. ConnKnows(c)'
    BY <2>3, <2>4 DEF ConnKnows
  <2> QED
    BY <1>0, <2>2, <2>3, <2>5, ConnStep
<1> QED
  BY <1>1, <1>2, <1>3, <1>4 DEF Serve

\* A step of the process that only learns: the server, the disk and the daemon stay.
LEMMA QuietStep ==
  ASSUME PairInv, NEW c \in Conn, ConnMoves(c), ConnKnows(c)', UNCHANGED <<server, disk, daemon>>
  PROVE  PairInv'
<1>1. ServerMoves /\ minted' \in Seq(Token)
  BY RowsAlone DEF server, PairInv, PairShape
<1> QED
  BY <1>1, ConnStep

LEMMA StartingStep ==
  ASSUME PairInv, NEW c \in Conn, UNCHANGED daemon,
         (\E t \in Token : StartConnect(c, t)) \/ (\E d \in Code \cup Token : StartSimple(c, d))
  PROVE  PairInv'
<1>0. UNCHANGED <<server, disk, daemon>> /\ PairShape
  BY DEF StartConnect, StartSimple, PairInv
<1>1. CASE End(c, "failed")
  BY <1>0, <1>1, FailureStep
<1>2. ASSUME NEW t \in Token,
             conn' = [conn EXCEPT ![c].at = "complete", ![c].net = Sent, ![c].token = t]
      PROVE  PairInv'
  <2>1. ConnMoves(c) /\ conn'[c].at = "complete" /\ conn'[c].token \in Token /\ conn'[c].net.code = 0
    BY <1>0, <1>2 DEF ConnMoves, PairShape, ConnFields, Sent, Reply
  <2>2. ConnKnows(c)'
    BY <2>1 DEF ConnKnows
  <2> QED
    BY <1>0, <2>1, <2>2, QuietStep
<1>3. ASSUME NEW d \in Code \cup Token,
             conn' = [conn EXCEPT ![c].at = "probe", ![c].net = Sent, ![c].token = d]
      PROVE  PairInv'
  <2>1. ConnMoves(c) /\ conn'[c].at = "probe"
    BY <1>0, <1>3 DEF ConnMoves, PairShape, ConnFields
  <2>2. ConnKnows(c)'
    BY <2>1 DEF ConnKnows
  <2> QED
    BY <1>0, <2>1, <2>2, QuietStep
<1> QED
  BY <1>1, <1>2, <1>3 DEF StartConnect, StartSimple

\* What a reply lets a connect do: poll, recover, sleep or store.
LEMMA ReturnStep ==
  ASSUME PairInv, NEW c \in Conn, UNCHANGED daemon,
         CompleteReturns(c) \/ StatusReturns(c) \/ Wake(c) \/ ProbeReturns(c) \/ SimpleReturns(c)
  PROVE  PairInv'
<1>0. UNCHANGED <<server, disk, daemon>> /\ PairShape /\ RowsSettled /\ ConnKnows(c)
  BY DEF CompleteReturns, StatusReturns, Wake, ProbeReturns, SimpleReturns, PairInv
<1>1. CASE End(c, "failed")
  BY <1>0, <1>1, FailureStep
<1>2. UNCHANGED rows /\ UNCHANGED registered
  BY <1>0 DEF server
<1>3. ASSUME NEW poll, NEW recovered, NEW deadline, Polling(c, poll, recovered, deadline),
             conn[c].token \in Token, Owns(c), poll[1] = conn[c].token
      PROVE  PairInv'
  <2>1. /\ ConnMoves(c)
        /\ \/ conn'[c].at = "failed"
           \/ /\ conn'[c].at = "status" /\ conn'[c].net.body = "sent" /\ conn'[c].poll = poll
              /\ conn'[c].token = conn[c].token
    BY <1>0, <1>3, PollingFacts
  <2>2. ConnKnows(c)'
    BY <1>2, <1>3, <2>1 DEF ConnKnows, Owns
  <2> QED
    BY <1>0, <2>1, <2>2, QuietStep
<1>4. CASE CompleteReturns(c)
  <2> DEFINE p == conn[c].net.poll
             end == Deadline
             no == FALSE
             yes == TRUE
  <2>1. conn[c].net.code = 202 => conn[c].token \in Token /\ Owns(c) /\ p[1] = conn[c].token
    BY <1>0, <1>4 DEF CompleteReturns, ConnKnows
  <2>2. \/ End(c, "failed")
        \/ /\ conn[c].net.code = 202
           /\ Polling(c, p, no, end) \/ Polling(c, p, yes, conn[c].deadline)
    BY <1>4 DEF CompleteReturns, CompleteAccepted
  <2> HIDE DEF p, end, no, yes
  <2> QED
    BY <1>1, <1>3, <2>1, <2>2
<1>5. CASE Wake(c)
  <2>1. conn[c].token \in Token /\ Owns(c) /\ conn[c].poll[1] = conn[c].token
    BY <1>0, <1>5 DEF Wake, ConnKnows
  <2> QED
    BY <1>3, <1>5, <2>1 DEF Wake
<1>6. CASE StatusReturns(c)
  <2>1. conn[c].token \in Token /\ Owns(c) /\ conn[c].poll[1] = conn[c].token
    BY <1>0, <1>6 DEF StatusReturns, ConnKnows
  <2>2. CASE Await(c, "recomplete")
    <3>1. ConnMoves(c) /\ conn'[c].at = "recomplete" /\ conn'[c].net.code = 0 /\ conn'[c].token = conn[c].token
      BY <1>0, <2>2, AwaitFacts
    <3>2. ConnKnows(c)'
      BY <1>2, <2>1, <3>1 DEF ConnKnows, Owns
    <3> QED
      BY <1>0, <3>1, <3>2, QuietStep
  <2>3. CASE conn' = [conn EXCEPT ![c].at = "sleep", ![c].net = NoReply]
    <3>1. /\ ConnMoves(c) /\ conn'[c].at = "sleep" /\ conn'[c].token = conn[c].token
          /\ conn'[c].poll = conn[c].poll
      BY <1>0, <2>3 DEF ConnMoves, PairShape, ConnFields
    <3>2. ConnKnows(c)'
      BY <1>2, <2>1, <3>1 DEF ConnKnows, Owns
    <3> QED
      BY <1>0, <3>1, <3>2, QuietStep
  <2>4. CASE /\ conn[c].net.body = "active"
             /\ conn' = [conn EXCEPT ![c].at = "store", ![c].net = NoReply, ![c].id = conn[c].net.id]
    <3>1. conn[c].net.id = conn[c].token /\ rows[conn[c].token].state = "active"
      BY <1>0, <1>6, <2>4 DEF StatusReturns, ConnKnows
    <3>2. Vouches(conn[c].token, c) /\ conn[c].token \in Identity
      BY <1>0, <2>1, <3>1, OwnerVouched DEF Owns
    <3>3. ConnMoves(c) /\ conn'[c].at = "store" /\ conn'[c].id = conn[c].token
      BY <1>0, <2>4, <3>1, StoreFacts
    <3>4. ConnKnows(c)'
      BY <1>2, <3>2, <3>3 DEF ConnKnows, Vouches
    <3> QED
      BY <1>0, <3>3, <3>4, QuietStep
  <2> QED
    BY <1>1, <1>6, <2>2, <2>3, <2>4 DEF StatusReturns
<1>7. CASE ProbeReturns(c)
  <2>1. CASE Await(c, "simple")
    <3>1. ConnMoves(c) /\ conn'[c].at = "simple" /\ conn'[c].net.code = 0
      BY <1>0, <2>1, AwaitFacts
    <3>2. ConnKnows(c)'
      BY <3>1 DEF ConnKnows
    <3> QED
      BY <1>0, <3>1, <3>2, QuietStep
  <2> QED
    BY <1>1, <1>7, <2>1 DEF ProbeReturns
<1>8. CASE SimpleReturns(c)
  <2>1. CASE /\ conn[c].net.code = 200
             /\ conn' = [conn EXCEPT ![c].at = "store", ![c].net = NoReply, ![c].id = conn[c].net.id]
    <3>1. conn[c].net.id = SimpleId /\ c \in registered
      BY <1>0, <1>8, <2>1 DEF SimpleReturns, ConnKnows
    <3>2. Vouches(SimpleId, c) /\ SimpleId \in Identity
      BY <3>1, NameAssumption DEF Vouches, Identity
    <3> DEFINE i == conn[c].net.id
    <3>0. conn' = [conn EXCEPT ![c].at = "store", ![c].net = NoReply, ![c].id = i]
      BY <2>1
    <3> HIDE DEF i
    <3>3. ConnMoves(c) /\ conn'[c].at = "store" /\ conn'[c].id = i
      BY <1>0, <3>0, StoreFacts
    <3>4. ConnKnows(c)'
      BY <1>2, <3>1, <3>2, <3>3 DEF ConnKnows, Vouches, i
    <3> QED
      BY <1>0, <3>3, <3>4, QuietStep
  <2> QED
    BY <1>1, <1>8, <2>1 DEF SimpleReturns
<1> QED
  BY <1>4, <1>5, <1>6, <1>7, <1>8

-----------------------------------------------------------------------------
(* The disk: the seed first, then the config.                              *)

LEMMA DiskStep ==
  ASSUME PairInv, NEW c \in Conn, ConnMoves(c), ConnKnows(c)', UNCHANGED <<server, daemon>>,
         SeedsStay, \A h \in Host : DiskKnows(h)',
         keychain' \in [Host -> [Identity -> Key \cup {NoKey}]],
         config' \in [Host -> Identity \cup {"absent", "torn"}]
  PROVE  PairInv'
<1>1. ServerMoves
  BY RowsAlone DEF server, PairInv, PairShape
<1>2. PairShape'
  BY <1>1 DEF PairInv, PairShape, ServerMoves, ConnMoves, server
<1>3. \A d \in Conn : ConnKnows(d)'
  BY <1>1, ConnStays DEF PairInv, ConnMoves
<1>4. DaemonKnows' /\ RowsSettled'
  BY <1>1, DaemonStays DEF PairInv, ServerMoves
<1> QED
  BY <1>2, <1>3, <1>4 DEF PairInv

LEMMA StoreStep ==
  ASSUME PairInv, NEW c \in Conn, UNCHANGED daemon, StoreSeed(c)
  PROVE  PairInv'
<1> DEFINE h == conn[c].host
           i == conn[c].id
<1>0. /\ PairShape /\ h \in Host /\ i \in Identity /\ Vouches(i, c) /\ c \in Key /\ c # NoKey
      /\ \A g \in Host : DiskKnows(g)
  BY ConnKeys DEF PairInv, PairShape, StoreSeed, ConnKnows
<1>1. CASE End(c, "failed") /\ UNCHANGED keychain
  BY <1>1, FailureStep DEF StoreSeed, disk
<1>2. CASE /\ keychain' = [keychain EXCEPT ![conn[c].host][conn[c].id] = c]
           /\ conn' = [conn EXCEPT ![c].at = "open"]
  <2>1. ConnMoves(c) /\ conn'[c].at = "open" /\ conn'[c].id = i /\ conn'[c].host = h
    BY <1>0, <1>2 DEF ConnMoves, PairShape, ConnFields
  <2>2. keychain' = [keychain EXCEPT ![h][i] = c] /\ UNCHANGED <<server, config>>
    BY <1>2 DEF StoreSeed
  <2>3. UNCHANGED rows /\ UNCHANGED registered
    BY <2>2 DEF server
  <2> HIDE DEF h, i
  <2>4. /\ keychain' \in [Host -> [Identity -> Key \cup {NoKey}]]
        /\ keychain'[h][i] = c
        /\ \A g \in Host, j \in Identity : (g # h \/ j # i) => keychain'[g][j] = keychain[g][j]
    BY <1>0, <2>2 DEF PairShape
  <2>5. SeedsStay
    BY <1>0, <2>4 DEF SeedsStay
  <2>6. ASSUME NEW g \in Host
        PROVE  DiskKnows(g)'
    <3>1. \A j \in Identity : keychain'[g][j] # NoKey => Vouches(j, keychain'[g][j])
      BY <1>0, <2>4 DEF DiskKnows
    <3>2. \A j \in Identity : (keychain[g][j] # NoKey => Vouches(j, keychain[g][j]))'
      BY <3>1, <2>3 DEF Vouches
    <3>3. config'[g] \in Identity => keychain'[g][config'[g]] # NoKey
      BY <1>0, <2>2, <2>5 DEF DiskKnows, SeedsStay
    <3> QED
      BY <3>2, <3>3 DEF DiskKnows
  <2>7. ConnKnows(c)'
    BY <1>0, <2>1, <2>3, <2>4 DEF ConnKnows, Vouches
  <2>8. config' \in [Host -> Identity \cup {"absent", "torn"}]
    BY <1>0, <2>2 DEF PairShape
  <2> QED
    BY <2>1, <2>2, <2>4, <2>5, <2>6, <2>7, <2>8, DiskStep
<1> QED
  BY <1>1, <1>2 DEF StoreSeed

\* One config file changes, to a text that names no identity or one with a seed.
LEMMA ConfigStep ==
  ASSUME PairInv, NEW c \in Conn, ConnMoves(c), ConnKnows(c)', UNCHANGED <<server, keychain, daemon>>,
         NEW text \in Identity \cup {"torn"}, config' = [config EXCEPT ![conn[c].host] = text],
         text \in Identity => keychain[conn[c].host][text] # NoKey
  PROVE  PairInv'
<1>1. conn[c].host \in Host /\ PairShape /\ \A g \in Host : DiskKnows(g)
  BY DEF PairInv, PairShape
<1>2. SeedsStay
  BY DEF SeedsStay
<1>3. UNCHANGED rows /\ UNCHANGED registered
  BY DEF server
<1>4. /\ config' \in [Host -> Identity \cup {"absent", "torn"}]
      /\ keychain' \in [Host -> [Identity -> Key \cup {NoKey}]]
  BY <1>1 DEF PairShape
<1>5. ASSUME NEW g \in Host
      PROVE  DiskKnows(g)'
  <2>1. config'[g] = config[g] \/ (g = conn[c].host /\ config'[g] = text)
    BY <1>1 DEF PairShape
  <2>2. \A i \in Identity : keychain[g][i] # NoKey => Vouches(i, keychain[g][i])'
    BY <1>1, <1>3 DEF DiskKnows, Vouches
  <2> QED
    BY <1>1, <2>1, <2>2 DEF DiskKnows, Vouches
<1> QED
  BY <1>2, <1>4, <1>5, DiskStep

LEMMA WriterStep ==
  ASSUME PairInv, NEW c \in Conn, UNCHANGED daemon, OpenConfig(c) \/ WriteConfig(c)
  PROVE  PairInv'
<1>0. /\ PairShape /\ conn[c].id \in Identity /\ Vouches(conn[c].id, c)
      /\ keychain[conn[c].host][conn[c].id] # NoKey /\ "torn" \notin Identity
      /\ UNCHANGED <<server, keychain, daemon>>
  BY ConfigAssumption DEF PairInv, OpenConfig, WriteConfig, ConnKnows
<1>1. UNCHANGED rows /\ UNCHANGED registered
  BY <1>0 DEF server
<1>2. CASE OpenConfig(c)
  <2>1. /\ ConnMoves(c) /\ conn'[c].at = "write" /\ conn'[c].id = conn[c].id
    BY <1>0, <1>2 DEF OpenConfig, ConnMoves, PairShape, ConnFields
  <2>2. ConnKnows(c)'
    BY <1>0, <1>1, <2>1 DEF ConnKnows, Vouches, ConnMoves
  <2>3. config' = [config EXCEPT ![conn[c].host] = "torn"]
    BY <1>2 DEF OpenConfig
  <2> QED
    BY <1>0, <2>1, <2>2, <2>3, ConfigStep
<1>3. CASE WriteConfig(c)
  <2>1. /\ ConnMoves(c) /\ conn'[c].at = "done" /\ conn'[c].id = conn[c].id
    BY <1>0, <1>3, EndFacts DEF WriteConfig
  <2>2. ConnKnows(c)'
    BY <1>0, <1>1, <2>1 DEF ConnKnows, Vouches
  <2>3. \/ config' = [config EXCEPT ![conn[c].host] = conn[c].id]
        \/ config' = [config EXCEPT ![conn[c].host] = "torn"]
    BY <1>3 DEF WriteConfig
  <2> QED
    BY <1>0, <2>1, <2>2, <2>3, ConfigStep
<1> QED
  BY <1>2, <1>3

-----------------------------------------------------------------------------
(* The server alone, and the daemon.                                       *)

LEMMA ServerStep ==
  ASSUME PairInv, UNCHANGED daemon,
         \/ Operator /\ UNCHANGED <<conn, disk>>
         \/ \E t \in Token : ServeBadComplete(t)
  PROVE  PairInv'
<1>0. UNCHANGED <<conn, disk, daemon>> /\ PairShape /\ RowsSettled
  BY DEF ServeBadComplete, PairInv
<1>1. ServerMoves
  <2>1. ASSUME NEW t \in Token, ServeBadComplete(t)
        PROVE  ServerMoves
    BY <1>0, <2>1, HandleCompleteMoves DEF ServeBadComplete
  <2> QED
    BY <1>0, <2>1, OperatorMoves
<1>2. minted' \in Seq(Token)
  <2>1. ASSUME NEW t \in Token, ServeBadComplete(t)
        PROVE  minted' = minted
    BY <2>1 DEF ServeBadComplete, HandleComplete
  <2>2. ASSUME Operator
        PROVE  minted' = minted \/ \E t \in Token : minted' = Append(minted, t)
    BY <2>2 DEF Operator, Tick, Mint, MintSimpleDeviceCode, Confirm, Reject
  <2>3. minted \in Seq(Token) /\ \A t \in Token : Append(minted, t) \in Seq(Token)
    BY <1>0 DEF PairShape
  <2> QED
    BY <2>1, <2>2, <2>3
<1>3. PairShape'
  BY <1>0, <1>1, <1>2 DEF PairShape, ServerMoves, disk
<1>4. SeedsStay
  BY <1>0 DEF SeedsStay, disk
<1>5. (\A c \in Conn : ConnKnows(c)') /\ (\A h \in Host : DiskKnows(h)') /\ DaemonKnows'
  BY <1>0, <1>1, <1>4, ConnStays, DiskStays, DaemonStays DEF PairInv
<1> QED
  BY <1>1, <1>3, <1>5 DEF PairInv, ServerMoves

LEMMA DaemonStep ==
  ASSUME PairInv, UNCHANGED pairing, daemon'.host = daemon.host, DaemonKnows'
  PROVE  PairInv'
<1>1. UNCHANGED <<server, conn, disk>>
  BY DEF pairing, server, disk
<1>2. ServerMoves
  BY <1>1, RowsAlone DEF server, PairInv, PairShape
<1>3. SeedsStay
  BY <1>1 DEF SeedsStay, disk
<1>4. (\A c \in Conn : ConnKnows(c)') /\ (\A h \in Host : DiskKnows(h)')
  BY <1>1, <1>2, <1>3, ConnStays, DiskStays DEF PairInv
<1>5. PairShape' /\ RowsSettled'
  BY <1>1, <1>2 DEF PairInv, PairShape, ServerMoves, server, disk
<1> QED
  BY <1>4, <1>5 DEF PairInv

\* The self-checks leave what was read of the config alone.
Checked ==
  /\ daemon.at \in Starting /\ daemon'.at \in {"login", "gate", "signer"}
  /\ daemon'.host = daemon.host /\ daemon'.override = daemon.override
  /\ daemon'.agent = daemon.agent /\ daemon'.key = daemon.key

\* A start reads a config that names a stored seed; minutes later the key is read.
LEMMA RunDaemonStep ==
  ASSUME PairInv, Shape,
         \/ \E override \in BOOLEAN : Start(override)
         \/ StartupStep \/ ProbePrompts \/ ProbeWrites \/ ProbeDies \/ Stops
  PROVE  PairInv'
<1>0. /\ PairShape /\ DaemonKnows /\ DiskKnows(daemon.host) /\ UNCHANGED pairing
      /\ config[daemon.host] \in Identity \cup {"absent", "torn"}
  BY DEF PairInv, PairShape, Start, StartupStep, LoadSigner, Detected, LoginChecked, Finish,
         ProbePrompts, ProbeWrites, ProbeDies, Stops
<1>1. CASE UNCHANGED daemon
  <2>1. UNCHANGED <<rows, registered>>
    BY <1>0 DEF pairing
  <2>2. DaemonKnows'
    BY <1>0, <1>1, <2>1 DEF DaemonKnows, Vouches
  <2> QED
    BY <1>0, <1>1, <2>2, DaemonStep
<1>2. CASE Exit
  BY <1>0, <1>2, DaemonStep DEF Exit, Off, DaemonKnows, Starting
<1>3. ASSUME NEW override \in BOOLEAN, Start(override)
      PROVE  PairInv'
  <2>1. CASE UNCHANGED daemon
    BY <1>1, <2>1
  <2>2. CASE ~(UNCHANGED daemon)
    <3> DEFINE paired == config[daemon.host]
    <3>1. /\ paired # "torn" /\ (paired = "absent" => override)
          /\ daemon' = [daemon EXCEPT !.at = "detect", !.override = override,
                                      !.agent = IF override THEN NoId ELSE paired,
                                      !.key = IF paired = "absent" THEN DevKey ELSE paired]
      BY <1>3, <2>2 DEF Start, Load, ReadPairingConfigThrows, ConfigParses
    <3>2. paired \in Identity \cup {"absent", "torn"}
      BY <1>0
    <3> HIDE DEF paired
    <3>3. /\ daemon'.at = "detect" /\ daemon'.host = daemon.host /\ daemon'.override = override
          /\ ~override => daemon'.agent = paired /\ daemon'.key = paired
      BY <3>1 DEF Shape
    <3>4. DaemonKnows'
      BY <3>1, <3>2, <3>3 DEF DaemonKnows
    <3> QED
      BY <1>0, <3>3, <3>4, DaemonStep
  <2> QED
    BY <2>1, <2>2
<1>4. CASE \/ \E mode \in IsolationMode : Detected(mode)
           \/ \E outcome \in LoginOutcome : LoginChecked(outcome)
           \/ \E exited \in BOOLEAN : Finish(exited)
  <2>1. Checked
    <3>1. ASSUME NEW mode \in IsolationMode, Detected(mode)
          PROVE  Checked
      BY <3>1 DEF Checked, Detected, BuildIsolation, Shape, Starting
    <3>2. ASSUME NEW outcome \in LoginOutcome, LoginChecked(outcome)
          PROVE  Checked
      BY <3>2 DEF Checked, LoginChecked, CleanupIsolation, Shape, Starting
    <3>3. ASSUME NEW exited \in BOOLEAN, Finish(exited)
          PROVE  Checked
      BY <3>3 DEF Checked, Finish, Shape, Starting
    <3> QED
      BY <1>4, <3>1, <3>2, <3>3
  <2>2. DaemonKnows'
    BY <1>0, <2>1 DEF Checked, DaemonKnows, Starting
  <2> QED
    BY <1>0, <2>1, <2>2, DaemonStep DEF Checked
<1>5. CASE LoadSigner /\ ~Exit
  <2>1. /\ daemon.at = "signer" /\ StoredKey # NoKey
        /\ daemon' = [daemon EXCEPT !.at = "serve", !.signer = StoredKey]
    BY <1>5 DEF LoadSigner
  <2>2. /\ daemon'.at = "serve" /\ daemon'.signer = StoredKey
        /\ daemon'.host = daemon.host /\ daemon'.override = daemon.override
        /\ daemon'.agent = daemon.agent /\ daemon'.key = daemon.key
    BY <2>1 DEF Shape
  <2>3. ~daemon.override => /\ daemon.agent = daemon.key /\ daemon.agent \in Identity
                            /\ Vouches(daemon.agent, StoredKey)
    BY <1>0, <2>1, DevKeyAssumption DEF DaemonKnows, Starting, StoredKey, DiskKnows
  <2>4. UNCHANGED <<rows, registered>>
    BY <1>0 DEF pairing
  <2>5. DaemonKnows'
    BY <2>2, <2>3, <2>4 DEF DaemonKnows, Vouches
  <2> QED
    BY <1>0, <2>2, <2>5, DaemonStep
<1> QED
  BY <1>1, <1>2, <1>3, <1>4, <1>5
     DEF StartupStep, ProbePrompts, ProbeWrites, ProbeDies, Stops

-----------------------------------------------------------------------------

\* A key is in a config only if the server has it, in every state: connect and
\* connectSimple store what they were told is active, and the server forgets nothing.
THEOREM PairInvariance == Spec => []PairInv
<1>1. Init => PairInv
  <2> SUFFICES ASSUME Init PROVE PairInv
    OBVIOUS
  <2>1. PairShape
    BY DEF Init, Off, PairingInit, ServerInit, PairShape, RowShape, RowFields, ConnFields, NoRow
  <2>2. RowsSettled
    BY DEF Init, PairingInit, ServerInit, RowsSettled, NoRow
  <2>3. ASSUME NEW c \in Conn
        PROVE  ConnKnows(c)
    <3>1. conn[c].at = "idle"
      BY DEF Init, PairingInit
    <3> QED
      BY <3>1 DEF ConnKnows
  <2>4. ASSUME NEW h \in Host
        PROVE  DiskKnows(h)
    <3>1. config[h] = "absent" /\ \A i \in Identity : keychain[h][i] = NoKey
      BY DEF Init, PairingInit
    <3> QED
      BY <3>1, ConfigAssumption DEF DiskKnows
  <2>5. DaemonKnows
    BY DEF Init, Off, DaemonKnows, Starting
  <2> QED
    BY <2>1, <2>2, <2>3, <2>4, <2>5 DEF PairInv
<1>2. PairInv /\ Shape /\ [Next]_vars => PairInv'
  <2> SUFFICES ASSUME PairInv, Shape, [Next]_vars PROVE PairInv'
    OBVIOUS
  <2>1. CASE UNCHANGED vars
    <3>1. DaemonKnows'
      BY <2>1 DEF vars, PairInv, DaemonKnows, Vouches
    <3> QED
      BY <2>1, <3>1, DaemonStep DEF vars, pairing
  <2>2. ASSUME NEW c \in Conn, Connect(c), UNCHANGED daemon
        PROVE  PairInv'
    <3>1. CASE Serve(c)
      BY <2>2, <3>1, ServeStep
    <3>2. CASE Step(c)
      BY <2>2, <3>2, ReturnStep, StoreStep, WriterStep DEF Step
    <3>3. CASE FetchFails(c) \/ ReplyInvalid(c) \/ Killed(c)
      BY <2>2, <3>3, FailureStep DEF FetchFails, ReplyInvalid, Killed
    <3>4. CASE (\E t \in Token : StartConnect(c, t)) \/ (\E d \in Code \cup Token : StartSimple(c, d))
      BY <2>2, <3>4, StartingStep
    <3> QED
      BY <2>2, <3>1, <3>2, <3>3, <3>4 DEF Connect
  <2>3. CASE PairingNext /\ UNCHANGED daemon
    BY <2>2, <2>3, ServerStep DEF PairingNext
  <2>4. CASE \/ \E override \in BOOLEAN : Start(override)
             \/ StartupStep \/ ProbePrompts \/ ProbeWrites \/ ProbeDies \/ Stops
    BY <2>4, RunDaemonStep
  <2> QED
    BY <2>1, <2>3, <2>4 DEF Next
<1>3. GateInv => Shape
  BY DEF GateInv
<1> QED
  BY <1>1, <1>2, <1>3, GateInvariance, PTL DEF Spec

\* auth/connect.ts between storeSeed and writePairingConfig: wherever a connect is
\* killed, a config that parses names a stored key that the server has activated.
THEOREM PairedOrNot == Spec => []NeverHalfPaired
<1>1. PairInv => NeverHalfPaired
  <2> SUFFICES ASSUME PairInv, NEW h \in Host, config[h] \in Identity
               PROVE  Vouches(config[h], keychain[h][config[h]])
    BY DEF NeverHalfPaired, Vouches
  <2> QED
    BY DEF PairInv, DiskKnows
<1> QED
  BY <1>1, PairInvariance, PTL

\* index.ts runDaemon: what was read before the checks still fits the key read after
\* them, and the relay that registered it.
THEOREM ServesVerified == Spec => []PairedDaemonVerifies
<1>1. PairInv => PairedDaemonVerifies
  <2> SUFFICES ASSUME PairInv, daemon.at = "serve", ~daemon.override
               PROVE  VerifyHello = "ok"
    BY DEF PairedDaemonVerifies
  <2>1. daemon.agent = daemon.key /\ daemon.agent \in Identity /\ Vouches(daemon.agent, daemon.signer)
    BY DEF PairInv, DaemonKnows
  <2>2. daemon.signer \in RecordedKeys(daemon.agent)
    BY <2>1 DEF Vouches, RecordedKeys, Identity, PairInv, PairShape
  <2> QED
    BY <2>1, <2>2 DEF VerifyHello, VerifyTranscript, HelloSignature
<1> QED
  BY <1>1, PairInvariance, PTL

\* server handleComplete: a row's first key is registered and stays its only one, so
\* two connects that both end paired by one token are the same, and no connect ends
\* paired with a key the server does not know.
THEOREM TokenIsOneDevices == Spec => []OneDevicePerToken
<1>1. PairInv => OneDevicePerToken
  BY DEF PairInv, ConnKnows, Vouches, OneDevicePerToken
<1> QED
  BY <1>1, PairInvariance, PTL
=============================================================================
