--------------------------- MODULE PairingServer ---------------------------
(***************************************************************************)
(* MockPairingServer (mock-relay/pairing-server.ts), the in-repository     *)
(* counterpart of the pairing endpoints: tokens are minted, a device       *)
(* completes one with a proof of possession, the browser confirms or       *)
(* rejects the fingerprint, and the device polls for the outcome.          *)
(*                                                                         *)
(* A handler is an action with the reply it sends as its last parameter;   *)
(* the process that asked is Pairing's.  Secrets, hashes and signatures    *)
(* are abstract: a token names its row, a key stands for the public key    *)
(* and its fingerprint, a signature is who signed what.  A row's agent_id  *)
(* and key_id are made from its id, so the token is the identity.          *)
(***************************************************************************)
EXTENDS Naturals, Sequences

CONSTANTS
  Token,         \* pairing tokens (hpk1 secrets), one row each
  Code,          \* device codes of simple pairing
  Key,           \* device public keys
  NoKey,         \* undefined
  NoToken,       \* no poll token
  SimpleId,      \* "agent-123"/"key-123", the one identity simple pairing gives out
  NoId,          \* no identity in a reply
  NoAuto,        \* confirmAfterStatusPolls is not set
  Options,       \* the constructor options (MockPairingOpts) to consider
  TokenTtl, PendingTtl, ActiveTtl,  \* the three time-to-lives
  AttemptCap, PollTokenCap, DeviceCap,
  MaxTime        \* bound on the clock

ASSUME TtlAssumption == {TokenTtl, PendingTtl, ActiveTtl, MaxTime} \subseteq Nat
ASSUME CapAssumption == {AttemptCap, PollTokenCap, DeviceCap} \subseteq Nat \ {0}
ASSUME OptionsAssumption ==
  Options \subseteq [simple : BOOLEAN, confirmAfter : Nat \cup {NoAuto},
                     force404s : Nat, wrongFingerprint : BOOLEAN]
ASSUME NameAssumption ==
  NoKey \notin Key /\ NoId \notin Token \cup {SimpleId} /\ SimpleId \notin Token /\ NoAuto \notin Nat

VARIABLES
  opts,        \* this.opts
  now,         \* the clock
  minted,      \* the keys of rowsBySecretHash, in insertion order
  rows,        \* rowsBySecretHash; a row not minted has state "none"
  codes,       \* simpleDeviceCodes
  registered,  \* registeredPublicKeys
  devices,     \* activeDeviceCounts, for the one user
  forced       \* forcedValidStatus404s

server == <<opts, now, minted, rows, codes, registered, devices, forced>>

PairingState == {"none", "issued", "pending", "active", "rejected", "expired", "burned"}

\* A poll token is named by its row and its number there (its random bytes).
PollToken == Token \X Nat
PollTokenRow == [id : PollToken, exp : Nat, key : Key]
PairingRow ==
  [state : PairingState, tokenExp : Nat, pendingExp : Nat, attempts : 0 .. AttemptCap,
   winner : Key \cup {NoKey}, pollTokens : Seq(PollTokenRow), issued : Nat, polls : Nat]
NoRow ==
  [state |-> "none", tokenExp |-> 0, pendingExp |-> 0, attempts |-> 0,
   winner |-> NoKey, pollTokens |-> <<>>, issued |-> 0, polls |-> 0]

\* An HTTP reply: the status line, the body's status, its fingerprint, poll token
\* and identity.
Reply(code, body) ==
  [code |-> code, body |-> body, key |-> NoKey, poll |-> NoToken, id |-> NoId]
FailComplete == Reply(400, "pairing_failed")
NotFound == Reply(404, "invalid_or_expired")

ServerTypeOK ==
  /\ opts \in Options /\ now \in 0 .. MaxTime
  /\ minted \in Seq(Token) /\ rows \in [Token -> PairingRow]
  /\ codes \subseteq Code /\ registered \subseteq Key
  /\ devices \in 0 .. DeviceCap /\ forced \in Nat

ServerInit ==
  /\ opts \in Options /\ now = 0 /\ minted = <<>> /\ rows = [t \in Token |-> NoRow]
  /\ codes = {} /\ registered = {} /\ devices = 0 /\ forced = 0

\* Simple pairing looks at no clock.
Tick ==
  /\ ~opts.simple /\ now < MaxTime
  /\ now' = now + 1
  /\ UNCHANGED <<opts, minted, rows, codes, registered, devices, forced>>

-----------------------------------------------------------------------------
(* Rows.                                                                   *)

\* expireRowIfNeeded: expiry is noticed only when a request touches the row.
Expire(r) ==
  IF \/ r.state = "issued" /\ r.tokenExp <= now
     \/ r.state = "pending" /\ r.pendingExp <= now
  THEN [r EXCEPT !.state = "expired"] ELSE r

\* incrementAttemptOrBurn; r has been through Expire.
IncrementAttemptOrBurn(r) ==
  IF r.state # "issued" THEN r
  ELSE [r EXCEPT !.attempts = @ + 1,
                 !.state = IF r.attempts + 1 >= AttemptCap THEN "burned" ELSE @]

\* mintPollToken: a fresh token, and the oldest ones evicted beyond the cap.
MintPollToken(t, r, exp, k) ==
  LET tokens == Append(r.pollTokens, [id |-> <<t, r.issued + 1>>, exp |-> exp, key |-> k])
      excess == IF Len(tokens) > PollTokenCap THEN Len(tokens) - PollTokenCap ELSE 0
  IN [r EXCEPT !.issued = @ + 1, !.pollTokens = SubSeq(tokens, excess + 1, Len(tokens))]

RemovePollToken(r, p) ==
  LET Kept(x) == x.id # p IN [r EXCEPT !.pollTokens = SelectSeq(@, Kept)]

\* confirmRow on a row that is pending and not expired: refused at the device cap.
ConfirmRow(r) == IF devices >= DeviceCap THEN r ELSE [r EXCEPT !.state = "active"]
Confirms(r) == r.state = "pending" /\ devices < DeviceCap

-----------------------------------------------------------------------------
(* The operator's side: mint, mintSimpleDeviceCode, confirm, reject.       *)

Mint(t) ==
  /\ rows[t].state = "none"
  /\ minted' = Append(minted, t)
  /\ rows' = [rows EXCEPT ![t] = [NoRow EXCEPT !.state = "issued", !.tokenExp = now + TokenTtl,
                                               !.pendingExp = now + PendingTtl]]
  /\ UNCHANGED <<opts, now, codes, registered, devices, forced>>

MintSimpleDeviceCode(d) ==
  /\ opts.simple /\ d \notin codes
  /\ codes' = codes \cup {d}
  /\ UNCHANGED <<opts, now, minted, rows, registered, devices, forced>>

\* firstPendingRow: in insertion order, expiring what it passes.  Found(i): row
\* i is the first one still pending.
Found(i) ==
  /\ Expire(rows[minted[i]]).state = "pending"
  /\ \A j \in 1 .. i - 1 : Expire(rows[minted[j]]).state # "pending"
Passed(i) == [t \in Token |-> IF \E j \in 1 .. i : minted[j] = t THEN Expire(rows[t]) ELSE rows[t]]

Reject(i) ==
  /\ Found(i)
  /\ rows' = [Passed(i) EXCEPT ![minted[i]].state = "rejected"]
  /\ UNCHANGED <<opts, now, minted, codes, registered, devices, forced>>

Confirm(i) ==
  /\ Found(i)
  /\ rows' = [Passed(i) EXCEPT ![minted[i]] = ConfirmRow(@)]
  /\ devices' = IF devices < DeviceCap THEN devices + 1 ELSE devices
  /\ UNCHANGED <<opts, now, minted, codes, registered, forced>>

-----------------------------------------------------------------------------
(* The device's side.                                                      *)

Capability(reply) ==
  /\ reply = IF opts.simple THEN Reply(200, "simple_pairing") ELSE NotFound
  /\ UNCHANGED server

\* responseFingerprint and the 202 of handleComplete.
Completed(k, p) ==
  [Reply(202, "pending") EXCEPT !.key = IF opts.wrongFingerprint THEN NoKey ELSE k, !.poll = p]

Sign(k, transcript) == [by |-> k, over |-> transcript]
VerifyTranscript(k, transcript, sig) == sig = Sign(k, transcript)

\* buildPairingTranscript; the domain tag keeps it apart from a hello's.
PairingTranscript(t, k, origin) == [tag |-> "pair", secret |-> t, key |-> k, origin |-> origin]

\* row.expectedOrigin, and an origin that is another server's.
Origin == "ours"
OtherOrigin == "theirs"

\* Proof of possession.  NoKey stands for the published test key, which no device has.
Proves(t, k, sig) == k # NoKey /\ VerifyTranscript(k, PairingTranscript(t, k, Origin), sig)

\* The rows and the reply of handleComplete.
FailRow(r) == [row |-> r, reply |-> FailComplete, wins |-> FALSE]
IssueRow(t, r, exp, k) ==
  LET row == MintPollToken(t, r, exp, k)
  IN [row |-> row, reply |-> Completed(k, <<t, row.issued>>), wins |-> FALSE]
CompleteIssued(t, r, k) ==
  IF r.attempts >= AttemptCap THEN FailRow([r EXCEPT !.state = "burned"])
  ELSE LET done == IssueRow(t, r, r.pendingExp, k)
       IN [done EXCEPT !.row.state = "pending", !.row.winner = k, !.wins = TRUE]

\* Mutant: a later key that proves possession takes the row over.
MutantCompleteRow(t, k, sig) ==
  LET r == Expire(rows[t])
  IN IF r.state \in {"none", "expired", "burned", "rejected"} THEN FailRow(r)
     ELSE IF ~Proves(t, k, sig) THEN FailRow(IncrementAttemptOrBurn(r))
     ELSE IF r.state = "issued" THEN CompleteIssued(t, r, k)
     ELSE IssueRow(t, [r EXCEPT !.winner = k],
                   IF r.state = "active" THEN now + ActiveTtl ELSE r.pendingExp, k)

CompleteRow(t, k, sig) ==
  LET r == Expire(rows[t])
  IN IF r.state \in {"none", "expired", "burned", "rejected"} THEN FailRow(r)
     ELSE IF ~Proves(t, k, sig) THEN FailRow(IncrementAttemptOrBurn(r))
     ELSE IF r.state = "issued" THEN CompleteIssued(t, r, k)
     ELSE IF r.winner # k THEN FailRow(r)
     ELSE IssueRow(t, r, IF r.state = "active" THEN now + ActiveTtl ELSE r.pendingExp, k)

HandleComplete(t, k, sig, reply) ==
  LET done == CompleteRow(t, k, sig)
  IN /\ ~opts.simple
     /\ rows' = [rows EXCEPT ![t] = done.row]
     /\ registered' = IF done.wins THEN registered \cup {k} ELSE registered
     /\ reply = done.reply
     /\ UNCHANGED <<opts, now, minted, codes, devices, forced>>

\* handleSimpleComplete: a device code is good for one completion.
HandleSimpleComplete(d, k, reply) ==
  /\ opts.simple
  /\ \/ /\ d \in codes
        /\ codes' = codes \ {d} /\ registered' = registered \cup {k}
        /\ reply = [Reply(200, "paired") EXCEPT !.id = SimpleId]
     \/ d \notin codes /\ reply = FailComplete /\ UNCHANGED <<codes, registered>>
  /\ UNCHANGED <<opts, now, minted, rows, devices, forced>>

\* A rev2 body at a simple server, or a simple one at a rev2 server.
HandleForeignComplete(reply) == reply = FailComplete /\ UNCHANGED server

\* handleStatus.  Before and after the answer the row may be auto-confirmed.
StatusBody(t, r) ==
  CASE r.state = "pending" -> Reply(200, "pending")
    [] r.state = "rejected" -> Reply(200, "rejected")
    [] r.state = "active" -> [Reply(200, "active") EXCEPT !.id = t]
    [] OTHER -> NotFound

KnownPollToken(r, p) == \E i \in 1 .. Len(r.pollTokens) : r.pollTokens[i].id = p
PollTokenOf(r, p) == r.pollTokens[CHOOSE i \in 1 .. Len(r.pollTokens) : r.pollTokens[i].id = p]

Polled(t, r, force, reply) ==
  LET zero == opts.confirmAfter = 0 /\ Confirms(r)
      r1 == IF zero THEN ConfirmRow(r) ELSE r
      counts == r1.state = "pending" /\ opts.confirmAfter # NoAuto
      r2 == IF counts THEN [r1 EXCEPT !.polls = @ + 1] ELSE r1
      late == counts /\ Confirms(r2) /\ r2.polls >= opts.confirmAfter
  IN /\ reply = IF force THEN NotFound ELSE StatusBody(t, r1)
     /\ rows' = [rows EXCEPT ![t] = IF force THEN r1 ELSE IF late THEN ConfirmRow(r2) ELSE r2]
     /\ devices' = IF zero \/ (late /\ ~force) THEN devices + 1 ELSE devices

HandleStatus(p, reply) ==
  LET t == p[1]
      r == rows[t]
      dead == ~(KnownPollToken(r, p) /\ PollTokenOf(r, p).exp > now)
      e == Expire(r)
      barred == e.state \in {"expired", "burned"} \/ PollTokenOf(r, p).key # e.winner
      force == forced < opts.force404s
  IN /\ \/ /\ dead
           /\ rows' = [rows EXCEPT ![t] = RemovePollToken(r, p)]
           /\ reply = NotFound /\ UNCHANGED <<devices, forced>>
        \/ /\ ~dead /\ barred
           /\ rows' = [rows EXCEPT ![t] = e]
           /\ reply = NotFound /\ UNCHANGED <<devices, forced>>
        \/ /\ ~dead /\ ~barred /\ force
           /\ forced' = forced + 1
           /\ Polled(t, RemovePollToken(e, p), TRUE, reply)
        \/ /\ ~dead /\ ~barred /\ ~force
           /\ Polled(t, e, FALSE, reply)
           /\ UNCHANGED forced
     /\ UNCHANGED <<opts, now, minted, codes, registered>>
=============================================================================
