------------------------------ MODULE Pairing ------------------------------
(***************************************************************************)
(* `hugin-agent connect`: runConnect (src/connect.ts), connect and         *)
(* connectSimple (src/auth/connect.ts), the device-key store               *)
(* (src/auth/keystore.ts) and the pairing config (src/auth/config-file.ts),*)
(* against the server of PairingServer.                                    *)
(*                                                                         *)
(* A connect is one process on one host; its device key is made by it and  *)
(* named after it.  Hosts keep a keychain and a config file, shared by the *)
(* connects (and the daemon) that run there.  A request is handled at some *)
(* moment between the await and the reply; it or the reply may be lost,    *)
(* which makes fetch throw.  A process may be killed at any await.         *)
(***************************************************************************)
EXTENDS PairingServer

CONSTANTS
  Conn,          \* runs of `hugin-agent connect`
  Host,          \* machines (user accounts)
  PollDeadline   \* pollDeadlineMs

ASSUME DeadlineAssumption == PollDeadline \in Nat \ {0}
ASSUME KeyIsConn == Key = Conn

VARIABLES
  conn,      \* the state of each connect
  keychain,  \* per host: key_id to seed, NoKey where there is none
  config     \* per host: the identity in config.json, "absent" or "torn"

disk == <<keychain, config>>
pairing == <<opts, now, minted, rows, codes, registered, devices, forced, conn, keychain, config>>

\* The identities a server gives out: a row's agent and key, or simple pairing's.
Identity == Token \cup {SimpleId}

\* No identity looks like a config file without one.
ASSUME ConfigAssumption == Identity \cap {"absent", "torn"} = {}

\* at: the await the process is at.  net: the request it waits on, then the reply.
Requests == {"complete", "recomplete", "status", "probe", "simple"}
Ended == {"done", "failed"}
NoReply == Reply(0, "none")
Sent == Reply(0, "sent")
ConnState ==
  [at : {"idle", "sleep", "store", "open", "write"} \cup Requests \cup Ended,
   host : Host, token : Token \cup Code \cup {NoToken}, net : [code : Nat, body : STRING,
   key : Key \cup {NoKey}, poll : PollToken \cup {NoToken}, id : Identity \cup {NoId}],
   poll : PollToken \cup {NoToken}, recovered : BOOLEAN, deadline : Nat, id : Identity \cup {NoId}]

PairingTypeOK ==
  /\ ServerTypeOK
  /\ conn \in [Conn -> ConnState]
  /\ keychain \in [Host -> [Identity -> Key \cup {NoKey}]]
  /\ config \in [Host -> Identity \cup {"absent", "torn"}]

PairingInit ==
  /\ ServerInit
  /\ \E h \in [Conn -> Host] :
       conn = [c \in Conn |-> [at |-> "idle", host |-> h[c], token |-> NoToken, net |-> NoReply,
                               poll |-> NoToken, recovered |-> FALSE, deadline |-> 0, id |-> NoId]]
  /\ keychain = [h \in Host |-> [i \in Identity |-> NoKey]]
  /\ config = [h \in Host |-> "absent"]

\* The process ends; in memory its seed is scrubbed, on disk nothing is undone.
End(c, how) ==
  conn' = [conn EXCEPT ![c] = [@ EXCEPT !.at = how, !.net = NoReply, !.token = NoToken,
                                        !.poll = NoToken, !.recovered = FALSE, !.deadline = 0,
                                        !.id = IF how = "done" THEN conn[c].id ELSE NoId]]

\* The process sends a request and awaits the reply.
Await(c, where) == conn' = [conn EXCEPT ![c].at = where, ![c].net = Sent]

-----------------------------------------------------------------------------
(* connect.                                                                *)

\* parsePairingToken lets a token through in the last second of its life.
TokenParses(t) == rows[t].tokenExp >= now

\* A token that does not parse ends the process here, as does an origin that is not
\* canonical.
StartConnect(c, t) ==
  /\ conn[c].at = "idle" /\ rows[t].state # "none"
  /\ \/ /\ TokenParses(t)
        /\ conn' = [conn EXCEPT ![c].at = "complete", ![c].net = Sent, ![c].token = t]
     \/ ~TokenParses(t) /\ End(c, "failed")
  /\ UNCHANGED <<server, disk>>

\* completePairing signs anew each time, with the one device key.
PopSignature(c) == Sign(c, PairingTranscript(conn[c].token, c, Origin))

ServeComplete(c) ==
  /\ conn[c].at \in {"complete", "recomplete"} /\ conn[c].net = Sent
  /\ \E reply \in {CompleteRow(conn[c].token, c, PopSignature(c)).reply, FailComplete} :
       /\ \/ HandleComplete(conn[c].token, c, PopSignature(c), reply)
          \/ opts.simple /\ HandleForeignComplete(reply)
       /\ conn' = [conn EXCEPT ![c].net = reply]
  /\ UNCHANGED disk

\* A completion that proves no possession of the key it names: signed by another
\* key, over another origin, or with the published test key.
ServeBadComplete(t) ==
  /\ rows[t].state # "none"
  /\ \E k \in Key :
       \/ HandleComplete(t, k, Sign(NoKey, PairingTranscript(t, k, Origin)), FailComplete)
       \/ HandleComplete(t, k, Sign(k, PairingTranscript(t, k, OtherOrigin)), FailComplete)
       \/ HandleComplete(t, NoKey, Sign(NoKey, PairingTranscript(t, NoKey, Origin)), FailComplete)
  /\ UNCHANGED <<conn, disk>>

\* The loop's condition, the status request, or the timeout.
Polling(c, poll, recovered, deadline) ==
  IF now < deadline
  THEN conn' = [conn EXCEPT ![c] = [@ EXCEPT !.at = "status", !.net = Sent, !.poll = poll,
                                             !.recovered = recovered, !.deadline = deadline]]
  ELSE End(c, "failed")

\* now() + pollDeadlineMs; the last tick of the clock stands for any time after it.
Deadline == IF now + PollDeadline < MaxTime THEN now + PollDeadline ELSE MaxTime

\* Anything but a 202 with our own fingerprint throws.
CompleteAccepted(c, m) == m.code = 202 /\ m.key = c

CompleteReturns(c) ==
  LET m == conn[c].net
      good == CompleteAccepted(c, m)
  IN /\ conn[c].at \in {"complete", "recomplete"} /\ m.code # 0
     /\ \/ ~good /\ End(c, "failed")
        \/ good /\ conn[c].at = "complete" /\ Polling(c, m.poll, FALSE, Deadline)
        \/ good /\ conn[c].at = "recomplete" /\ Polling(c, m.poll, TRUE, conn[c].deadline)
     /\ UNCHANGED <<server, disk>>

ServeStatus(c) ==
  /\ conn[c].at = "status" /\ conn[c].net = Sent
  /\ \E reply \in {NotFound, Reply(200, "pending"), Reply(200, "rejected"),
                   [Reply(200, "active") EXCEPT !.id = conn[c].token]} :
       /\ HandleStatus(conn[c].poll, reply)
       /\ conn' = [conn EXCEPT ![c].net = reply]
  /\ UNCHANGED disk

\* Mutant: the answer is taken for an activation unless it says otherwise.
MutantStatusReturns(c) ==
  LET m == conn[c].net
  IN /\ conn[c].at = "status" /\ m.code # 0
     /\ \/ m.code = 404 /\ conn[c].recovered /\ End(c, "failed")
        \/ m.code = 404 /\ ~conn[c].recovered /\ Await(c, "recomplete")
        \/ m.body = "rejected" /\ End(c, "failed")
        \/ /\ m.code = 200 /\ m.body # "rejected"
           /\ conn' = [conn EXCEPT ![c].at = "store", ![c].net = NoReply, ![c].id = conn[c].token]
     /\ UNCHANGED <<server, disk>>

\* One 404 is recovered from by completing again with the same key.
StatusReturns(c) ==
  LET m == conn[c].net
  IN /\ conn[c].at = "status" /\ m.code # 0
     /\ \/ m.code = 404 /\ conn[c].recovered /\ End(c, "failed")
        \/ m.code = 404 /\ ~conn[c].recovered /\ Await(c, "recomplete")
        \/ m.body = "pending" /\ conn' = [conn EXCEPT ![c].at = "sleep", ![c].net = NoReply]
        \/ m.body = "rejected" /\ End(c, "failed")
        \/ /\ m.body = "active"
           /\ conn' = [conn EXCEPT ![c].at = "store", ![c].net = NoReply, ![c].id = m.id]
     /\ UNCHANGED <<server, disk>>

\* Mutant: the loop has no deadline.
MutantWake(c) ==
  /\ conn[c].at = "sleep"
  /\ Await(c, "status")
  /\ UNCHANGED <<server, disk>>

\* The poll interval is over.
Wake(c) ==
  /\ conn[c].at = "sleep"
  /\ Polling(c, conn[c].poll, conn[c].recovered, conn[c].deadline)
  /\ UNCHANGED <<server, disk>>

-----------------------------------------------------------------------------
(* connectSimple: the capability probe comes before the key is made.       *)

\* An hpk1 token is not taken for a device code.
ValidateSimpleDeviceCode(d) == d \in Code

StartSimple(c, d) ==
  /\ conn[c].at = "idle"
  /\ \/ /\ ValidateSimpleDeviceCode(d)
        /\ conn' = [conn EXCEPT ![c].at = "probe", ![c].net = Sent, ![c].token = d]
     \/ ~ValidateSimpleDeviceCode(d) /\ End(c, "failed")
  /\ UNCHANGED <<server, disk>>

ServeProbe(c) ==
  /\ conn[c].at = "probe" /\ conn[c].net = Sent
  /\ \E reply \in {NotFound, Reply(200, "simple_pairing")} :
       Capability(reply) /\ conn' = [conn EXCEPT ![c].net = reply]
  /\ UNCHANGED disk

ProbeReturns(c) ==
  /\ conn[c].at = "probe" /\ conn[c].net.code # 0
  /\ \/ conn[c].net.code = 200 /\ Await(c, "simple")
     \/ conn[c].net.code # 200 /\ End(c, "failed")
  /\ UNCHANGED <<server, disk>>

ServeSimple(c) ==
  /\ conn[c].at = "simple" /\ conn[c].net = Sent
  /\ \E reply \in {FailComplete, [Reply(200, "paired") EXCEPT !.id = SimpleId]} :
       HandleSimpleComplete(conn[c].token, c, reply) /\ conn' = [conn EXCEPT ![c].net = reply]
  /\ UNCHANGED disk

SimpleReturns(c) ==
  LET m == conn[c].net
  IN /\ conn[c].at = "simple" /\ m.code # 0
     /\ \/ m.code = 200 /\ conn' = [conn EXCEPT ![c].at = "store", ![c].net = NoReply, ![c].id = m.id]
        \/ m.code # 200 /\ End(c, "failed")
     /\ UNCHANGED <<server, disk>>

-----------------------------------------------------------------------------
(* What both do with the identity: the seed goes to the keychain first,    *)
(* then the config is written.                                             *)

\* Mutant: the config is written before the seed is stored.
MutantStoreSeed(c) ==
  /\ conn[c].at = "store"
  /\ \/ /\ config' = [config EXCEPT ![conn[c].host] = conn[c].id]
        /\ conn' = [conn EXCEPT ![c].at = "open"]
        /\ UNCHANGED keychain
     \/ End(c, "failed") /\ UNCHANGED disk
  /\ UNCHANGED server

\* seedStore.set; a keychain that refuses makes it throw.
StoreSeed(c) ==
  /\ conn[c].at = "store"
  /\ \/ /\ keychain' = [keychain EXCEPT ![conn[c].host][conn[c].id] = c]
        /\ conn' = [conn EXCEPT ![c].at = "open"]
     \/ End(c, "failed") /\ UNCHANGED keychain
  /\ UNCHANGED <<server, config>>

\* writeFileSync is not atomic: the file is opened and truncated ...
OpenConfig(c) ==
  /\ conn[c].at = "open"
  /\ config' = [config EXCEPT ![conn[c].host] = "torn"]
  /\ conn' = [conn EXCEPT ![c].at = "write"]
  /\ UNCHANGED <<server, keychain>>

\* ... then written.  Two writers that both truncated first may leave the tail of
\* the longer text behind the shorter one.
WriteConfig(c) ==
  LET h == conn[c].host
  IN /\ conn[c].at = "write"
     /\ \/ config' = [config EXCEPT ![h] = conn[c].id]
        \/ config[h] # "torn" /\ config' = [config EXCEPT ![h] = "torn"]
     /\ End(c, "done")
     /\ UNCHANGED <<server, keychain>>

\* fetch throws: the request, or its reply, is lost.
FetchFails(c) ==
  /\ conn[c].at \in Requests
  /\ End(c, "failed")
  /\ UNCHANGED <<server, disk>>

\* A reply with the right status that is no JSON, or that its schema refuses.
ReplyInvalid(c) ==
  /\ conn[c].at \in Requests /\ conn[c].net.code \in {200, 202}
  /\ End(c, "failed")
  /\ UNCHANGED <<server, disk>>

\* The process is killed, or the disk is full, wherever it is.
Killed(c) ==
  /\ conn[c].at \in {"sleep", "store", "open", "write"}
  /\ End(c, "failed")
  /\ UNCHANGED <<server, disk>>

-----------------------------------------------------------------------------
Serve(c) == ServeComplete(c) \/ ServeStatus(c) \/ ServeProbe(c) \/ ServeSimple(c)
Step(c) ==
  \/ CompleteReturns(c) \/ StatusReturns(c) \/ Wake(c) \/ ProbeReturns(c) \/ SimpleReturns(c)
  \/ StoreSeed(c) \/ OpenConfig(c) \/ WriteConfig(c)

Connect(c) ==
  \/ Serve(c) \/ Step(c) \/ FetchFails(c) \/ ReplyInvalid(c) \/ Killed(c)
  \/ \E t \in Token : StartConnect(c, t)
  \/ \E d \in Code \cup Token : StartSimple(c, d)

Operator ==
  \/ Tick
  \/ \E t \in Token : Mint(t)
  \/ \E d \in Code : MintSimpleDeviceCode(d)
  \/ \E i \in 1 .. Len(minted) : Confirm(i) \/ Reject(i)

PairingNext ==
  \/ Operator /\ UNCHANGED <<conn, disk>>
  \/ \E c \in Conn : Connect(c)
  \/ \E t \in Token : ServeBadComplete(t)

PairingSpec == PairingInit /\ [][PairingNext]_pairing
=============================================================================
