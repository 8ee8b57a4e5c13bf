---------------------------- MODULE RelaySession ----------------------------
(***************************************************************************)
(* One daemon's connections: Daemon.start, runSession and stop             *)
(* (src/daemon.ts), RelayClient (src/conn/client.ts) and performHandshake  *)
(* (src/conn/handshake.ts).  What the handlers behind the pump do with a   *)
(* frame is JobManager's and SessionTurns' business; here a frame has a    *)
(* number.                                                                 *)
(*                                                                         *)
(* A promise's continuation runs before the next timer, signal or socket   *)
(* event, but ws may emit several 'message' events before it: while one is *)
(* outstanding (Settled is false) only Receive may come in between.        *)
(*                                                                         *)
(* Each runSession makes a RelayClient of its own, so a client is named by *)
(* its connection.  The relay is the repository's (mock-relay/server.ts)   *)
(* with all its options: it challenges, stalls, rejects or accepts a       *)
(* hello, sends frames after that, may repeat an epoch, force a version    *)
(* the agent does not speak, and send an accept before the hello.          *)
(***************************************************************************)
EXTENDS Wire, Sequences, Functions

CONSTANTS
  Conn,        \* connections (RelayClient objects), used once each
  NoConn,      \* null
  MaxEpoch,    \* bound on connection_epoch
  MaxFrames,   \* bound on the frames after hello.accepted, per connection
  MaxUp,       \* bound on the frames to the relay that are in flight
  Advertised,  \* config.protocolVersion
  Supported,   \* the versions the relay supports (MockRelayOpts.supportedVersions)
  Forced,      \* the versions it may force instead (forceNegotiatedVersion)
  Downlink,    \* the types and flaws of the frames it may send
  Uplink       \* the types the daemon may send over an established connection

Version == Supported \cup Forced

ASSUME ConnAssumption == NoConn \notin Conn
ASSUME BoundAssumption == {MaxEpoch, MaxFrames, MaxUp} \subseteq Nat
ASSUME VersionAssumption == Version \cup {Advertised} \subseteq [major : Nat, pre : STRING]
ASSUME FrameAssumption ==
  /\ Downlink \subseteq [type : V2Types \ HandshakeTypes, flaw : Flaws]
  /\ Uplink \subseteq {t \in (IF IsProtocolV2(Advertised) THEN V2Types ELSE V1Types) \ HandshakeTypes :
                      Direction(t) # "s2a"}

VARIABLES
  running,    \* Daemon.running
  loop,       \* where start() is: the await it is suspended at
  current,    \* Daemon.sessionClient
  active,     \* Daemon.activeClient
  lastEpoch,  \* Daemon.lastEpoch; epochs are positive here, so 0 stands for -1
  client,     \* the RelayClient of each connection
  relay       \* the far end of each connection, with the frames in flight (external)

daemon == <<running, loop, current, active, lastEpoch>>
vars == <<running, loop, current, active, lastEpoch, client, relay>>

-----------------------------------------------------------------------------
(* Messages to the agent: version and epoch are those of a hello.accepted, *)
(* n numbers the frames after it.                                          *)

NoVersion == [major |-> 0, pre |-> Stable]
Msg == [type : V2Types \cup {"none"}, flaw : Flaws, epoch : 0 .. MaxEpoch,
        version : Version \cup {NoVersion, ProtocolVersion, Advertised}, n : 0 .. MaxFrames]

NoMsg == [type |-> "none", flaw |-> "none", epoch |-> 0, version |-> NoVersion, n |-> 0]
Challenge == [NoMsg EXCEPT !.type = "auth.challenge"]
Rejected == [NoMsg EXCEPT !.type = "hello.rejected"]
Accepted(e, v) == [NoMsg EXCEPT !.type = "hello.accepted", !.epoch = e, !.version = v]
Frame(k, f) == [NoMsg EXCEPT !.type = f.type, !.flaw = f.flaw, !.n = k]

\* The predicates the two steps of the handshake wait with.
Awaited(w, m) ==
  \/ w = "challenge" /\ m.type = "auth.challenge"
  \/ w = "reply" /\ m.type \in {"hello.accepted", "hello.rejected"}

\* ws is the WebSocket's readyState.  waiting is the one waiter there can be, got
\* the message that resolved it, until the handshake goes on.  pump: whether
\* runSession's handler is registered.  handled and epoch record what the pump
\* dispatched and which epoch the handshake ended with.
Ws == {"none", "connecting", "open", "closing", "closed"}
ClientState ==
  [ws : Ws, authed : BOOLEAN, v2 : BOOLEAN, armed : BOOLEAN, pending : Seq(Msg),
   waiting : {"none", "challenge", "reply"}, got : Msg, pump : BOOLEAN,
   handled : Seq(0 .. MaxFrames), epoch : 0 .. MaxEpoch]

NewClient ==
  [ws |-> "none", authed |-> FALSE, v2 |-> FALSE, armed |-> FALSE, pending |-> <<>>,
   waiting |-> "none", got |-> NoMsg, pump |-> FALSE, handled |-> <<>>, epoch |-> 0]

\* The closure of handleConnection with the two directions of its socket.  good:
\* the numbers of the frames that decode at the agent, but for those behind one
\* that failed the socket; refused: one of the daemon's did not decode here.
RelayEnd ==
  [stage : {"none", "challenged", "accepted"}, early : BOOLEAN, v2 : BOOLEAN, sent : 0 .. MaxFrames,
   good : SUBSET (1 .. MaxFrames), refused : BOOLEAN, down : Seq(Msg), up : Seq(V2Types)]
NewRelayEnd ==
  [stage |-> "none", early |-> FALSE, v2 |-> FALSE, sent |-> 0,
   good |-> {}, refused |-> FALSE, down |-> <<>>, up |-> <<>>]

TypeOK ==
  /\ running \in BOOLEAN
  /\ loop \in {"idle", "connect", "challenge", "reply", "serve", "exited"}
  /\ current \in Conn \cup {NoConn} /\ active \in Conn \cup {NoConn}
  /\ lastEpoch \in 0 .. MaxEpoch
  /\ client \in [Conn -> ClientState]
  /\ relay \in [Conn -> RelayEnd]

Init ==
  /\ running = TRUE /\ loop = "idle" /\ current = NoConn /\ active = NoConn
  /\ lastEpoch = 0
  /\ client = [c \in Conn |-> NewClient]
  /\ relay = [c \in Conn |-> NewRelayEnd]

\* No promise continuation is outstanding, so a new task may run.
Settled ==
  current # NoConn => /\ client[current].got = NoMsg
                      /\ ~(loop = "connect" /\ client[current].ws = "open")

-----------------------------------------------------------------------------
(* RelayClient.                                                            *)

\* The numbers of messages: 0 for one that is not a frame.
Numbers(s) == [i \in 1 .. Len(s) |-> s[i].n]

\* waitFor: the first buffered message that matches, or a waiter.
WaitFor(cl, w) ==
  LET hits == {i \in 1 .. Len(cl.pending) : Awaited(w, cl.pending[i])}
      first == CHOOSE i \in hits : \A j \in hits : i <= j
  IN IF hits = {} THEN [cl EXCEPT !.waiting = w]
     ELSE [cl EXCEPT !.got = cl.pending[first],
                     !.pending = SubSeq(@, 1, first - 1) \o SubSeq(@, first + 1, Len(@))]

Decodes(cl, m) == DecodeInbound("agent", cl.authed, cl.v2, m.type, m.flaw) = "ok"

\* deliver: the waiter, else the pump, else the buffer.
Deliver(cl, m) ==
  IF Awaited(cl.waiting, m) THEN [cl EXCEPT !.waiting = "none", !.got = m]
  ELSE IF cl.pump THEN [cl EXCEPT !.handled = Append(@, m.n)]
  ELSE [cl EXCEPT !.pending = Append(@, m)]

\* Mutant: the phase is left to the handshake's continuation.
MutantOnMessage(cl, m) ==
  IF ~Decodes(cl, m) \/ (m.type = "hello.accepted" /\ ~cl.armed) THEN cl ELSE Deliver(cl, m)

\* The 'message' listener: an accept flips the phase before the next decode.
OnMessage(cl, m) ==
  IF ~Decodes(cl, m) \/ (m.type = "hello.accepted" /\ ~cl.armed) THEN cl
  ELSE IF m.type = "hello.accepted"
       THEN Deliver([cl EXCEPT !.v2 = IsProtocolV2(m.version), !.authed = TRUE], m)
       ELSE Deliver(cl, m)

Incoming(c) == client[c].ws \in {"open", "closing"} /\ relay[c].down # <<>>

Receive(c) ==
  /\ Incoming(c) /\ Head(relay[c].down).flaw # "oversized"
  /\ client' = [client EXCEPT ![c] = OnMessage(@, Head(relay[c].down))]
  /\ relay' = [relay EXCEPT ![c].down = Tail(@)]
  /\ UNCHANGED daemon

\* ws has maxPayload: it closes the socket at the header of a larger frame, with
\* 1009, and reads no further.  Its 'error' says nothing to an open client.
Oversized(c) ==
  /\ Incoming(c) /\ Head(relay[c].down).flaw = "oversized"
  /\ client' = [client EXCEPT ![c].ws = "closing"]
  /\ relay' = [relay EXCEPT ![c].down = <<>>, ![c].good = {k \in @ : k < Head(relay[c].down).n}]
  /\ UNCHANGED daemon

\* A client that no session holds is garbage, but for its socket and its place in
\* history: what still comes in is buffered for nobody.
Dropped(cl) ==
  [NewClient EXCEPT !.ws = cl.ws, !.epoch = cl.epoch, !.armed = cl.armed, !.handled = cl.handled,
                    !.pump = cl.pump /\ cl.ws # "closed"]

\* close(): a socket that is not closed yet starts to close.
Closing(cl) == IF cl.ws \in {"connecting", "open"} THEN [cl EXCEPT !.ws = "closing"] ELSE cl

-----------------------------------------------------------------------------
(* Daemon.                                                                 *)

\* The finally block of runSession and the return to start's loop; cl is what the
\* session made of its client.
EndSession(c, cl) ==
  /\ client' = [client EXCEPT ![c] = Closing(Dropped(cl))]
  /\ relay' = [relay EXCEPT ![c] = NewRelayEnd]
  /\ loop' = "idle" /\ current' = NoConn
  /\ active' = IF active = c THEN NoConn ELSE active

\* The top of start's loop, at first and after the backoff.
Dial(c) ==
  /\ loop = "idle" /\ running /\ client[c].ws = "none"
  /\ client' = [client EXCEPT ![c].ws = "connecting"]
  /\ current' = c /\ loop' = "connect"
  /\ UNCHANGED <<running, active, lastEpoch, relay>>

\* stop() ends the backoff; start closes the store and returns.
Exits ==
  /\ loop = "idle" /\ ~running
  /\ loop' = "exited"
  /\ UNCHANGED <<running, current, active, lastEpoch, client, relay>>

Opens(c) ==
  /\ client[c].ws = "connecting"
  /\ client' = [client EXCEPT ![c].ws = "open"]
  /\ UNCHANGED <<daemon, relay>>

\* 'error' before 'open', from the network or because stop() closed the socket.
ConnectFails(c) ==
  /\ loop = "connect" /\ c = current /\ client[c].ws \in {"connecting", "closing"}
  /\ EndSession(c, [client[c] EXCEPT !.ws = "closed"])
  /\ UNCHANGED <<running, lastEpoch>>

ConnectContinues(c) ==
  /\ loop = "connect" /\ c = current /\ client[c].ws = "open"
  /\ client' = [client EXCEPT ![c] = WaitFor(@, "challenge")]
  /\ loop' = "challenge"
  /\ UNCHANGED <<running, current, active, lastEpoch, relay>>

\* Mutant: outbound frames are routed to the connection once its hello is sent.
MutantChallengeContinues(c) ==
  /\ loop = "challenge" /\ c = current /\ client[c].got # NoMsg
  /\ \/ /\ client[c].ws = "open"
        /\ client' = [client EXCEPT ![c] = WaitFor([@ EXCEPT !.got = NoMsg, !.armed = TRUE], "reply")]
        /\ relay' = [relay EXCEPT ![c].up = Append(@, "hello")]
        /\ loop' = "reply" /\ active' = c
        /\ UNCHANGED current
     \/ client[c].ws # "open" /\ EndSession(c, client[c])
  /\ UNCHANGED <<running, lastEpoch>>

\* The hello is signed and sent, which throws on a socket that is closing, and
\* the client armed.
ChallengeContinues(c) ==
  /\ loop = "challenge" /\ c = current /\ client[c].got # NoMsg
  /\ \/ /\ client[c].ws = "open"
        /\ client' = [client EXCEPT ![c] = WaitFor([@ EXCEPT !.got = NoMsg, !.armed = TRUE], "reply")]
        /\ relay' = [relay EXCEPT ![c].up = Append(@, "hello")]
        /\ loop' = "reply"
        /\ UNCHANGED <<current, active>>
     \/ client[c].ws # "open" /\ EndSession(c, client[c])
  /\ UNCHANGED <<running, lastEpoch>>

\* The reply is an accept with a version that the agent would have negotiated.
Negotiates(m) == m.type = "hello.accepted" /\ NegotiateVersion(Advertised, {m.version}) # {}

\* Mutant: an epoch seen before is good enough.
MutantAcceptEpoch(e) == e >= lastEpoch

AcceptEpoch(e) == e > lastEpoch

\* onMessage: the pump takes over what was buffered, in order.
Pumped(cl) == [cl EXCEPT !.pump = TRUE, !.handled = @ \o Numbers(cl.pending), !.pending = <<>>]

HandshakeFails(c) ==
  /\ loop = "reply" /\ c = current /\ client[c].got # NoMsg /\ ~Negotiates(client[c].got)
  /\ EndSession(c, client[c])
  /\ UNCHANGED <<running, lastEpoch>>

EpochRefused(c) ==
  /\ loop = "reply" /\ c = current /\ Negotiates(client[c].got) /\ ~AcceptEpoch(client[c].got.epoch)
  /\ EndSession(c, [client[c] EXCEPT !.v2 = IsProtocolV2(Advertised), !.authed = TRUE])
  /\ UNCHANGED <<running, lastEpoch>>

\* Resume directives are applied (HelloAccepted in JobManager) and the pump is
\* wired, unless stop() came while the socket was still delivering.
Established(c) ==
  LET m == client[c].got
      cl == [client[c] EXCEPT !.got = NoMsg, !.epoch = m.epoch,
                              !.v2 = IsProtocolV2(Advertised), !.authed = TRUE]
  IN /\ loop = "reply" /\ c = current /\ Negotiates(m) /\ AcceptEpoch(m.epoch)
     /\ lastEpoch' = m.epoch
     /\ \/ /\ running
           /\ client' = [client EXCEPT ![c] = Pumped(cl)]
           /\ active' = c /\ loop' = "serve" /\ UNCHANGED <<current, relay>>
        \/ ~running /\ EndSession(c, cl)
     /\ UNCHANGED running

\* Mutant: only the reply is waited for with a timeout.
MutantWaitTimesOut(c) ==
  /\ Settled /\ c = current /\ client[c].waiting = "reply"
  /\ EndSession(c, client[c])
  /\ UNCHANGED <<running, lastEpoch>>

\* The timer of waitFor.
WaitTimesOut(c) ==
  /\ Settled /\ c = current /\ client[c].waiting # "none"
  /\ EndSession(c, client[c])
  /\ UNCHANGED <<running, lastEpoch>>

\* 'close': frames in flight are gone, waiters are rejected, runSession goes on.
Closes(c) ==
  /\ Settled /\ client[c].ws \in {"open", "closing"} /\ ~(loop = "connect" /\ c = current)
  /\ \/ c = current /\ EndSession(c, [client[c] EXCEPT !.ws = "closed"])
     \/ /\ c # current
        /\ client' = [client EXCEPT ![c].ws = "closed"]
        /\ UNCHANGED <<loop, current, active, relay>>
  /\ UNCHANGED <<running, lastEpoch>>

\* RelayClient.send, and the catch around it: a socket that is not open takes
\* nothing.
SentTo(c, t) == IF client[c].ws = "open" THEN [relay EXCEPT ![c].up = Append(@, t)] ELSE relay

\* startHeartbeat's interval has the client itself, until runSession ends it.
Beats(c) ==
  /\ Settled /\ loop = "serve" /\ c = current /\ Len(relay[c].up) < MaxUp
  /\ relay' = SentTo(c, "heartbeat")
  /\ UNCHANGED <<daemon, client>>

\* safeSend, from a run, a turn or a handler.
SafeSend(c, t) ==
  /\ Settled /\ active = c /\ Len(relay[c].up) < MaxUp
  /\ relay' = SentTo(c, t)
  /\ UNCHANGED <<daemon, client>>

\* Mutant: only a connection that is being served is closed.
MutantStop ==
  /\ Settled /\ running /\ loop # "exited"
  /\ running' = FALSE
  /\ client' = IF active = NoConn THEN client ELSE [client EXCEPT ![active] = Closing(@)]
  /\ UNCHANGED <<loop, current, active, lastEpoch, relay>>

\* stop(): agent.draining is sent if it can be, and the session's socket closed.
Stop ==
  /\ Settled /\ running /\ loop # "exited"
  /\ running' = FALSE
  /\ client' = IF current = NoConn THEN client ELSE [client EXCEPT ![current] = Closing(@)]
  /\ relay' = IF active = NoConn THEN relay ELSE SentTo(active, "agent.draining")
  /\ UNCHANGED <<loop, current, active, lastEpoch>>

-----------------------------------------------------------------------------
(* The relay.                                                              *)

\* handleConnection.
RelayChallenges(c) ==
  /\ client[c].ws = "open" /\ relay[c].stage = "none"
  /\ relay' = [relay EXCEPT ![c].stage = "challenged", ![c].down = Append(@, Challenge)]
  /\ UNCHANGED <<daemon, client>>

\* prematureAcceptEpoch, with the version it has or with the one the agent wants.
RelayAcceptsEarly(c, e, v) ==
  /\ client[c].ws = "open" /\ relay[c].stage = "challenged" /\ ~relay[c].early /\ ~client[c].armed
  /\ relay' = [relay EXCEPT ![c].early = TRUE, ![c].down = Append(@, Accepted(e, v))]
  /\ UNCHANGED <<daemon, client>>

\* Its 'message' listener decodes with its own phase and version.
RelayDecodes(c) ==
  DecodeInbound("server", relay[c].stage = "accepted", relay[c].v2, Head(relay[c].up), "none") = "ok"
Hears(c) == client[c].ws \in {"open", "closing"} /\ relay[c].up # <<>>
HearsHello(c) ==
  /\ client[c].ws = "open" /\ Hears(c) /\ RelayDecodes(c)
  /\ Head(relay[c].up) = "hello" /\ relay[c].stage # "accepted"

RelayHears(c) ==
  /\ Hears(c) /\ Head(relay[c].up) # "hello"
  /\ relay' = [relay EXCEPT ![c].up = Tail(@), ![c].refused = @ \/ ~RelayDecodes(c)]
  /\ UNCHANGED <<daemon, client>>

\* A hello with a version it negotiates and a signature it verifies.
RelayAccepts(c, e, v) ==
  /\ HearsHello(c)
  /\ NegotiateVersion(Advertised, Supported) # {}
  /\ v \in NegotiateVersion(Advertised, Supported) \cup Forced
  /\ relay' = [relay EXCEPT ![c].stage = "accepted", ![c].v2 = IsProtocolV2(v),
                            ![c].up = Tail(@), ![c].down = Append(@, Accepted(e, v))]
  /\ UNCHANGED <<daemon, client>>

\* unsupported_version, or what verifyHello finds.
RelayRejects(c) ==
  /\ HearsHello(c)
  /\ relay' = [relay EXCEPT ![c].up = Tail(@), ![c].down = Append(@, Rejected)]
  /\ UNCHANGED <<daemon, client>>

\* stallHandshake.
RelayStalls(c) ==
  /\ HearsHello(c)
  /\ relay' = [relay EXCEPT ![c].up = Tail(@)]
  /\ UNCHANGED <<daemon, client>>

\* assign, revoke, sendAck, resumeSession and the others, and a frame no relay
\* should send.
RelaySends(c, f) ==
  LET k == relay[c].sent + 1
      good == DecodeInbound("agent", TRUE, relay[c].v2, f.type, f.flaw) = "ok"
  IN /\ client[c].ws = "open" /\ relay[c].stage = "accepted" /\ k <= MaxFrames
     /\ f.type \in IF relay[c].v2 THEN V2Types ELSE V1Types
     /\ relay' = [relay EXCEPT ![c].sent = k, ![c].down = Append(@, Frame(k, f)),
                               ![c].good = IF good THEN @ \cup {k} ELSE @]
     /\ UNCHANGED <<daemon, client>>

Handshake(c) ==
  \/ Dial(c) \/ Opens(c) \/ ConnectFails(c)
  \/ ConnectContinues(c) \/ ChallengeContinues(c)
  \/ HandshakeFails(c) \/ EpochRefused(c) \/ Established(c)

Relay(c) ==
  \/ RelayChallenges(c) \/ RelayRejects(c) \/ RelayStalls(c) \/ RelayHears(c)
  \/ \E f \in Downlink : RelaySends(c, f)
  \/ \E e \in 1 .. MaxEpoch, v \in {ProtocolVersion, Advertised} : RelayAcceptsEarly(c, e, v)
  \/ \E e \in 1 .. MaxEpoch, v \in Version : RelayAccepts(c, e, v)

Next ==
  \/ Exits \/ Stop
  \/ \E c \in Conn : Handshake(c) \/ Receive(c) \/ Oversized(c) \/ WaitTimesOut(c) \/ Closes(c)
                    \/ Beats(c) \/ Relay(c)
  \/ \E c \in Conn, t \in Uplink : SafeSend(c, t)

Spec == Init /\ [][Next]_vars

-----------------------------------------------------------------------------
(* Safety.                                                                 *)

\* What has come to the pump or to the buffer, and what is behind it in the socket.
Arrived(cl) == cl.handled \o Numbers(cl.pending)
Flow(cl, r) == Arrived(cl) \o Numbers(r.down)
InOrder(s) == \A i, j \in 1 .. Len(s) : i < j /\ s[i] # 0 /\ s[j] # 0 => s[i] < s[j]

Kept(cl, r) ==
  /\ InOrder(Flow(cl, r))
  /\ r.good \subseteq Range(Flow(cl, r))
  /\ Range(Arrived(cl)) \subseteq r.good \cup {0}

\* The relay has accepted.  One that accepts early as well, and then forces the newer
\* version on an agent that advertises the older one, is not meant: its first accept
\* has settled how the agent decodes.
Serves(r) == r.stage = "accepted" /\ (r.early => IsProtocolV2(Advertised))

\* client.ts "the relay may send hello.accepted and job.assign in one read": while
\* the socket lives, the frames after the accept are dispatched, buffered or on
\* their way, all of them, once and in order, whatever the handshake has got to.
\* A frame that does not decode costs only itself, but for one over maxPayload: it
\* costs the connection, and all that was sent before it is still handed on.
NoFrameLost ==
  \A c \in Conn : Serves(relay[c]) => Kept(client[c], relay[c])

\* daemon.ts "before auth completes, a live run's frames would be rejected
\* pre-handshake": what the daemon sends decodes at the relay, in the phase and the
\* version the relay is in, unless the relay itself accepted too early.
UplinkDecodes == \A c \in Conn : relay[c].refused => relay[c].early

\* acceptEpoch: no two connections are established with one epoch, the one being
\* served has the newest, only its pump is wired (start() closes the store when
\* there is none), and what a refused connection had buffered reached no handler.
EpochFences ==
  /\ \A c, d \in Conn : client[c].epoch = client[d].epoch /\ client[c].epoch # 0 => c = d
  /\ active # NoConn => client[active].epoch = lastEpoch
  /\ \A c \in Conn : client[c].pump => c = active
  /\ \A c \in Conn : client[c].handled # <<>> => client[c].epoch # 0

-----------------------------------------------------------------------------
(* The inductive invariant: of one connection, and of the daemon.          *)

\* TypeOK, but for the numbers of the frames.
Typed ==
  /\ running \in BOOLEAN /\ lastEpoch \in 0 .. MaxEpoch
  /\ loop \in {"idle", "connect", "challenge", "reply", "serve", "exited"}
  /\ current \in Conn \cup {NoConn} /\ active \in Conn \cup {NoConn}
  /\ DOMAIN client = Conn /\ DOMAIN relay = Conn

LinkTyped(cl, r) ==
  /\ DOMAIN cl = DOMAIN NewClient /\ DOMAIN r = DOMAIN NewRelayEnd
  /\ cl.ws \in Ws /\ cl.got \in Msg /\ cl.pending \in Seq(Msg) /\ cl.epoch \in 0 .. MaxEpoch
  /\ r.down \in Seq(Msg) /\ r.up \in Seq(V2Types) /\ r.sent \in 0 .. MaxFrames

\* An accept comes from a relay that has accepted, and names the version it speaks.
Vouched(r, m) ==
  m.type = "hello.accepted" /\ ~r.early => r.stage = "accepted" /\ r.v2 = IsProtocolV2(m.version)

\* The relay decodes what an established daemon sends.
Listens(r) == r.early \/ (r.stage = "accepted" /\ r.v2 = IsProtocolV2(Advertised))
Speakable(t) == DecodeInbound("server", TRUE, IsProtocolV2(Advertised), t, "none") = "ok"

Link(cl, r) ==
  /\ LinkTyped(cl, r)
  /\ cl.ws = "none" => cl = NewClient
  /\ cl.got # NoMsg => cl.waiting = "none"
  /\ Vouched(r, cl.got)
  /\ \A i \in 1 .. Len(cl.pending) : Vouched(r, cl.pending[i])
  /\ \A i \in 1 .. Len(r.down) : Vouched(r, r.down[i])
  /\ \A i \in 1 .. Len(r.up) : r.up[i] = "hello" \/ (Listens(r) /\ Speakable(r.up[i]))
  /\ r.refused => r.early
  /\ cl.handled # <<>> \/ cl.pump => cl.epoch # 0

\* What loop says of the session's client: nothing is outstanding when it starts to
\* wait, and a connection is served with the newest epoch, by a relay that accepted.
LoopMatchesClient ==
  /\ current = NoConn <=> loop \in {"idle", "exited"}
  /\ active = IF loop = "serve" THEN current ELSE NoConn
  /\ loop \in {"connect", "serve"} =>
       client[current].got = NoMsg /\ client[current].waiting = "none"
  /\ loop = "serve" => client[current].epoch = lastEpoch /\ Listens(relay[current])

\* A connection that no session holds is on its way out, and nothing is in flight.
OthersAreGone ==
  \A c \in Conn : c # current => relay[c] = NewRelayEnd /\ client[c].ws \in {"none", "closing", "closed"}

IInv ==
  /\ Typed /\ LoopMatchesClient /\ OthersAreGone /\ EpochFences
  /\ \A c \in Conn : Link(client[c], relay[c]) /\ client[c].epoch <= lastEpoch

\* What NoFrameLost needs beside IInv, of one connection.

\* A frame in the socket, as the relay numbered and encoded it; in the buffer it is at
\* least no part of the handshake, so no waiter takes it.  What is no frame has no flaw.
Sendable(m) == IF m.n = 0 THEN m.flaw = "none" ELSE m.type \notin HandshakeTypes
Encoded(r, m) ==
  m.n # 0 => /\ m.type \in IF r.v2 THEN V2Types ELSE V1Types
             /\ m.n \in r.good <=> DecodeInbound("agent", TRUE, r.v2, m.type, m.flaw) = "ok"

\* The client decodes at least what the relay's version has.
Understands(cl, r) == cl.authed /\ (r.v2 => cl.v2)

\* Of the messages up to p none is a frame and the last one is the accept, unless the
\* client has had it; behind p there are only frames.
AcceptFirst(cl, r) ==
  \E p \in 0 .. Len(r.down) :
    /\ \A i \in 1 .. Len(r.down) : r.down[i].n = 0 <=> i <= p
    /\ IF p = 0 THEN Understands(cl, r)
       ELSE r.down[p] = Accepted(r.down[p].epoch, r.down[p].version) /\ IsProtocolV2(r.down[p].version) = r.v2

Flowing(cl, r) ==
  /\ cl.handled \in Seq(Nat) /\ r.good \subseteq 1 .. r.sent
  /\ cl.pump => cl.pending = <<>>
  /\ r.stage = "accepted" \/ "hello" \in Range(r.up) => cl.armed
  /\ \A m \in Range(cl.pending) \cup Range(r.down) : Sendable(m)
  /\ \A m \in Range(r.down) : Encoded(r, m)
  /\ r.stage # "accepted" => r.sent = 0
  /\ r.stage = "accepted" \/ cl.ws \in {"none", "connecting", "open"} => Range(Flow(cl, r)) \subseteq 0 .. r.sent
  /\ Serves(r) => AcceptFirst(cl, r) /\ Kept(cl, r)

FramesFlow == \A c \in Conn : Flowing(client[c], relay[c])

-----------------------------------------------------------------------------
(* Liveness: continuations and timers run, a socket that is closing closes *)
(* (ws destroys it after 30 s).  Nothing is asked of the relay, and a dial *)
(* may hang: connect() has no timeout.                                     *)

Fairness ==
  /\ WF_vars(Exits)
  /\ \A c \in Conn :
       /\ WF_vars(ConnectContinues(c)) /\ WF_vars(ChallengeContinues(c))
       /\ WF_vars(HandshakeFails(c) \/ EpochRefused(c) \/ Established(c))
       /\ WF_vars(WaitTimesOut(c))
       /\ WF_vars(client[c].ws = "closing" /\ (Closes(c) \/ ConnectFails(c)))

FairSpec == Spec /\ Fairness

\* stop(): wherever it finds the loop, the daemon gets out of it.
StopEnds == ~running ~> loop = "exited"

\* performHandshake's two timeouts: it never hangs on a silent relay.
HandshakeSettles == loop \in {"challenge", "reply"} ~> loop \notin {"challenge", "reply"}
=============================================================================
