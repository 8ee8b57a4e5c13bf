------------------------- MODULE RelaySessionProofs -------------------------
(***************************************************************************)
(* RelaySession for every set of connections, versions and frames: epochs  *)
(* fence connections, what an established daemon sends decodes, and no     *)
(* frame behind an accept is lost.                                         *)
(***************************************************************************)
EXTENDS RelaySession, TLAPS, WellFoundedInduction, SequenceTheorems

-----------------------------------------------------------------------------
(* Numbers, messages and sequences.                                        *)

LEMMA Least ==
  ASSUME NEW T, T \subseteq Nat, T # {}
  PROVE  \E x \in T : \A y \in T : x <= y
<1> DEFINE R == OpToRel(<, Nat)
<1>1. IsWellFoundedOn(R, Nat)
  BY NatLessThanWellFounded
<1>2. \A x, y \in Nat : y < x => <<y, x>> \in R
  BY DEF OpToRel
<1> HIDE DEF R
<1>3. PICK x \in T : \A y \in T : ~ (<<y, x>> \in R)
  BY <1>1, WFMin
<1>4. \A y \in T : ~(y < x)
  BY <1>2, <1>3
<1>5. \A y \in T : x <= y
  <2> SUFFICES ASSUME NEW y \in T PROVE x <= y
    OBVIOUS
  <2>1. x \in Nat /\ y \in Nat /\ ~(y < x)
    BY <1>4
  <2> QED
    BY <2>1
<1> QED
  BY <1>5

LEMMA Bounds == MaxEpoch \in Nat /\ MaxFrames \in Nat
BY BoundAssumption

LEMMA NoMsgTyped ==
  /\ NoMsg \in Msg /\ NoMsg.type = "none" /\ NoMsg.epoch = 0
  /\ DOMAIN NoMsg = {"type", "flaw", "epoch", "version", "n"}
<1>1. 0 \in 0 .. MaxEpoch /\ 0 \in 0 .. MaxFrames
  BY Bounds
<1> QED
  BY <1>1 DEF NoMsg, Msg, Flaws

LEMMA MessagesTyped ==
  /\ Challenge \in Msg /\ Challenge.type = "auth.challenge"
  /\ Rejected \in Msg /\ Rejected.type = "hello.rejected"
  /\ \A e \in 0 .. MaxEpoch, v \in Version \cup {ProtocolVersion, Advertised} :
       Accepted(e, v) \in Msg /\ Accepted(e, v).type = "hello.accepted" /\ Accepted(e, v).version = v
  /\ \A k \in 0 .. MaxFrames, f \in Downlink :
       Frame(k, f) \in Msg /\ Frame(k, f).type # "hello.accepted"
<1>1. {"auth.challenge", "hello.rejected", "hello.accepted"} \subseteq V2Types
  BY DEF V2Types, V1Types, ToAgent
<1>2. Challenge \in Msg /\ Challenge.type = "auth.challenge"
  BY <1>1, NoMsgTyped DEF Challenge, Msg
<1>3. Rejected \in Msg /\ Rejected.type = "hello.rejected"
  BY <1>1, NoMsgTyped DEF Rejected, Msg
<1>4. ASSUME NEW e \in 0 .. MaxEpoch, NEW v \in Version \cup {ProtocolVersion, Advertised}
      PROVE  Accepted(e, v) \in Msg /\ Accepted(e, v).type = "hello.accepted" /\ Accepted(e, v).version = v
  BY <1>1, NoMsgTyped DEF Accepted, Msg
<1>5. ASSUME NEW k \in 0 .. MaxFrames, NEW f \in Downlink
      PROVE  Frame(k, f) \in Msg /\ Frame(k, f).type # "hello.accepted"
  <2>1. f.type \in V2Types /\ f.flaw \in Flaws /\ f.type # "hello.accepted"
    BY FrameAssumption DEF HandshakeTypes
  <2> QED
    BY <2>1, NoMsgTyped DEF Frame, Msg
<1> QED
  BY <1>2, <1>3, <1>4, <1>5

\* Taking one element out of a sequence leaves the others.
LEMMA TakenOut ==
  ASSUME NEW S, NEW s \in Seq(S), NEW k \in 1 .. Len(s)
  PROVE  LET q == SubSeq(s, 1, k - 1) \o SubSeq(s, k + 1, Len(s))
         IN /\ q \in Seq(S)
            /\ \A i \in 1 .. Len(q) : \E j \in 1 .. Len(s) : q[i] = s[j]
<1> DEFINE a == SubSeq(s, 1, k - 1)
           b == SubSeq(s, k + 1, Len(s))
           q == a \o b
<1>1. a \in Seq(S) /\ Len(a) = k - 1 /\ \A i \in 1 .. k - 1 : a[i] = s[i]
  OBVIOUS
<1>2. b \in Seq(S) /\ Len(b) = Len(s) - k /\ \A i \in 1 .. Len(s) - k : b[i] = s[i + k]
  OBVIOUS
<1> HIDE DEF a, b
<1>3. q \in Seq(S) /\ Len(q) = Len(s) - 1
  <2>1. q \in Seq(S) /\ Len(q) = Len(a) + Len(b)
    <3>1. a \in Seq(S) /\ b \in Seq(S)
      BY <1>1, <1>2
    <3> QED
      BY <3>1
  <2>2. Len(s) \in Nat /\ (k - 1) + (Len(s) - k) = Len(s) - 1
    OBVIOUS
  <2> QED
    BY <1>1, <1>2, <2>1, <2>2
<1>4. ASSUME NEW i \in 1 .. Len(q)
      PROVE  \E j \in 1 .. Len(s) : q[i] = s[j]
  <2>1. CASE i <= k - 1
    <3>1. q[i] = s[i] /\ i \in 1 .. Len(s)
      BY <1>1, <1>2, <1>3, <2>1
    <3> QED
      BY <3>1
  <2>2. CASE i > k - 1
    <3>1. q[i] = b[i - (k - 1)] /\ i - (k - 1) \in 1 .. Len(s) - k
      BY <1>1, <1>2, <1>3, <2>2
    <3>2. q[i] = s[i + 1] /\ i + 1 \in 1 .. Len(s)
      <4>1. (i - (k - 1)) + k = i + 1 /\ i + 1 \in 1 .. Len(s)
        BY <1>3
      <4>2. b[i - (k - 1)] = s[(i - (k - 1)) + k]
        BY <1>2, <3>1
      <4> QED
        BY <3>1, <4>1, <4>2
    <3> QED
      BY <3>2
  <2> QED
    BY <2>1, <2>2
<1> QED
  BY <1>3, <1>4 DEF a, b

-----------------------------------------------------------------------------
(* The client's part of a connection.                                      *)

LEMMA Shapes ==
  /\ DOMAIN NewClient = {"ws", "authed", "v2", "armed", "pending", "waiting", "got", "pump",
                         "handled", "epoch"}
  /\ DOMAIN NewRelayEnd = {"stage", "early", "v2", "sent", "good", "refused", "down", "up"}
  /\ NewClient.ws = "none" /\ NewClient.got = NoMsg /\ NewClient.waiting = "none"
  /\ NewClient.pending = <<>> /\ NewClient.handled = <<>> /\ ~NewClient.pump /\ NewClient.epoch = 0
  /\ NewRelayEnd.stage = "none" /\ ~NewRelayEnd.early /\ ~NewRelayEnd.refused
  /\ NewRelayEnd.down = <<>> /\ NewRelayEnd.up = <<>> /\ NewRelayEnd.sent = 0
BY DEF NewClient, NewRelayEnd

\* The client's fields that decide whether a connection is in order.
Same(q, cl) == q.ws = cl.ws /\ q.epoch = cl.epoch /\ q.pump = cl.pump

LEMMA NewLink == Link(NewClient, NewRelayEnd)
<1>1. /\ 0 \in 0 .. MaxEpoch /\ 0 \in 0 .. MaxFrames
      /\ <<>> \in Seq(Msg) /\ <<>> \in Seq(V2Types)
  BY Bounds
<1>2. LinkTyped(NewClient, NewRelayEnd)
  BY <1>1, Shapes, NoMsgTyped DEF LinkTyped, Ws
<1> QED
  BY <1>2, Shapes, NoMsgTyped DEF Link, Vouched

LEMMA WaitForOK ==
  ASSUME NEW cl, NEW r, Link(cl, r), cl.got = NoMsg, cl.waiting = "none", cl.ws # "none",
         NEW w \in {"challenge", "reply"}
  PROVE  Link(WaitFor(cl, w), r) /\ Same(WaitFor(cl, w), cl)
<1> DEFINE hits == {i \in 1 .. Len(cl.pending) : Awaited(w, cl.pending[i])}
           first == CHOOSE i \in hits : \A j \in hits : i <= j
<1>1. LinkTyped(cl, r) /\ cl.pending \in Seq(Msg)
  BY DEF Link, LinkTyped
<1>2. CASE hits = {}
  <2> DEFINE q == [cl EXCEPT !.waiting = w]
  <2>1. WaitFor(cl, w) = q
    BY <1>2 DEF WaitFor
  <2>2. /\ DOMAIN q = DOMAIN cl /\ q.waiting = w
        /\ \A f \in DOMAIN cl \ {"waiting"} : q[f] = cl[f]
    BY <1>1, Shapes DEF LinkTyped
  <2> HIDE DEF q
  <2>3. LinkTyped(q, r)
    BY <1>1, <2>2, Shapes DEF LinkTyped
  <2> QED
    BY ZenonT(60), <1>1, <2>1, <2>2, <2>3, Shapes DEF Link, LinkTyped, Same
<1>3. CASE hits # {}
  <2>1. hits \subseteq Nat
    BY <1>1
  <2>2. first \in hits
    BY <1>3, <2>1, Least
  <2> HIDE DEF first
  <2>3. first \in 1 .. Len(cl.pending)
    BY <2>2
  <2> DEFINE rest == SubSeq(cl.pending, 1, first - 1) \o SubSeq(cl.pending, first + 1, Len(cl.pending))
             q == [cl EXCEPT !.got = cl.pending[first], !.pending = rest]
  <2>4. WaitFor(cl, w) = q
    BY <1>1, <1>3, Shapes DEF WaitFor, LinkTyped, first
  <2>5. rest \in Seq(Msg) /\ \A i \in 1 .. Len(rest) : \E j \in 1 .. Len(cl.pending) : rest[i] = cl.pending[j]
    BY <1>1, <2>3, TakenOut
  <2> HIDE DEF rest
  <2>6. /\ DOMAIN q = DOMAIN cl /\ q.got = cl.pending[first] /\ q.pending = rest
        /\ \A f \in DOMAIN cl \ {"got", "pending"} : q[f] = cl[f]
    BY <1>1, Shapes DEF LinkTyped
  <2> HIDE DEF q
  <2>7. cl.pending[first] \in Msg
    BY <1>1, <2>3
  <2>8. LinkTyped(q, r)
    BY <1>1, <2>5, <2>6, <2>7, Shapes DEF LinkTyped
  <2>9. \A i \in 1 .. Len(q.pending) : Vouched(r, q.pending[i])
    BY <2>5, <2>6 DEF Link
  <2>10. Vouched(r, q.got)
    BY <2>3, <2>6 DEF Link
  <2> QED
    BY <1>1, <2>4, <2>6, <2>8, <2>9, <2>10, Shapes DEF Link, LinkTyped, Same
<1> QED
  BY <1>2, <1>3

\* A message is delivered to the waiter, to the pump, or to the buffer.
LEMMA DeliverOK ==
  ASSUME NEW cl, NEW r, Link(cl, r), cl.ws # "none", NEW m \in Msg, Vouched(r, m)
  PROVE  /\ Link(Deliver(cl, m), r) /\ Same(Deliver(cl, m), cl)
         /\ cl.waiting = "none" =>
              Deliver(cl, m).waiting = "none" /\ Deliver(cl, m).got = cl.got
<1>1. LinkTyped(cl, r) /\ cl.pending \in Seq(Msg)
  BY DEF Link, LinkTyped
<1>2. CASE Awaited(cl.waiting, m)
  <2> DEFINE q == [cl EXCEPT !.waiting = "none", !.got = m]
  <2>1. Deliver(cl, m) = q /\ cl.waiting # "none"
    BY <1>2 DEF Deliver, Awaited
  <2>2. /\ DOMAIN q = DOMAIN cl /\ q.waiting = "none" /\ q.got = m
        /\ \A f \in DOMAIN cl \ {"waiting", "got"} : q[f] = cl[f]
    BY <1>1, Shapes DEF LinkTyped
  <2> HIDE DEF q
  <2>3. LinkTyped(q, r)
    BY <1>1, <2>2, Shapes DEF LinkTyped
  <2> QED
    BY ZenonT(60), <1>1, <2>1, <2>2, <2>3, Shapes DEF Link, LinkTyped, Same
<1>3. CASE ~Awaited(cl.waiting, m) /\ cl.pump
  <2> DEFINE more == Append(cl.handled, m.n)
             q == [cl EXCEPT !.handled = more]
  <2>1. Deliver(cl, m) = q
    BY <1>3, <1>1, Shapes DEF Deliver, LinkTyped
  <2>2. /\ DOMAIN q = DOMAIN cl
        /\ \A f \in DOMAIN cl \ {"handled"} : q[f] = cl[f]
    BY <1>1, Shapes DEF LinkTyped
  <2> HIDE DEF q
  <2>3. LinkTyped(q, r)
    BY <1>1, <2>2, Shapes DEF LinkTyped
  <2> QED
    BY <1>1, <1>3, <2>1, <2>2, <2>3, Shapes DEF Link, LinkTyped, Same
<1>4. CASE ~Awaited(cl.waiting, m) /\ ~cl.pump
  <2> DEFINE more == Append(cl.pending, m)
             q == [cl EXCEPT !.pending = more]
  <2>1. Deliver(cl, m) = q
    BY <1>4, <1>1, Shapes DEF Deliver, LinkTyped
  <2>2. more \in Seq(Msg) /\ \A i \in 1 .. Len(more) : more[i] = m \/ \E j \in 1 .. Len(cl.pending) : more[i] = cl.pending[j]
    BY <1>1
  <2> HIDE DEF more
  <2>3. /\ DOMAIN q = DOMAIN cl /\ q.pending = more
        /\ \A f \in DOMAIN cl \ {"pending"} : q[f] = cl[f]
    BY <1>1, Shapes DEF LinkTyped
  <2> HIDE DEF q
  <2>4. LinkTyped(q, r)
    BY <1>1, <2>2, <2>3, Shapes DEF LinkTyped
  <2>5. \A i \in 1 .. Len(q.pending) : Vouched(r, q.pending[i])
    BY <2>2, <2>3 DEF Link
  <2> QED
    BY <1>1, <1>4, <2>1, <2>3, <2>4, <2>5, Shapes DEF Link, LinkTyped, Same
<1> QED
  BY <1>2, <1>3, <1>4

LEMMA OnMessageOK ==
  ASSUME NEW cl, NEW r, Link(cl, r), cl.ws # "none", NEW m \in Msg, Vouched(r, m)
  PROVE  /\ Link(OnMessage(cl, m), r) /\ Same(OnMessage(cl, m), cl)
         /\ cl.waiting = "none" =>
              OnMessage(cl, m).waiting = "none" /\ OnMessage(cl, m).got = cl.got
<1> DEFINE d == [cl EXCEPT !.v2 = IsProtocolV2(m.version), !.authed = TRUE]
<1>1. LinkTyped(cl, r)
  BY DEF Link
<1>2. DOMAIN d = DOMAIN cl /\ \A f \in DOMAIN cl \ {"v2", "authed"} : d[f] = cl[f]
  BY <1>1, Shapes DEF LinkTyped
<1>3. OnMessage(cl, m) = cl \/ OnMessage(cl, m) = Deliver(d, m) \/ OnMessage(cl, m) = Deliver(cl, m)
  BY DEF OnMessage
<1> HIDE DEF d
<1>4. LinkTyped(d, r)
  BY <1>1, <1>2, Shapes DEF LinkTyped
<1>5. Link(d, r) /\ Same(d, cl) /\ d.waiting = cl.waiting /\ d.got = cl.got
  BY <1>1, <1>2, <1>4, Shapes DEF Link, LinkTyped, Same
<1>6. CASE OnMessage(cl, m) = cl
  BY <1>6 DEF Same
<1>7. CASE OnMessage(cl, m) = Deliver(d, m)
  <2>1. d.ws # "none"
    BY <1>5 DEF Same
  <2>2. /\ Link(Deliver(d, m), r) /\ Same(Deliver(d, m), d)
        /\ d.waiting = "none" => Deliver(d, m).waiting = "none" /\ Deliver(d, m).got = d.got
    BY <1>5, <2>1, DeliverOK
  <2> QED
    BY <1>5, <1>7, <2>2 DEF Same
<1>8. CASE OnMessage(cl, m) = Deliver(cl, m)
  BY <1>8, DeliverOK
<1> QED
  BY <1>3, <1>6, <1>7, <1>8

-----------------------------------------------------------------------------
(* The daemon's part.                                                      *)

\* Connection c becomes cl and r; the others stay.
Becomes(c, cl, r) ==
  /\ DOMAIN client' = DOMAIN client /\ DOMAIN relay' = DOMAIN relay
  /\ client'[c] = cl /\ relay'[c] = r
  /\ \A d \in Conn \ {c} : client'[d] = client[d] /\ relay'[d] = relay[d]

\* Connection c takes a step, and the daemon with it.
LEMMA LinkStep ==
  ASSUME IInv, Typed', LoopMatchesClient', NEW c \in Conn, NEW cl, NEW r, Becomes(c, cl, r), Link(cl, r),
         \/ current' = current /\ active' = active
         \/ current \in {c, NoConn} /\ active \in {c, NoConn},
         c # current' => r = NewRelayEnd /\ cl.ws \in {"none", "closing", "closed"},
         cl.pump => c = active',
         \/ cl.epoch = client[c].epoch /\ lastEpoch' = lastEpoch
         \/ cl.epoch = lastEpoch' /\ lastEpoch < lastEpoch'
  PROVE  IInv'
<1>1. /\ DOMAIN client = Conn /\ DOMAIN relay = Conn /\ lastEpoch \in Nat /\ lastEpoch' \in Nat
      /\ \A d \in Conn : client[d].epoch \in Nat /\ client[d].epoch <= lastEpoch
  BY Bounds DEF IInv, Typed, Link, LinkTyped
<1>2. /\ client'[c] = cl /\ relay'[c] = r
      /\ \A d \in Conn \ {c} : client'[d] = client[d] /\ relay'[d] = relay[d]
  BY DEF Becomes
<1>3. \A d \in Conn : Link(client'[d], relay'[d])
  BY <1>2 DEF IInv
<1>4. cl.epoch \in Nat
  BY Bounds DEF Link, LinkTyped
<1>5. \A d \in Conn : client'[d].epoch <= lastEpoch'
  <2> SUFFICES ASSUME NEW d \in Conn PROVE client'[d].epoch <= lastEpoch'
    OBVIOUS
  <2>1. CASE d = c
    BY <1>1, <1>2, <1>4, <2>1
  <2>2. CASE d # c
    BY <1>1, <1>2, <2>2
  <2> QED
    BY <2>1, <2>2
<1>6. OthersAreGone'
  <2> SUFFICES ASSUME NEW d \in Conn, d # current'
               PROVE  relay'[d] = NewRelayEnd /\ client'[d].ws \in {"none", "closing", "closed"}
    BY DEF OthersAreGone
  <2>1. CASE d = c
    BY <1>2, <2>1
  <2>2. CASE d # c
    <3>1. d # current
      BY <2>2, ConnAssumption
    <3> QED
      BY <1>2, <2>2, <3>1 DEF IInv, OthersAreGone
  <2> QED
    BY <2>1, <2>2
<1>7. EpochFences'
  <2>1. ASSUME NEW x \in Conn, NEW y \in Conn, client'[x].epoch = client'[y].epoch, client'[x].epoch # 0
        PROVE  x = y
    <3>1. \A d, e \in Conn : client[d].epoch = client[e].epoch /\ client[d].epoch # 0 => d = e
      BY DEF IInv, EpochFences
    <3>2. CASE cl.epoch = client[c].epoch /\ lastEpoch' = lastEpoch
      <4>1. client'[x].epoch = client[x].epoch /\ client'[y].epoch = client[y].epoch
        BY <1>2, <3>2
      <4> QED
        BY <2>1, <3>1, <4>1
    <3>3. CASE cl.epoch = lastEpoch' /\ lastEpoch < lastEpoch'
      <4>1. \A d \in Conn \ {c} : client'[d].epoch # cl.epoch
        BY <1>1, <1>2, <3>3
      <4> QED
        BY <1>2, <2>1, <3>1, <4>1
    <3> QED
      BY <3>2, <3>3
  <2>2. active' # NoConn => client'[active'].epoch = lastEpoch'
    BY DEF LoopMatchesClient
  <2>3. ASSUME NEW d \in Conn, client'[d].pump
        PROVE  d = active'
    <3>1. CASE d = c
      BY <1>2, <2>3, <3>1
    <3>2. CASE d # c
      <4>1. d = active
        BY <1>2, <2>3, <3>2 DEF IInv, EpochFences
      <4> QED
        BY <3>2, <4>1, ConnAssumption
    <3> QED
      BY <3>1, <3>2
  <2>4. \A d \in Conn : client'[d].handled # <<>> => client'[d].epoch # 0
    BY <1>3 DEF Link
  <2> QED
    BY <2>1, <2>2, <2>3, <2>4 DEF EpochFences
<1> QED
  BY <1>3, <1>5, <1>6, <1>7 DEF IInv

\* The same, where the daemon and the epochs stay.
LEMMA QuietStep ==
  ASSUME IInv, NEW c \in Conn, NEW cl, NEW r, Becomes(c, cl, r), Link(cl, r),
         running' \in BOOLEAN, UNCHANGED <<loop, current, active, lastEpoch>>,
         c # current => r = NewRelayEnd /\ cl.ws \in {"none", "closing", "closed"},
         cl.pump => client[c].pump, cl.epoch = client[c].epoch,
         c = current /\ loop \in {"connect", "serve"} => cl.got = NoMsg /\ cl.waiting = "none",
         c = current /\ loop = "serve" => Listens(r)
  PROVE  IInv'
<1>1. Typed'
  BY DEF IInv, Typed, Becomes
<1>2. /\ client'[c] = cl /\ relay'[c] = r
      /\ \A d \in Conn \ {c} : client'[d] = client[d] /\ relay'[d] = relay[d]
  BY DEF Becomes
<1>3. LoopMatchesClient'
  <2>1. LoopMatchesClient /\ current \in Conn \cup {NoConn}
    BY DEF IInv, Typed
  <2>2. (current' = NoConn <=> loop' \in {"idle", "exited"}) /\ active' = IF loop' = "serve" THEN current' ELSE NoConn
    BY <2>1 DEF LoopMatchesClient
  <2>3. CASE current = c
    BY <1>2, <2>1, <2>2, <2>3 DEF LoopMatchesClient
  <2>4. CASE current # c
    <3>1. loop \in {"connect", "serve"} => current \in Conn \ {c}
      BY <2>1, <2>4 DEF LoopMatchesClient
    <3> QED
      BY <1>2, <2>1, <2>2, <2>4, <3>1 DEF LoopMatchesClient
  <2> QED
    BY <2>3, <2>4
<1>4. cl.pump => c = active'
  BY DEF IInv, EpochFences
<1> QED
  BY <1>1, <1>3, <1>4, LinkStep

\* The end of a session: nothing is left of it but its place in history.
LEMMA EndsOK ==
  ASSUME IInv, NEW c \in Conn, c = current, NEW cl, EndSession(c, cl), running' \in BOOLEAN,
         DOMAIN cl = DOMAIN NewClient, cl.ws \in Ws \ {"none"}, cl.epoch \in 0 .. MaxEpoch,
         cl.handled # <<>> => cl.epoch # 0, ~cl.pump \/ cl.ws = "closed",
         lastEpoch' \in 0 .. MaxEpoch,
         \/ cl.epoch = client[c].epoch /\ lastEpoch' = lastEpoch
         \/ cl.epoch = lastEpoch' /\ lastEpoch < lastEpoch'
  PROVE  IInv'
<1> DEFINE d == Dropped(cl)
           q == Closing(d)
<1>1. /\ client' = [client EXCEPT ![c] = q] /\ relay' = [relay EXCEPT ![c] = NewRelayEnd]
      /\ loop' = "idle" /\ current' = NoConn /\ active' = IF active = c THEN NoConn ELSE active
  BY DEF EndSession
<1>2. /\ DOMAIN d = DOMAIN NewClient /\ d.ws = cl.ws /\ d.epoch = cl.epoch /\ d.handled = cl.handled
      /\ ~d.pump /\ d.got = NoMsg /\ d.waiting = "none" /\ d.pending = <<>>
  BY Shapes DEF Dropped
<1> HIDE DEF d
<1>3. /\ DOMAIN q = DOMAIN NewClient /\ q.ws \in {"closing", "closed"} /\ q.epoch = cl.epoch
      /\ q.handled = cl.handled /\ ~q.pump /\ q.got = NoMsg /\ q.waiting = "none" /\ q.pending = <<>>
  BY <1>2, Shapes DEF Closing, Ws
<1> HIDE DEF q
<1>4. <<>> \in Seq(Msg) /\ <<>> \in Seq(V2Types) /\ 0 \in 0 .. MaxFrames
  BY Bounds
<1>5. LinkTyped(q, NewRelayEnd)
  BY <1>3, <1>4, Shapes, NoMsgTyped DEF LinkTyped, Ws
<1>6. Link(q, NewRelayEnd)
  BY <1>3, <1>5, Shapes, NoMsgTyped DEF Link, Vouched
<1>7. /\ active \in {c, NoConn} /\ current \in {c, NoConn} /\ active' = NoConn
  BY <1>1 DEF IInv, LoopMatchesClient
<1>8. Typed' /\ Becomes(c, q, NewRelayEnd)
  BY <1>1, <1>7 DEF IInv, Typed, Becomes
<1>9. LoopMatchesClient'
  BY <1>1, <1>7 DEF LoopMatchesClient
<1> QED
  BY <1>1, <1>3, <1>6, <1>7, <1>8, <1>9, LinkStep

LEMMA InitInOrder == Init => IInv
<1> SUFFICES ASSUME Init PROVE IInv
  OBVIOUS
<1>1. Typed
  BY Bounds DEF Init, Typed
<1>2. LoopMatchesClient
  BY DEF Init, LoopMatchesClient
<1>3. \A c \in Conn : client[c] = NewClient /\ relay[c] = NewRelayEnd
  BY DEF Init
<1>4. OthersAreGone /\ EpochFences
  BY <1>3, Shapes DEF OthersAreGone, EpochFences, Init
<1>5. \A c \in Conn : Link(client[c], relay[c]) /\ client[c].epoch <= lastEpoch
  BY <1>3, Shapes, NewLink DEF Init
<1> QED
  BY <1>1, <1>2, <1>4, <1>5 DEF IInv

-----------------------------------------------------------------------------
(* The relay's steps.                                                      *)

\* What the relay's end may become: its vouching stays, and so does what it hears.
LEMMA RelayLink ==
  ASSUME NEW cl, NEW r, Link(cl, r), NEW q, DOMAIN q = DOMAIN r,
         r.early => q.early, r.stage = "accepted" => q.stage = "accepted" /\ q.v2 = r.v2,
         q.down \in Seq(Msg), q.up \in Seq(V2Types), q.sent \in 0 .. MaxFrames, q.refused => r.refused \/ q.early,
         \A i \in 1 .. Len(q.down) :
           Vouched(q, q.down[i]) \/ \E j \in 1 .. Len(r.down) : q.down[i] = r.down[j],
         \A i \in 1 .. Len(q.up) :
           \/ q.up[i] = "hello" \/ (Listens(q) /\ Speakable(q.up[i]))
           \/ \E j \in 1 .. Len(r.up) : q.up[i] = r.up[j],
         cl.ws = "none" => q = r
  PROVE  Link(cl, q) /\ (Listens(r) => Listens(q))
<1>1. LinkTyped(cl, q)
  BY DEF Link, LinkTyped
<1>2. \A m : Vouched(r, m) => Vouched(q, m)
  BY DEF Vouched
<1>3. Listens(r) => Listens(q)
  BY DEF Listens
<1>4. Vouched(q, cl.got) /\ \A i \in 1 .. Len(cl.pending) : Vouched(q, cl.pending[i])
  BY <1>2 DEF Link
<1>5. \A i \in 1 .. Len(q.down) : Vouched(q, q.down[i])
  BY <1>2 DEF Link
<1>6. \A i \in 1 .. Len(q.up) : q.up[i] = "hello" \/ (Listens(q) /\ Speakable(q.up[i]))
  BY <1>3 DEF Link
<1> QED
  BY <1>1, <1>3, <1>4, <1>5, <1>6 DEF Link

LEMMA QueueFacts ==
  ASSUME NEW S, NEW s \in Seq(S)
  PROVE  /\ \A x \in S : /\ Append(s, x) \in Seq(S)
                         /\ \A i \in 1 .. Len(Append(s, x)) :
                              Append(s, x)[i] = x \/ \E j \in 1 .. Len(s) : Append(s, x)[i] = s[j]
         /\ s # <<>> => /\ Head(s) \in S /\ Head(s) = s[1] /\ 1 \in 1 .. Len(s) /\ Tail(s) \in Seq(S)
                        /\ \A i \in 1 .. Len(Tail(s)) : \E j \in 1 .. Len(s) : Tail(s)[i] = s[j]
<1>1. ASSUME NEW x \in S
      PROVE  /\ Append(s, x) \in Seq(S)
             /\ \A i \in 1 .. Len(Append(s, x)) :
                  Append(s, x)[i] = x \/ \E j \in 1 .. Len(s) : Append(s, x)[i] = s[j]
  OBVIOUS
<1>2. ASSUME s # <<>>
      PROVE  /\ Head(s) \in S /\ Head(s) = s[1] /\ 1 \in 1 .. Len(s) /\ Tail(s) \in Seq(S)
             /\ \A i \in 1 .. Len(Tail(s)) : \E j \in 1 .. Len(s) : Tail(s)[i] = s[j]
  <2>1. Head(s) \in S /\ Head(s) = s[1] /\ 1 \in 1 .. Len(s) /\ Tail(s) \in Seq(S)
    BY <1>2
  <2>2. ASSUME NEW i \in 1 .. Len(Tail(s))
        PROVE  \E j \in 1 .. Len(s) : Tail(s)[i] = s[j]
    <3>1. Tail(s)[i] = s[i + 1] /\ i + 1 \in 1 .. Len(s)
      BY <1>2
    <3> QED
      BY <3>1
  <2> QED
    BY <2>1, <2>2
<1> QED
  BY <1>1, <1>2

\* What the daemon may say is heard by a relay that speaks its version.
LEMMA SpeakableTypes ==
  /\ \A t \in Uplink \cup {"heartbeat", "agent.draining"} : t \in V2Types /\ Speakable(t)
  /\ "hello" \in V2Types
<1>1. ASSUME NEW t \in Uplink
      PROVE  t \in V2Types /\ Speakable(t)
  <2>1. /\ t \in IF IsProtocolV2(Advertised) THEN V2Types ELSE V1Types
        /\ Direction(t) \in {"both", "a2s"}
    BY FrameAssumption DEF Direction
  <2> QED
    BY <2>1 DEF Speakable, DecodeInbound, ValidateInbound, V2Types
<1>2. ASSUME NEW t \in {"heartbeat", "agent.draining"}
      PROVE  t \in V2Types /\ Speakable(t)
  <2>1. t \in V1Types /\ t \in V2Types
    BY DEF V1Types, V2Types, EitherWay, ToServer
  <2>2. Direction(t) \in {"both", "a2s"}
    BY DEF Direction, EitherWay, ToAgent, SessionToAgent
  <2> QED
    BY <2>1, <2>2 DEF Speakable, DecodeInbound, ValidateInbound
<1>3. "hello" \in V2Types
  BY DEF V2Types, V1Types, ToServer
<1> QED
  BY <1>1, <1>2, <1>3

\* Only a session's connection has frames in flight, or an open socket.
LEMMA Current ==
  ASSUME IInv, NEW c \in Conn,
         client[c].ws \in {"open", "connecting"} \/ relay[c].down # <<>> \/ relay[c].up # <<>>
  PROVE  c = current
BY Shapes DEF IInv, OthersAreGone

LEMMA LinkFacts ==
  ASSUME IInv, NEW c \in Conn
  PROVE  /\ Link(client[c], relay[c]) /\ LinkTyped(client[c], relay[c])
         /\ DOMAIN client[c] = {"ws", "authed", "v2", "armed", "pending", "waiting", "got", "pump",
                                "handled", "epoch"}
         /\ DOMAIN relay[c] = {"stage", "early", "v2", "sent", "good", "refused", "down", "up"}
         /\ relay[c].down \in Seq(Msg) /\ relay[c].up \in Seq(V2Types) /\ relay[c].sent \in 0 .. MaxFrames
         /\ DOMAIN client = Conn /\ DOMAIN relay = Conn /\ running \in BOOLEAN
BY Shapes DEF IInv, Typed, Link, LinkTyped

\* The relay's end of the session's connection becomes q.
LEMMA RelayMoves ==
  ASSUME IInv, NEW c \in Conn, c = current, client[c].ws # "none", NEW q,
         relay' = [relay EXCEPT ![c] = q], UNCHANGED <<daemon, client>>,
         DOMAIN q = DOMAIN relay[c], relay[c].early => q.early,
         relay[c].stage = "accepted" => q.stage = "accepted" /\ q.v2 = relay[c].v2,
         q.down \in Seq(Msg), q.up \in Seq(V2Types), q.sent \in 0 .. MaxFrames, q.refused => relay[c].refused \/ q.early,
         \A i \in 1 .. Len(q.down) :
           Vouched(q, q.down[i]) \/ \E j \in 1 .. Len(relay[c].down) : q.down[i] = relay[c].down[j],
         \A i \in 1 .. Len(q.up) :
           \/ q.up[i] = "hello" \/ (Listens(q) /\ Speakable(q.up[i]))
           \/ \E j \in 1 .. Len(relay[c].up) : q.up[i] = relay[c].up[j]
  PROVE  IInv'
<1>1. Link(client[c], q) /\ (Listens(relay[c]) => Listens(q))
  BY LinkFacts, RelayLink
<1>2. Becomes(c, client[c], q)
  BY DEF IInv, Typed, Becomes
<1>3. loop \in {"connect", "serve"} => client[c].got = NoMsg /\ client[c].waiting = "none"
  BY DEF IInv, LoopMatchesClient
<1>4. loop = "serve" => Listens(q)
  BY <1>1 DEF IInv, LoopMatchesClient
<1>5. running' \in BOOLEAN /\ UNCHANGED <<loop, current, active, lastEpoch>>
  BY DEF IInv, Typed, daemon
<1> QED
  BY <1>1, <1>2, <1>3, <1>4, <1>5, QuietStep

\* One frame more to the agent.
LEMMA DownStep ==
  ASSUME IInv, NEW c \in Conn, client[c].ws = "open", NEW q, NEW m \in Msg,
         relay' = [relay EXCEPT ![c] = q], UNCHANGED <<daemon, client>>,
         DOMAIN q = DOMAIN relay[c], relay[c].early => q.early,
         relay[c].stage = "accepted" => q.stage = "accepted" /\ q.v2 = relay[c].v2,
         q.down = Append(relay[c].down, m), Vouched(q, m), q.refused = relay[c].refused,
         q.sent \in 0 .. MaxFrames,
         q.up = relay[c].up \/ (relay[c].up # <<>> /\ q.up = Tail(relay[c].up))
  PROVE  IInv'
<1>1. c = current
  BY Current
<1>2. relay[c].down \in Seq(Msg) /\ relay[c].up \in Seq(V2Types)
  BY LinkFacts
<1>3. /\ q.down \in Seq(Msg)
      /\ \A i \in 1 .. Len(q.down) :
           Vouched(q, q.down[i]) \/ \E j \in 1 .. Len(relay[c].down) : q.down[i] = relay[c].down[j]
  BY <1>2, QueueFacts
<1>4. q.up \in Seq(V2Types) /\ \A i \in 1 .. Len(q.up) : \E j \in 1 .. Len(relay[c].up) : q.up[i] = relay[c].up[j]
  <2>1. CASE q.up = relay[c].up
    BY <1>2, <2>1
  <2>2. CASE relay[c].up # <<>> /\ q.up = Tail(relay[c].up)
    BY <1>2, <2>2, QueueFacts
  <2> QED
    BY <2>1, <2>2
<1> QED
  BY <1>1, <1>3, <1>4, RelayMoves

LEMMA RelayOK ==
  ASSUME IInv, NEW c \in Conn, Relay(c)
  PROVE  IInv'
<1> DEFINE r == relay[c]
<1>0. /\ DOMAIN r = {"stage", "early", "v2", "sent", "good", "refused", "down", "up"}
      /\ r.down \in Seq(Msg) /\ r.up \in Seq(V2Types) /\ r.sent \in 0 .. MaxFrames
      /\ DOMAIN relay = Conn
  BY LinkFacts
<1>1. CASE RelayChallenges(c)
  <2> DEFINE q == [r EXCEPT !.stage = "challenged", !.down = Append(@, Challenge)]
  <2>1. relay' = [relay EXCEPT ![c] = q] /\ UNCHANGED <<daemon, client>> /\ client[c].ws = "open"
        /\ r.stage = "none"
    BY <1>0, <1>1 DEF RelayChallenges
  <2>2. /\ DOMAIN q = DOMAIN r /\ q.down = Append(r.down, Challenge)
        /\ q.early = r.early /\ q.refused = r.refused /\ q.up = r.up /\ q.sent = r.sent
    BY <1>0
  <2>3. Challenge \in Msg /\ Vouched(q, Challenge)
    BY MessagesTyped DEF Vouched
  <2> HIDE DEF q
  <2> QED
    BY <1>0, <2>1, <2>2, <2>3, DownStep
<1>2. CASE RelayRejects(c)
  <2> DEFINE q == [r EXCEPT !.up = Tail(@), !.down = Append(@, Rejected)]
  <2>1. relay' = [relay EXCEPT ![c] = q] /\ UNCHANGED <<daemon, client>> /\ client[c].ws = "open"
        /\ r.up # <<>>
    BY <1>0, <1>2 DEF RelayRejects, HearsHello, Hears
  <2>2. /\ DOMAIN q = DOMAIN r /\ q.down = Append(r.down, Rejected) /\ q.stage = r.stage /\ q.v2 = r.v2
        /\ q.early = r.early /\ q.refused = r.refused /\ q.up = Tail(r.up) /\ q.sent = r.sent
    BY <1>0
  <2>3. Rejected \in Msg /\ Vouched(q, Rejected)
    BY MessagesTyped DEF Vouched
  <2> HIDE DEF q
  <2> QED
    BY <1>0, <2>1, <2>2, <2>3, DownStep
<1>3. CASE RelayStalls(c) \/ RelayHears(c)
  <2> DEFINE w == IF RelayHears(c) THEN [r EXCEPT !.up = Tail(@), !.refused = @ \/ ~RelayDecodes(c)]
                  ELSE [r EXCEPT !.up = Tail(@)]
  <2>1. relay' = [relay EXCEPT ![c] = w] /\ UNCHANGED <<daemon, client>> /\ r.up # <<>>
        /\ client[c].ws # "none"
    BY <1>0, <1>3 DEF RelayStalls, RelayHears, HearsHello, Hears
  <2>2. /\ DOMAIN w = DOMAIN r /\ w.down = r.down /\ w.stage = r.stage /\ w.v2 = r.v2
        /\ w.early = r.early /\ w.up = Tail(r.up) /\ w.sent = r.sent
        /\ w.refused => r.refused \/ (RelayHears(c) /\ ~RelayDecodes(c))
    BY <1>0
  <2> HIDE DEF w
  <2>3. RelayHears(c) /\ ~RelayDecodes(c) => r.early
    <3> SUFFICES ASSUME RelayHears(c), ~RelayDecodes(c) PROVE r.early
      OBVIOUS
    <3>1. Head(r.up) = r.up[1] /\ 1 \in 1 .. Len(r.up) /\ Head(r.up) # "hello"
      BY <1>0, <2>1, QueueFacts DEF RelayHears
    <3>2. Listens(r) /\ Speakable(Head(r.up))
      BY <3>1, LinkFacts DEF Link
    <3> QED
      BY <3>2 DEF Listens, Speakable, RelayDecodes
  <2>4. c = current
    BY <2>1, Current
  <2>5. /\ w.up \in Seq(V2Types)
        /\ \A i \in 1 .. Len(w.up) : \E j \in 1 .. Len(r.up) : w.up[i] = r.up[j]
    BY <1>0, <2>1, <2>2, QueueFacts
  <2> QED
    BY ZenonT(60), <1>0, <2>1, <2>2, <2>3, <2>4, <2>5, RelayMoves
<1>4. CASE \E f \in Downlink : RelaySends(c, f)
  <2> PICK f \in Downlink : RelaySends(c, f)
    BY <1>4
  <2> DEFINE k == r.sent + 1
             more == IF DecodeInbound("agent", TRUE, r.v2, f.type, f.flaw) = "ok" THEN r.good \cup {k} ELSE r.good
             q == [r EXCEPT !.sent = k, !.down = Append(@, Frame(k, f)), !.good = more]
  <2>1. /\ relay' = [relay EXCEPT ![c] = q] /\ UNCHANGED <<daemon, client>> /\ client[c].ws = "open"
        /\ k <= MaxFrames
    BY <1>0 DEF RelaySends
  <2> HIDE DEF more
  <2>2. /\ DOMAIN q = DOMAIN r /\ q.down = Append(r.down, Frame(k, f)) /\ q.stage = r.stage /\ q.v2 = r.v2
        /\ q.early = r.early /\ q.refused = r.refused /\ q.up = r.up /\ q.sent = k
    BY <1>0
  <2>3. k \in 0 .. MaxFrames
    BY <1>0, <2>1, Bounds
  <2>4. Frame(k, f) \in Msg /\ Vouched(q, Frame(k, f))
    BY <2>3, MessagesTyped DEF Vouched
  <2> HIDE DEF q, k
  <2> QED
    BY <2>1, <2>2, <2>3, <2>4, DownStep
<1>5. CASE \E e \in 1 .. MaxEpoch, v \in {ProtocolVersion, Advertised} : RelayAcceptsEarly(c, e, v)
  <2> PICK e \in 1 .. MaxEpoch, v \in {ProtocolVersion, Advertised} : RelayAcceptsEarly(c, e, v)
    BY <1>5
  <2> DEFINE q == [r EXCEPT !.early = TRUE, !.down = Append(@, Accepted(e, v))]
  <2>1. /\ relay' = [relay EXCEPT ![c] = q] /\ UNCHANGED <<daemon, client>> /\ client[c].ws = "open"
    BY <1>0 DEF RelayAcceptsEarly
  <2>2. /\ DOMAIN q = DOMAIN r /\ q.down = Append(r.down, Accepted(e, v)) /\ q.stage = r.stage
        /\ q.v2 = r.v2 /\ q.early /\ q.refused = r.refused /\ q.up = r.up /\ q.sent = r.sent
    BY <1>0
  <2>3. Accepted(e, v) \in Msg /\ Vouched(q, Accepted(e, v))
    BY <2>2, MessagesTyped DEF Vouched
  <2> HIDE DEF q
  <2> QED
    BY <1>0, <2>1, <2>2, <2>3, DownStep
<1>6. CASE \E e \in 1 .. MaxEpoch, v \in Version : RelayAccepts(c, e, v)
  <2> PICK e \in 1 .. MaxEpoch, v \in Version : RelayAccepts(c, e, v)
    BY <1>6
  <2> DEFINE q == [r EXCEPT !.stage = "accepted", !.v2 = IsProtocolV2(v), !.up = Tail(@),
                            !.down = Append(@, Accepted(e, v))]
  <2>1. /\ relay' = [relay EXCEPT ![c] = q] /\ UNCHANGED <<daemon, client>> /\ client[c].ws = "open"
        /\ r.up # <<>> /\ r.stage # "accepted"
    BY <1>0 DEF RelayAccepts, HearsHello, Hears
  <2>2. /\ DOMAIN q = DOMAIN r /\ q.down = Append(r.down, Accepted(e, v)) /\ q.stage = "accepted"
        /\ q.v2 = IsProtocolV2(v) /\ q.early = r.early /\ q.refused = r.refused /\ q.up = Tail(r.up) /\ q.sent = r.sent
    BY <1>0
  <2>3. Accepted(e, v) \in Msg /\ Vouched(q, Accepted(e, v))
    BY <2>2, MessagesTyped DEF Vouched
  <2> HIDE DEF q
  <2> QED
    BY <1>0, <2>1, <2>2, <2>3, DownStep
<1> QED
  BY <1>1, <1>2, <1>3, <1>4, <1>5, <1>6 DEF Relay

-----------------------------------------------------------------------------
(* What the daemon sends once established.                                 *)

\* The relay's end after SentTo.
LEMMA SentToOK ==
  ASSUME IInv, NEW c \in Conn, client[c].ws # "none", Listens(relay[c]),
         NEW t \in Uplink \cup {"heartbeat", "agent.draining"}
  PROVE  /\ DOMAIN SentTo(c, t) = Conn
         /\ \A d \in Conn \ {c} : SentTo(c, t)[d] = relay[d]
         /\ Link(client[c], SentTo(c, t)[c]) /\ Listens(SentTo(c, t)[c])
<1>0. /\ DOMAIN relay[c] = {"stage", "early", "v2", "sent", "good", "refused", "down", "up"}
      /\ relay[c].down \in Seq(Msg) /\ relay[c].up \in Seq(V2Types) /\ relay[c].sent \in 0 .. MaxFrames
      /\ DOMAIN relay = Conn /\ Link(client[c], relay[c])
  BY LinkFacts
<1>1. CASE client[c].ws # "open"
  BY <1>0, <1>1 DEF SentTo
<1>2. CASE client[c].ws = "open"
  <2> DEFINE q == [relay[c] EXCEPT !.up = Append(@, t)]
  <2>1. SentTo(c, t) = [relay EXCEPT ![c] = q]
    BY <1>0, <1>2 DEF SentTo
  <2>2. /\ DOMAIN q = DOMAIN relay[c] /\ q.stage = relay[c].stage /\ q.v2 = relay[c].v2
        /\ q.early = relay[c].early /\ q.refused = relay[c].refused /\ q.down = relay[c].down
        /\ q.sent = relay[c].sent
        /\ q.up = Append(relay[c].up, t)
    BY <1>0
  <2> HIDE DEF q
  <2>3. t \in V2Types /\ Speakable(t)
    BY SpeakableTypes
  <2>4. Listens(q)
    BY <2>2 DEF Listens
  <2>5. /\ q.up \in Seq(V2Types)
        /\ \A i \in 1 .. Len(q.up) : q.up[i] = t \/ \E j \in 1 .. Len(relay[c].up) : q.up[i] = relay[c].up[j]
    BY <1>0, <2>2, <2>3, QueueFacts
  <2>6. Link(client[c], q)
    BY <1>0, <2>2, <2>3, <2>4, <2>5, RelayLink
  <2> QED
    BY <1>0, <2>1, <2>4, <2>6
<1> QED
  BY <1>1, <1>2

LEMMA SendsOK ==
  ASSUME IInv, NEW c \in Conn, Beats(c) \/ \E t \in Uplink : SafeSend(c, t)
  PROVE  IInv'
<1>1. /\ loop = "serve" /\ current = c /\ UNCHANGED <<daemon, client>>
      /\ \E t \in Uplink \cup {"heartbeat"} : relay' = SentTo(c, t)
  BY ConnAssumption DEF Beats, SafeSend, IInv, LoopMatchesClient, Typed
<1>2. PICK t \in Uplink \cup {"heartbeat"} : relay' = SentTo(c, t)
  BY <1>1
<1>3. Listens(relay[c]) /\ client[c].got = NoMsg /\ client[c].waiting = "none" /\ client[c].epoch = lastEpoch
  BY <1>1 DEF IInv, LoopMatchesClient
<1>4. CASE client[c].ws = "none"
  <2>1. relay' = relay
    BY <1>2, <1>4 DEF SentTo
  <2>2. Becomes(c, client[c], relay[c]) /\ Link(client[c], relay[c]) /\ running' \in BOOLEAN
    BY <1>1, <2>1, LinkFacts DEF Becomes, daemon
  <2> QED
    BY <1>1, <1>3, <2>2, QuietStep DEF daemon
<1>5. CASE client[c].ws # "none"
  <2>1. Link(client[c], relay'[c]) /\ Listens(relay'[c]) /\ Becomes(c, client[c], relay'[c])
    BY <1>1, <1>2, <1>3, <1>5, SentToOK, LinkFacts DEF Becomes
  <2>2. running' \in BOOLEAN
    BY <1>1, LinkFacts DEF daemon
  <2> QED
    BY <1>1, <1>3, <2>1, <2>2, QuietStep DEF daemon
<1> QED
  BY <1>4, <1>5

-----------------------------------------------------------------------------
(* The steps of the client and of the daemon.                              *)

LEMMA ReceiveOK ==
  ASSUME IInv, NEW c \in Conn, Receive(c)
  PROVE  IInv'
<1> DEFINE m == Head(relay[c].down)
           cl == OnMessage(client[c], m)
           q == [relay[c] EXCEPT !.down = Tail(@)]
<1>0. /\ Link(client[c], relay[c]) /\ relay[c].down \in Seq(Msg) /\ relay[c].up \in Seq(V2Types)
      /\ DOMAIN relay[c] = {"stage", "early", "v2", "sent", "good", "refused", "down", "up"}
      /\ relay[c].sent \in 0 .. MaxFrames /\ DOMAIN relay = Conn /\ DOMAIN client = Conn
      /\ running \in BOOLEAN
  BY LinkFacts
<1>1. /\ client[c].ws # "none" /\ relay[c].down # <<>> /\ UNCHANGED daemon
      /\ client' = [client EXCEPT ![c] = cl] /\ relay' = [relay EXCEPT ![c] = q]
  BY <1>0 DEF Receive, Incoming
<1>2. c = current
  BY <1>1, Current
<1>3. m \in Msg /\ m = relay[c].down[1] /\ 1 \in 1 .. Len(relay[c].down) /\ Tail(relay[c].down) \in Seq(Msg)
      /\ \A i \in 1 .. Len(Tail(relay[c].down)) :
           \E j \in 1 .. Len(relay[c].down) : Tail(relay[c].down)[i] = relay[c].down[j]
  BY <1>0, <1>1, QueueFacts
<1>4. Vouched(relay[c], m)
  BY <1>0, <1>3 DEF Link
<1> HIDE DEF m
<1>5. /\ Link(cl, relay[c]) /\ Same(cl, client[c])
      /\ client[c].waiting = "none" => cl.waiting = "none" /\ cl.got = client[c].got
  BY <1>0, <1>1, <1>3, <1>4, OnMessageOK
<1> HIDE DEF cl
<1>6. /\ DOMAIN q = DOMAIN relay[c] /\ q.down = Tail(relay[c].down) /\ q.stage = relay[c].stage
      /\ q.v2 = relay[c].v2 /\ q.early = relay[c].early /\ q.up = relay[c].up
      /\ q.refused = relay[c].refused /\ q.sent = relay[c].sent
  BY <1>0
<1> HIDE DEF q
<1>7. Link(cl, q) /\ (Listens(relay[c]) => Listens(q))
  <2>1. cl.ws # "none"
    BY <1>1, <1>5 DEF Same
  <2>2. q.down \in Seq(Msg) /\ q.up \in Seq(V2Types) /\ q.sent \in 0 .. MaxFrames
    BY <1>0, <1>3, <1>6
  <2>3. \A i \in 1 .. Len(q.down) : \E j \in 1 .. Len(relay[c].down) : q.down[i] = relay[c].down[j]
    BY <1>3, <1>6
  <2>4. \A i \in 1 .. Len(q.up) : \E j \in 1 .. Len(relay[c].up) : q.up[i] = relay[c].up[j]
    BY <1>6
  <2> QED
    BY ZenonT(60), <1>5, <1>6, <2>1, <2>2, <2>3, <2>4, RelayLink
<1>8. Becomes(c, cl, q) /\ UNCHANGED <<loop, current, active, lastEpoch>> /\ running' \in BOOLEAN
  BY <1>0, <1>1 DEF Becomes, daemon
<1>9. /\ loop \in {"connect", "serve"} => client[c].got = NoMsg /\ client[c].waiting = "none"
      /\ loop = "serve" => Listens(relay[c])
  BY <1>2 DEF IInv, LoopMatchesClient
<1>10. loop \in {"connect", "serve"} => cl.got = NoMsg /\ cl.waiting = "none"
  BY <1>5, <1>9
<1>11. cl.pump = client[c].pump /\ cl.epoch = client[c].epoch
  BY <1>5 DEF Same
<1> QED
  BY <1>2, <1>7, <1>8, <1>9, <1>10, <1>11, QuietStep

LEMMA DialOK ==
  ASSUME IInv, NEW c \in Conn, Dial(c)
  PROVE  IInv'
<1> DEFINE q == [client[c] EXCEPT !.ws = "connecting"]
<1>0. /\ Link(client[c], relay[c]) /\ LinkTyped(client[c], relay[c])
      /\ DOMAIN relay = Conn /\ DOMAIN client = Conn /\ running \in BOOLEAN
  BY LinkFacts
<1>1. /\ loop = "idle" /\ client' = [client EXCEPT ![c] = q] /\ current' = c /\ loop' = "connect"
      /\ UNCHANGED <<running, active, lastEpoch, relay>> /\ client[c] = NewClient
  BY <1>0 DEF Dial, Link
<1>2. /\ DOMAIN q = DOMAIN NewClient /\ q.ws = "connecting" /\ q.got = NoMsg /\ q.waiting = "none"
      /\ q.pending = <<>> /\ q.handled = <<>> /\ ~q.pump /\ q.epoch = 0
  BY <1>1, Shapes
<1>3. client[c].epoch = 0
  BY <1>1, Shapes
<1> HIDE DEF q
<1>4. current = NoConn /\ active = NoConn
  BY <1>1 DEF IInv, LoopMatchesClient
<1>5. LinkTyped(q, relay[c])
  BY <1>0, <1>2, Bounds, NoMsgTyped DEF LinkTyped, Ws
<1>6. Link(q, relay[c])
  BY <1>0, <1>2, <1>5, NoMsgTyped DEF Link, Vouched
<1>7. Typed' /\ Becomes(c, q, relay[c])
  BY <1>0, <1>1 DEF IInv, Typed, Becomes
<1>8. LoopMatchesClient'
  BY <1>0, <1>1, <1>2, <1>4, ConnAssumption DEF LoopMatchesClient
<1> QED
  BY <1>1, <1>2, <1>3, <1>4, <1>6, <1>7, <1>8, LinkStep

LEMMA ExitsOK ==
  ASSUME IInv, Exits
  PROVE  IInv'
<1>1. Typed'
  BY DEF IInv, Typed, Exits
<1>2. LoopMatchesClient'
  BY DEF IInv, LoopMatchesClient, Exits
<1>3. OthersAreGone' /\ EpochFences'
  BY DEF IInv, OthersAreGone, EpochFences, Exits
<1>4. \A c \in Conn : (Link(client[c], relay[c]) /\ client[c].epoch <= lastEpoch)'
  BY DEF IInv, Exits
<1> QED
  BY <1>1, <1>2, <1>3, <1>4 DEF IInv

\* The socket of a connection becomes ws; nothing else of it does.
LEMMA SocketOK ==
  ASSUME NEW cl, NEW r, Link(cl, r), cl.ws # "none", NEW ws \in Ws \ {"none"}
  PROVE  LET q == [cl EXCEPT !.ws = ws]
         IN /\ Link(q, r) /\ q.ws = ws /\ q.pump = cl.pump /\ q.epoch = cl.epoch
            /\ q.got = cl.got /\ q.waiting = cl.waiting /\ q.handled = cl.handled
            /\ DOMAIN q = DOMAIN NewClient
<1> DEFINE q == [cl EXCEPT !.ws = ws]
<1>0. LinkTyped(cl, r)
  BY DEF Link
<1>1. q.ws = ws /\ DOMAIN q = DOMAIN cl /\ \A f \in DOMAIN cl \ {"ws"} : q[f] = cl[f]
  BY <1>0, Shapes DEF LinkTyped
<1> HIDE DEF q
<1>2. LinkTyped(q, r)
  BY <1>0, <1>1, Shapes DEF LinkTyped
<1>3. Link(q, r)
  BY <1>0, <1>1, <1>2, Shapes DEF Link, LinkTyped
<1>4. /\ q.ws = ws /\ q.pump = cl.pump /\ q.epoch = cl.epoch
      /\ q.got = cl.got /\ q.waiting = cl.waiting /\ q.handled = cl.handled
      /\ DOMAIN q = DOMAIN NewClient
  BY <1>0, <1>1, Shapes DEF LinkTyped
<1> QED
  BY <1>3, <1>4 DEF q

LEMMA OpensOK ==
  ASSUME IInv, NEW c \in Conn, Opens(c)
  PROVE  IInv'
<1> DEFINE q == [client[c] EXCEPT !.ws = "open"]
<1>0. Link(client[c], relay[c]) /\ DOMAIN relay = Conn /\ DOMAIN client = Conn /\ running \in BOOLEAN
  BY LinkFacts
<1>1. /\ client[c].ws = "connecting" /\ client' = [client EXCEPT ![c] = q] /\ UNCHANGED <<daemon, relay>>
  BY <1>0 DEF Opens
<1>2. /\ Link(q, relay[c]) /\ q.pump = client[c].pump /\ q.epoch = client[c].epoch
      /\ q.got = client[c].got /\ q.waiting = client[c].waiting
  BY <1>0, <1>1, SocketOK DEF Ws
<1> HIDE DEF q
<1>3. c = current
  BY <1>1, Current
<1>4. Becomes(c, q, relay[c]) /\ UNCHANGED <<loop, current, active, lastEpoch>> /\ running' \in BOOLEAN
  BY <1>0, <1>1 DEF Becomes, daemon
<1>5. /\ loop \in {"connect", "serve"} => client[c].got = NoMsg /\ client[c].waiting = "none"
      /\ loop = "serve" => Listens(relay[c])
  BY <1>3 DEF IInv, LoopMatchesClient
<1> QED
  BY <1>2, <1>3, <1>4, <1>5, QuietStep

\* The socket starts to close, and nothing more comes in.
LEMMA OversizedOK ==
  ASSUME IInv, NEW c \in Conn, Oversized(c)
  PROVE  IInv'
<1> DEFINE q == [client[c] EXCEPT !.ws = "closing"]
           w == [relay[c] EXCEPT !.down = <<>>, !.good = {k \in @ : k < Head(relay[c].down).n}]
<1>0. /\ Link(client[c], relay[c]) /\ relay[c].up \in Seq(V2Types) /\ relay[c].sent \in 0 .. MaxFrames
      /\ DOMAIN relay[c] = {"stage", "early", "v2", "sent", "good", "refused", "down", "up"}
      /\ DOMAIN relay = Conn /\ DOMAIN client = Conn /\ running \in BOOLEAN
  BY LinkFacts
<1>1. /\ client[c].ws # "none" /\ relay[c].down # <<>> /\ UNCHANGED daemon
      /\ client' = [client EXCEPT ![c] = q] /\ relay' = [relay EXCEPT ![c] = w]
  BY <1>0 DEF Oversized, Incoming
<1>2. c = current
  BY <1>1, Current
<1>3. /\ Link(q, relay[c]) /\ q.ws = "closing" /\ q.pump = client[c].pump /\ q.epoch = client[c].epoch
      /\ q.got = client[c].got /\ q.waiting = client[c].waiting
  BY <1>0, <1>1, SocketOK DEF Ws
<1>4. /\ DOMAIN w = DOMAIN relay[c] /\ w.down = <<>> /\ w.stage = relay[c].stage /\ w.v2 = relay[c].v2
      /\ w.early = relay[c].early /\ w.up = relay[c].up /\ w.refused = relay[c].refused
      /\ w.sent = relay[c].sent
  BY <1>0
<1> HIDE DEF q, w
<1>5. Link(q, w) /\ (Listens(relay[c]) => Listens(w))
  <2>1. w.down \in Seq(Msg) /\ w.up \in Seq(V2Types) /\ w.sent \in 0 .. MaxFrames /\ Len(w.down) = 0
    BY <1>0, <1>4
  <2>2. /\ \A i \in 1 .. Len(w.down) : \E j \in 1 .. Len(relay[c].down) : w.down[i] = relay[c].down[j]
        /\ \A i \in 1 .. Len(w.up) : \E j \in 1 .. Len(relay[c].up) : w.up[i] = relay[c].up[j]
    BY <1>4, <2>1
  <2> QED
    BY ZenonT(60), <1>3, <1>4, <2>1, <2>2, RelayLink
<1>6. Becomes(c, q, w) /\ UNCHANGED <<loop, current, active, lastEpoch>> /\ running' \in BOOLEAN
  BY <1>0, <1>1 DEF Becomes, daemon
<1>7. /\ loop \in {"connect", "serve"} => client[c].got = NoMsg /\ client[c].waiting = "none"
      /\ loop = "serve" => Listens(relay[c])
  BY <1>2 DEF IInv, LoopMatchesClient
<1> QED
  BY <1>2, <1>3, <1>5, <1>6, <1>7, QuietStep

\* A session that ends where nothing was established.
LEMMA GivesUpOK ==
  ASSUME IInv, NEW c \in Conn, c = current, EndSession(c, client[c]), UNCHANGED <<running, lastEpoch>>,
         client[c].ws # "none", ~client[c].pump
  PROVE  IInv'
<1>1. Link(client[c], relay[c]) /\ LinkTyped(client[c], relay[c]) /\ running \in BOOLEAN
  BY LinkFacts
<1>2. lastEpoch \in 0 .. MaxEpoch
  BY DEF IInv, Typed
<1>3. /\ DOMAIN client[c] = DOMAIN NewClient /\ client[c].ws \in Ws \ {"none"}
      /\ client[c].epoch \in 0 .. MaxEpoch /\ (client[c].handled # <<>> => client[c].epoch # 0)
  BY <1>1 DEF Link, LinkTyped
<1> QED
  BY <1>1, <1>2, <1>3, EndsOK

\* Only the connection that is being served is pumped.
LEMMA Unpumped ==
  ASSUME IInv, NEW c \in Conn, loop # "serve"
  PROVE  ~client[c].pump
BY ConnAssumption DEF IInv, LoopMatchesClient, EpochFences

\* A client that waits or holds a message has a socket.
LEMMA HasSocket ==
  ASSUME IInv, NEW c \in Conn, client[c].got # NoMsg \/ client[c].waiting # "none"
  PROVE  client[c].ws # "none"
<1>1. Link(client[c], relay[c])
  BY LinkFacts
<1> QED
  BY <1>1, Shapes DEF Link

\* The socket of the session's connection closes, and the session with it.
LEMMA LosesSocket ==
  ASSUME IInv, NEW c \in Conn, c = current, EndSession(c, [client[c] EXCEPT !.ws = "closed"]),
         UNCHANGED <<running, lastEpoch>>, client[c].ws # "none"
  PROVE  IInv'
<1> DEFINE q == [client[c] EXCEPT !.ws = "closed"]
<1>0. Link(client[c], relay[c]) /\ running \in BOOLEAN
  BY LinkFacts
<1>1. lastEpoch \in 0 .. MaxEpoch
  BY DEF IInv, Typed
<1>2. /\ Link(q, relay[c]) /\ q.ws = "closed" /\ q.epoch = client[c].epoch /\ DOMAIN q = DOMAIN NewClient
  BY <1>0, SocketOK DEF Ws
<1>3. EndSession(c, q)
  OBVIOUS
<1> HIDE DEF q
<1>4. q.epoch \in 0 .. MaxEpoch /\ (q.handled # <<>> => q.epoch # 0)
  BY <1>2 DEF Link, LinkTyped
<1>5. q.ws \in Ws \ {"none"} /\ running' \in BOOLEAN
  BY <1>0, <1>2 DEF Ws
<1> QED
  BY <1>1, <1>2, <1>3, <1>4, <1>5, EndsOK

LEMMA ClosesOK ==
  ASSUME IInv, NEW c \in Conn, Closes(c) \/ ConnectFails(c)
  PROVE  IInv'
<1>1. /\ client[c].ws # "none" /\ UNCHANGED <<running, lastEpoch>>
      /\ \/ c = current /\ EndSession(c, [client[c] EXCEPT !.ws = "closed"])
         \/ /\ c # current /\ client' = [client EXCEPT ![c].ws = "closed"]
            /\ UNCHANGED <<loop, current, active, relay>>
  BY DEF Closes, ConnectFails
<1>2. CASE c = current
  BY <1>1, <1>2, LosesSocket
<1>3. CASE c # current
  <2> DEFINE q == [client[c] EXCEPT !.ws = "closed"]
  <2>0. Link(client[c], relay[c]) /\ DOMAIN relay = Conn /\ DOMAIN client = Conn /\ running \in BOOLEAN
    BY LinkFacts
  <2>1. client' = [client EXCEPT ![c] = q] /\ UNCHANGED <<loop, current, active, relay>>
    BY <1>1, <1>3, <2>0
  <2>2. Link(q, relay[c]) /\ q.ws = "closed" /\ q.pump = client[c].pump /\ q.epoch = client[c].epoch
    BY <1>1, <2>0, SocketOK DEF Ws
  <2> HIDE DEF q
  <2>3. Becomes(c, q, relay[c]) /\ running' \in BOOLEAN
    BY <1>1, <2>0, <2>1 DEF Becomes
  <2>4. relay[c] = NewRelayEnd
    BY <1>3 DEF IInv, OthersAreGone
  <2> QED
    BY <1>1, <1>3, <2>1, <2>2, <2>3, <2>4, QuietStep
<1> QED
  BY <1>2, <1>3

LEMMA ConnectContinuesOK ==
  ASSUME IInv, NEW c \in Conn, ConnectContinues(c)
  PROVE  IInv'
<1> DEFINE cl == WaitFor(client[c], "challenge")
<1>0. Link(client[c], relay[c]) /\ DOMAIN relay = Conn /\ DOMAIN client = Conn
  BY LinkFacts
<1>1. /\ loop = "connect" /\ c = current /\ client[c].ws = "open" /\ client' = [client EXCEPT ![c] = cl]
      /\ loop' = "challenge" /\ UNCHANGED <<running, current, active, lastEpoch, relay>>
  BY <1>0 DEF ConnectContinues
<1>2. client[c].got = NoMsg /\ client[c].waiting = "none" /\ active = NoConn
  BY <1>1 DEF IInv, LoopMatchesClient
<1>3. Link(cl, relay[c]) /\ Same(cl, client[c])
  BY <1>0, <1>1, <1>2, WaitForOK
<1> HIDE DEF cl
<1>4. Typed' /\ Becomes(c, cl, relay[c])
  BY <1>0, <1>1 DEF IInv, Typed, Becomes
<1>5. LoopMatchesClient'
  BY <1>1, <1>2 DEF IInv, LoopMatchesClient
<1>6. ~cl.pump /\ cl.epoch = client[c].epoch
  BY <1>1, <1>3, Unpumped DEF Same
<1> QED
  BY <1>1, <1>3, <1>4, <1>5, <1>6, LinkStep

LEMMA ChallengeContinuesOK ==
  ASSUME IInv, NEW c \in Conn, ChallengeContinues(c)
  PROVE  IInv'
<1> DEFINE d == [client[c] EXCEPT !.got = NoMsg, !.armed = TRUE]
           cl == WaitFor(d, "reply")
           q == [relay[c] EXCEPT !.up = Append(@, "hello")]
<1>0. /\ Link(client[c], relay[c]) /\ LinkTyped(client[c], relay[c])
      /\ DOMAIN relay = Conn /\ DOMAIN client = Conn
      /\ DOMAIN relay[c] = {"stage", "early", "v2", "sent", "good", "refused", "down", "up"}
      /\ relay[c].down \in Seq(Msg) /\ relay[c].up \in Seq(V2Types) /\ relay[c].sent \in 0 .. MaxFrames
  BY LinkFacts
<1>1. loop = "challenge" /\ c = current /\ client[c].got # NoMsg /\ UNCHANGED <<running, lastEpoch>>
  BY DEF ChallengeContinues
<1>2. client[c].ws # "none" /\ ~client[c].pump
  BY <1>1, HasSocket, Unpumped
<1>3. CASE client[c].ws # "open"
  <2>1. EndSession(c, client[c])
    BY <1>3 DEF ChallengeContinues
  <2> QED
    BY <1>1, <1>2, <2>1, GivesUpOK
<1>4. CASE client[c].ws = "open"
  <2>1. /\ client' = [client EXCEPT ![c] = cl] /\ relay' = [relay EXCEPT ![c] = q]
        /\ loop' = "reply" /\ UNCHANGED <<current, active>>
    BY <1>0, <1>4 DEF ChallengeContinues
  <2>2. DOMAIN d = DOMAIN client[c] /\ d.got = NoMsg
        /\ \A f \in DOMAIN client[c] \ {"got", "armed"} : d[f] = client[c][f]
    BY <1>0, Shapes DEF LinkTyped
  <2> HIDE DEF d
  <2>3. LinkTyped(d, relay[c])
    BY <1>0, <2>2, Shapes, NoMsgTyped DEF LinkTyped
  <2>4. Link(d, relay[c]) /\ Same(d, client[c]) /\ d.waiting = "none"
    <3>1. Same(d, client[c]) /\ d.waiting = "none" /\ d.pending = client[c].pending /\ d.handled = client[c].handled
      BY <1>0, <1>1, <2>2, Shapes DEF Link, LinkTyped, Same
    <3>2. Vouched(relay[c], d.got)
      BY <2>2, NoMsgTyped DEF Vouched
    <3> QED
      BY <1>0, <1>2, <2>2, <2>3, <3>1, <3>2 DEF Link, Same
  <2>5. Link(cl, relay[c]) /\ Same(cl, d)
    BY <1>2, <2>2, <2>4, WaitForOK DEF Same
  <2> HIDE DEF cl
  <2>6. cl.ws = "open" /\ ~cl.pump /\ cl.epoch = client[c].epoch
    BY <1>2, <1>4, <2>4, <2>5 DEF Same
  <2>7. /\ DOMAIN q = DOMAIN relay[c] /\ q.down = relay[c].down /\ q.stage = relay[c].stage
        /\ q.v2 = relay[c].v2 /\ q.early = relay[c].early /\ q.up = Append(relay[c].up, "hello")
        /\ q.refused = relay[c].refused /\ q.sent = relay[c].sent
    BY <1>0
  <2> HIDE DEF q
  <2>8. /\ q.up \in Seq(V2Types)
        /\ \A i \in 1 .. Len(q.up) : q.up[i] = "hello" \/ \E j \in 1 .. Len(relay[c].up) : q.up[i] = relay[c].up[j]
    BY <1>0, <2>7, QueueFacts, SpeakableTypes
  <2>9. q.down \in Seq(Msg) /\ q.sent \in 0 .. MaxFrames
        /\ \A i \in 1 .. Len(q.down) : \E j \in 1 .. Len(relay[c].down) : q.down[i] = relay[c].down[j]
    BY <1>0, <2>7
  <2>10. Link(cl, q)
    BY <2>5, <2>6, <2>7, <2>8, <2>9, RelayLink
  <2>11. Typed' /\ Becomes(c, cl, q)
    BY <1>0, <1>1, <2>1 DEF IInv, Typed, Becomes
  <2>12. LoopMatchesClient'
    BY <1>1, <2>1 DEF IInv, LoopMatchesClient
  <2> QED
    BY <1>1, <2>1, <2>6, <2>10, <2>11, <2>12, LinkStep
<1> QED
  BY <1>3, <1>4

\* The handshake fails, or a timer ends it.
LEMMA HandshakeEndsOK ==
  ASSUME IInv, NEW c \in Conn, HandshakeFails(c) \/ WaitTimesOut(c)
  PROVE  IInv'
<1>1. c = current /\ EndSession(c, client[c]) /\ UNCHANGED <<running, lastEpoch>>
      /\ (client[c].got # NoMsg \/ client[c].waiting # "none")
  BY DEF HandshakeFails, WaitTimesOut
<1>2. loop # "serve"
  BY <1>1 DEF HandshakeFails, WaitTimesOut, IInv, LoopMatchesClient
<1> QED
  BY <1>1, <1>2, HasSocket, Unpumped, GivesUpOK

LEMMA EpochRefusedOK ==
  ASSUME IInv, NEW c \in Conn, EpochRefused(c)
  PROVE  IInv'
<1> DEFINE q == [client[c] EXCEPT !.v2 = IsProtocolV2(Advertised), !.authed = TRUE]
<1>0. Link(client[c], relay[c]) /\ LinkTyped(client[c], relay[c]) /\ running \in BOOLEAN
  BY LinkFacts
<1>1. /\ loop = "reply" /\ c = current /\ client[c].got # NoMsg /\ EndSession(c, q)
      /\ UNCHANGED <<running, lastEpoch>>
  BY NoMsgTyped DEF EpochRefused, Negotiates
<1>2. /\ DOMAIN q = DOMAIN client[c] /\ q.ws = client[c].ws /\ q.epoch = client[c].epoch
      /\ q.handled = client[c].handled /\ q.pump = client[c].pump
  BY <1>0, Shapes DEF LinkTyped
<1> HIDE DEF q
<1>3. client[c].ws # "none" /\ ~client[c].pump
  BY <1>1, HasSocket, Unpumped
<1>4. lastEpoch \in 0 .. MaxEpoch
  BY DEF IInv, Typed
<1>5. /\ DOMAIN q = DOMAIN NewClient /\ q.ws \in Ws \ {"none"} /\ q.epoch \in 0 .. MaxEpoch
      /\ (q.handled # <<>> => q.epoch # 0)
  BY <1>0, <1>2, <1>3 DEF Link, LinkTyped
<1> QED
  BY <1>0, <1>1, <1>2, <1>3, <1>4, <1>5, EndsOK

LEMMA EstablishedOK ==
  ASSUME IInv, NEW c \in Conn, Established(c)
  PROVE  IInv'
<1> DEFINE m == client[c].got
           q == [client[c] EXCEPT !.got = NoMsg, !.epoch = m.epoch,
                                  !.v2 = IsProtocolV2(Advertised), !.authed = TRUE]
           p == Pumped(q)
<1>0. /\ Link(client[c], relay[c]) /\ LinkTyped(client[c], relay[c]) /\ running \in BOOLEAN
      /\ DOMAIN relay = Conn /\ DOMAIN client = Conn
  BY LinkFacts
<1>1. /\ loop = "reply" /\ c = current /\ Negotiates(m) /\ m.epoch > lastEpoch /\ lastEpoch' = m.epoch
      /\ running' = running /\ m # NoMsg
  BY NoMsgTyped DEF Established, Negotiates, AcceptEpoch
<1>2. m.epoch \in 0 .. MaxEpoch /\ lastEpoch \in 0 .. MaxEpoch
  BY <1>0 DEF LinkTyped, Msg, IInv, Typed
<1>3. lastEpoch < m.epoch /\ m.epoch # 0
  BY <1>1, <1>2, Bounds
<1>4. client[c].ws # "none" /\ ~client[c].pump /\ client[c].waiting = "none"
  BY <1>0, <1>1, HasSocket, Unpumped DEF Link
<1>5. /\ DOMAIN q = DOMAIN client[c] /\ q.got = NoMsg /\ q.epoch = m.epoch
      /\ \A f \in DOMAIN client[c] \ {"got", "epoch", "v2", "authed"} : q[f] = client[c][f]
  BY <1>0, Shapes DEF LinkTyped
<1>6. (running /\ client' = [client EXCEPT ![c] = p] /\ active' = c /\ loop' = "serve"
         /\ UNCHANGED <<current, relay>>)
      \/ (~running /\ EndSession(c, q))
  BY <1>0 DEF Established
<1> HIDE DEF q
<1>7. LinkTyped(q, relay[c])
  BY <1>0, <1>2, <1>5, Shapes, NoMsgTyped DEF LinkTyped
<1>8. CASE ~running /\ EndSession(c, q)
  <2>1. /\ DOMAIN q = DOMAIN NewClient /\ q.ws \in Ws \ {"none"} /\ ~q.pump
    BY <1>0, <1>4, <1>5, Shapes DEF LinkTyped
  <2> QED
    BY <1>0, <1>1, <1>2, <1>3, <1>5, <1>8, <2>1, EndsOK
<1>9. CASE running /\ client' = [client EXCEPT ![c] = p] /\ active' = c /\ loop' = "serve"
             /\ UNCHANGED <<current, relay>>
  <2> DEFINE more == q.handled \o Numbers(q.pending)
  <2>1. p = [q EXCEPT !.pump = TRUE, !.handled = more, !.pending = <<>>]
    BY <1>0, <1>5, Shapes DEF Pumped, LinkTyped
  <2> HIDE DEF more
  <2>2. /\ DOMAIN p = DOMAIN q /\ p.pump /\ p.pending = <<>>
        /\ \A f \in DOMAIN q \ {"pump", "handled", "pending"} : p[f] = q[f]
    BY <2>1, <1>0, <1>5, Shapes DEF LinkTyped
  <2> HIDE DEF p
  <2>3. /\ p.got = NoMsg /\ p.epoch = m.epoch /\ p.ws # "none" /\ p.waiting = "none"
    BY <1>0, <1>4, <1>5, <2>2, Shapes DEF LinkTyped
  <2>4. <<>> \in Seq(Msg)
    OBVIOUS
  <2>5. LinkTyped(p, relay[c])
    BY <1>0, <1>5, <1>7, <2>2, <2>4, Shapes DEF LinkTyped
  <2>6. Link(p, relay[c])
    BY <1>0, <1>3, <2>2, <2>3, <2>5, NoMsgTyped DEF Link, Vouched
  <2>7. Listens(relay[c])
    <3>1. m.type = "hello.accepted" /\ NegotiateVersion(Advertised, {m.version}) # {} /\ Vouched(relay[c], m)
      BY <1>0, <1>1 DEF Negotiates, Link
    <3>2. IsProtocolV2(m.version) = IsProtocolV2(Advertised)
      BY <3>1 DEF NegotiateVersion, IsProtocolV2
    <3> QED
      BY <3>1, <3>2 DEF Vouched, Listens
  <2>8. Typed' /\ Becomes(c, p, relay[c])
    BY <1>0, <1>1, <1>2, <1>9 DEF IInv, Typed, Becomes
  <2>9. LoopMatchesClient'
    BY <1>0, <1>1, <1>9, <2>3, <2>7, ConnAssumption DEF LoopMatchesClient
  <2>10. current \in {c, NoConn} /\ active \in {c, NoConn}
    BY <1>1 DEF IInv, LoopMatchesClient
  <2> QED
    BY <1>1, <1>3, <1>9, <2>3, <2>6, <2>8, <2>9, <2>10, LinkStep
<1> QED
  BY <1>6, <1>8, <1>9

\* A socket that starts to close.
LEMMA ClosingOK ==
  ASSUME NEW cl, NEW r, Link(cl, r), cl.ws # "none"
  PROVE  LET q == Closing(cl)
         IN /\ Link(q, r) /\ q.pump = cl.pump /\ q.epoch = cl.epoch
            /\ q.got = cl.got /\ q.waiting = cl.waiting
<1>1. CASE cl.ws \in {"connecting", "open"}
  BY <1>1, SocketOK DEF Closing, Ws
<1>2. CASE cl.ws \notin {"connecting", "open"}
  BY <1>2 DEF Closing
<1> QED
  BY <1>1, <1>2

LEMMA StopOK ==
  ASSUME IInv, Stop
  PROVE  IInv'
<1>0. running' = FALSE /\ UNCHANGED <<loop, current, active, lastEpoch>>
  BY DEF Stop
<1>1. CASE current = NoConn
  <2>1. active = NoConn /\ UNCHANGED <<client, relay>>
    BY <1>1 DEF Stop, IInv, LoopMatchesClient
  <2>2. Typed'
    BY <1>0, <2>1 DEF IInv, Typed
  <2>3. LoopMatchesClient'
    BY <1>0, <2>1 DEF IInv, LoopMatchesClient
  <2>4. OthersAreGone' /\ EpochFences'
    BY <1>0, <2>1 DEF IInv, OthersAreGone, EpochFences
  <2>5. \A c \in Conn : (Link(client[c], relay[c]) /\ client[c].epoch <= lastEpoch)'
    BY <1>0, <2>1 DEF IInv
  <2> QED
    BY <2>2, <2>3, <2>4, <2>5 DEF IInv
<1>2. CASE current # NoConn
  <2> DEFINE c == current
             cl == Closing(client[c])
  <2>0. c \in Conn
    BY <1>2 DEF IInv, Typed
  <2> HIDE DEF c
  <2>1. /\ Link(client[c], relay[c]) /\ DOMAIN relay = Conn /\ DOMAIN client = Conn /\ running \in BOOLEAN
    BY <2>0, LinkFacts
  <2>2. client' = [client EXCEPT ![c] = cl]
    BY <1>2, <2>1 DEF Stop, c
  <2>3. active = IF loop = "serve" THEN c ELSE NoConn
    BY DEF IInv, LoopMatchesClient, c
  <2>4. loop = "serve" => Listens(relay[c])
    BY DEF IInv, LoopMatchesClient, c
  <2>5. loop \in {"connect", "serve"} => client[c].got = NoMsg /\ client[c].waiting = "none"
    BY DEF IInv, LoopMatchesClient, c
  <2>6. /\ Link(cl, relay[c]) /\ cl.pump = client[c].pump /\ cl.epoch = client[c].epoch
        /\ cl.got = client[c].got /\ cl.waiting = client[c].waiting
    <3>1. CASE client[c].ws # "none"
      BY <2>1, <3>1, ClosingOK
    <3>2. CASE client[c].ws = "none"
      BY <2>1, <3>2 DEF Closing
    <3> QED
      BY <3>1, <3>2
  <2>7. c = current
    BY DEF c
  <2>8. /\ Link(cl, relay'[c]) /\ (loop = "serve" => Listens(relay'[c]))
        /\ DOMAIN relay' = Conn /\ \A d \in Conn \ {c} : relay'[d] = relay[d]
    <3>1. CASE loop # "serve" \/ client[c].ws # "open"
      <4>1. relay' = relay
        BY <2>0, <2>3, <3>1, ConnAssumption DEF Stop, SentTo
      <4> QED
        BY <2>1, <2>4, <2>6, <4>1
    <3>2. CASE loop = "serve" /\ client[c].ws = "open"
      <4>1. relay' = SentTo(c, "agent.draining")
        BY <2>0, <2>3, <3>2, ConnAssumption DEF Stop
      <4>2. /\ DOMAIN relay' = Conn /\ \A d \in Conn \ {c} : relay'[d] = relay[d]
            /\ Link(client[c], relay'[c]) /\ Listens(relay'[c])
        BY <2>0, <2>4, <3>2, <4>1, SentToOK
      <4>3. Link(cl, relay'[c])
        BY <3>2, <4>2, ClosingOK
      <4> QED
        BY <4>2, <4>3
    <3> QED
      BY <3>1, <3>2
  <2> HIDE DEF cl
  <2>9. Becomes(c, cl, relay'[c])
    BY <2>0, <2>1, <2>2, <2>8 DEF Becomes
  <2> QED
    BY <1>0, <2>0, <2>5, <2>6, <2>7, <2>8, <2>9, QuietStep
<1> QED
  BY <1>1, <1>2

LEMMA StutterOK ==
  ASSUME IInv, UNCHANGED vars
  PROVE  IInv'
<1>1. Typed' /\ LoopMatchesClient'
  BY DEF IInv, Typed, LoopMatchesClient, vars
<1>2. OthersAreGone' /\ EpochFences'
  BY DEF IInv, OthersAreGone, EpochFences, vars
<1>3. \A c \in Conn : (Link(client[c], relay[c]) /\ client[c].epoch <= lastEpoch)'
  BY DEF IInv, vars
<1> QED
  BY <1>1, <1>2, <1>3 DEF IInv

LEMMA StepInOrder == IInv /\ [Next]_vars => IInv'
<1> SUFFICES ASSUME IInv, [Next]_vars PROVE IInv'
  OBVIOUS
<1>1. CASE UNCHANGED vars
  BY <1>1, StutterOK
<1>2. CASE Exits
  BY <1>2, ExitsOK
<1>3. CASE Stop
  BY <1>3, StopOK
<1>4. ASSUME NEW c \in Conn, Handshake(c)
      PROVE  IInv'
  BY <1>4, DialOK, OpensOK, ClosesOK, ConnectContinuesOK, ChallengeContinuesOK, HandshakeEndsOK,
     EpochRefusedOK, EstablishedOK DEF Handshake
<1>5. ASSUME NEW c \in Conn, Receive(c) \/ Oversized(c) \/ WaitTimesOut(c) \/ Closes(c) \/ Beats(c) \/ Relay(c)
      PROVE  IInv'
  BY <1>5, ReceiveOK, OversizedOK, HandshakeEndsOK, ClosesOK, SendsOK, RelayOK
<1>6. ASSUME NEW c \in Conn, NEW t \in Uplink, SafeSend(c, t)
      PROVE  IInv'
  BY <1>6, SendsOK
<1> QED
  BY <1>1, <1>2, <1>3, <1>4, <1>5, <1>6 DEF Next

-----------------------------------------------------------------------------
(* The theorems.                                                           *)

\* The daemon's loop, its client and the relay's end agree in every reachable state:
\* an accept comes from a relay that accepted with the version it names, what is in
\* flight to a relay decodes there, and a session that is over left nothing behind
\* (runSession's finally block, RelayClient.close, performHandshake).
THEOREM RelaySessionInvariance == Spec => []IInv
<1>1. Init => IInv
  BY InitInOrder
<1>2. IInv /\ [Next]_vars => IInv'
  BY StepInOrder
<1> QED
  BY <1>1, <1>2, PTL DEF Spec

\* No two connections are established with one epoch, the one being served has the
\* newest and is the only one whose frames are handled (Daemon.acceptEpoch and the
\* order of runSession's steps).
THEOREM EpochsFence == Spec => []EpochFences
<1>1. IInv => EpochFences
  BY DEF IInv
<1> QED
  BY <1>1, RelaySessionInvariance, PTL

\* A relay that did not accept too early decodes all that the daemon sends it, whatever
\* versions the two speak (the activeClient gate of safeSend and the heartbeat).
THEOREM UplinkIsHeard == Spec => []UplinkDecodes
<1>1. IInv => UplinkDecodes
  BY DEF IInv, Link, UplinkDecodes
<1> QED
  BY <1>1, RelaySessionInvariance, PTL

-----------------------------------------------------------------------------
(* The flow of frames: sequences of numbers, joined.                       *)

\* All that is in x comes before all that is in y.
Precedes(x, y) == \A a \in Range(x), b \in Range(y) : a # 0 /\ b # 0 => a < b

LEMMA One ==
  ASSUME NEW n \in Nat
  PROVE  <<n>> \in Seq(Nat) /\ Range(<<n>>) = {n} /\ InOrder(<<n>>)
<1>1. <<n>> \in Seq(Nat) /\ Len(<<n>>) = 1 /\ <<n>>[1] = n /\ DOMAIN <<n>> = {1}
  OBVIOUS
<1>2. Range(<<n>>) = {n}
  BY <1>1 DEF Range
<1>3. \A i \in 1 .. 1 : i = 1
  OBVIOUS
<1> QED
  BY <1>1, <1>2, <1>3 DEF InOrder

LEMMA InRange ==
  ASSUME NEW x \in Seq(Nat), NEW v
  PROVE  v \in Range(x) <=> \E i \in 1 .. Len(x) : v = x[i]
<1>1. DOMAIN x = 1 .. Len(x)
  BY LenProperties
<1> QED
  BY <1>1 DEF Range

LEMMA Joined ==
  ASSUME NEW x \in Seq(Nat), NEW y \in Seq(Nat)
  PROVE  /\ x \o y \in Seq(Nat) /\ Range(x) \subseteq Nat
         /\ Range(x \o y) = Range(x) \cup Range(y)
         /\ InOrder(x \o y) <=> InOrder(x) /\ InOrder(y) /\ Precedes(x, y)
<1> DEFINE z == x \o y
<1>1. /\ z \in Seq(Nat) /\ Len(z) = Len(x) + Len(y)
      /\ \A i \in 1 .. Len(x) + Len(y) : z[i] = IF i <= Len(x) THEN x[i] ELSE y[i - Len(x)]
  BY ConcatProperties
<1>2. Len(x) \in Nat /\ Len(y) \in Nat
  BY LenProperties
<1>3. \A i \in 1 .. Len(x) : z[i] = x[i] /\ i \in 1 .. Len(z)
  BY <1>1, <1>2
<1>4. ASSUME NEW i \in 1 .. Len(y)
      PROVE  z[Len(x) + i] = y[i] /\ Len(x) + i \in 1 .. Len(z)
  <2>1. Len(x) + i \in 1 .. Len(x) + Len(y) /\ ~(Len(x) + i <= Len(x)) /\ (Len(x) + i) - Len(x) = i
    BY <1>2
  <2> QED
    BY <1>1, <2>1
<1>5. ASSUME NEW i \in 1 .. Len(z)
      PROVE  \/ i \in 1 .. Len(x)
             \/ \E j \in 1 .. Len(y) : i = Len(x) + j
  <2>1. CASE i <= Len(x)
    BY <1>1, <1>2, <2>1
  <2>2. CASE i > Len(x)
    <3>1. i - Len(x) \in 1 .. Len(y) /\ i = Len(x) + (i - Len(x))
      BY <1>1, <1>2, <2>2
    <3> QED
      BY <3>1
  <2> QED
    BY <1>1, <1>2, <2>1, <2>2
<1> HIDE DEF z
<1>6. Range(z) = Range(x) \cup Range(y)
  <2>1. ASSUME NEW v \in Range(z) PROVE v \in Range(x) \cup Range(y)
    <3>1. PICK i \in 1 .. Len(z) : v = z[i]
      BY <1>1, InRange
    <3>2. CASE i \in 1 .. Len(x)
      BY <1>3, <3>1, <3>2, InRange
    <3>3. CASE \E j \in 1 .. Len(y) : i = Len(x) + j
      BY <1>4, <3>1, <3>3, InRange
    <3> QED
      BY <1>5, <3>2, <3>3
  <2>2. ASSUME NEW v \in Range(x) PROVE v \in Range(z)
    <3>1. PICK i \in 1 .. Len(x) : v = x[i]
      BY InRange
    <3>2. v = z[i] /\ i \in 1 .. Len(z)
      BY <1>3, <3>1
    <3> QED
      BY <1>1, <3>2, InRange
  <2>3. ASSUME NEW v \in Range(y) PROVE v \in Range(z)
    <3>1. PICK i \in 1 .. Len(y) : v = y[i]
      BY InRange
    <3>2. v = z[Len(x) + i] /\ Len(x) + i \in 1 .. Len(z)
      BY <1>4, <3>1
    <3> QED
      BY <1>1, <3>2, InRange
  <2> QED
    BY <2>1, <2>2, <2>3
<1>7. ASSUME InOrder(z) PROVE InOrder(x) /\ InOrder(y) /\ Precedes(x, y)
  <2>1. InOrder(x)
    BY <1>3, <1>7 DEF InOrder
  <2>2. InOrder(y)
    <3> SUFFICES ASSUME NEW i \in 1 .. Len(y), NEW j \in 1 .. Len(y), i < j, y[i] # 0, y[j] # 0
                 PROVE  y[i] < y[j]
      BY DEF InOrder
    <3>1. Len(x) + i < Len(x) + j
      BY <1>2
    <3> QED
      BY <1>4, <1>7, <3>1 DEF InOrder
  <2>3. Precedes(x, y)
    <3> SUFFICES ASSUME NEW a \in Range(x), NEW b \in Range(y), a # 0, b # 0
                 PROVE  a < b
      BY DEF Precedes
    <3>1. PICK i \in 1 .. Len(x) : a = x[i]
      BY InRange
    <3>2. PICK j \in 1 .. Len(y) : b = y[j]
      BY InRange
    <3>3. i < Len(x) + j
      BY <1>2
    <3> QED
      BY <1>3, <1>4, <1>7, <3>1, <3>2, <3>3 DEF InOrder
  <2> QED
    BY <2>1, <2>2, <2>3
<1>8. ASSUME InOrder(x), InOrder(y), Precedes(x, y) PROVE InOrder(z)
  <2> SUFFICES ASSUME NEW i \in 1 .. Len(z), NEW j \in 1 .. Len(z), i < j, z[i] # 0, z[j] # 0
               PROVE  z[i] < z[j]
    BY DEF InOrder
  <2>1. CASE i \in 1 .. Len(x) /\ j \in 1 .. Len(x)
    BY <1>3, <1>8, <2>1 DEF InOrder
  <2>2. CASE i \in 1 .. Len(x) /\ \E k \in 1 .. Len(y) : j = Len(x) + k
    <3>1. PICK k \in 1 .. Len(y) : j = Len(x) + k
      BY <2>2
    <3>2. z[i] \in Range(x) /\ z[j] \in Range(y)
      BY <1>3, <1>4, <2>2, <3>1, InRange
    <3> QED
      BY <1>8, <3>2 DEF Precedes
  <2>3. CASE (\E k \in 1 .. Len(y) : i = Len(x) + k) /\ \E k \in 1 .. Len(y) : j = Len(x) + k
    <3>1. PICK k \in 1 .. Len(y) : i = Len(x) + k
      BY <2>3
    <3>2. PICK l \in 1 .. Len(y) : j = Len(x) + l
      BY <2>3
    <3>3. k < l
      BY <1>2, <3>1, <3>2
    <3>4. z[i] = y[k] /\ z[j] = y[l]
      BY <1>4, <3>1, <3>2
    <3> QED
      BY <1>8, <3>3, <3>4 DEF InOrder
  <2>4. ~((\E k \in 1 .. Len(y) : i = Len(x) + k) /\ j \in 1 .. Len(x))
    BY <1>2
  <2> QED
    BY <1>5, <2>1, <2>2, <2>3, <2>4
<1>9. Range(x) \subseteq Nat
  BY InRange
<1> QED
  BY <1>1, <1>6, <1>7, <1>8, <1>9 DEF z

\* A number less in the middle.
LEMMA Thinned ==
  ASSUME NEW x \in Seq(Nat), NEW y \in Seq(Nat), NEW n \in Nat
  PROVE  LET f == x \o (<<n>> \o y)
             g == x \o y
         IN f \in Seq(Nat) /\ g \in Seq(Nat) /\ Range(f) = Range(g) \cup {n} /\ (InOrder(f) => InOrder(g))
<1> DEFINE m == <<n>>
           t == m \o y
<1>1. m \in Seq(Nat) /\ Range(m) = {n}
  BY One
<1> HIDE DEF m
<1>2. t \in Seq(Nat) /\ Range(t) = {n} \cup Range(y) /\ (InOrder(t) => InOrder(y))
  BY <1>1, Joined
<1> HIDE DEF t
<1>3. /\ x \o t \in Seq(Nat) /\ Range(x \o t) = Range(x) \cup Range(t)
      /\ InOrder(x \o t) => InOrder(x) /\ InOrder(t) /\ Precedes(x, t)
  BY <1>2, Joined
<1>4. /\ x \o y \in Seq(Nat) /\ Range(x \o y) = Range(x) \cup Range(y)
      /\ InOrder(x) /\ InOrder(y) /\ Precedes(x, y) => InOrder(x \o y)
  BY Joined
<1>5. Precedes(x, t) => Precedes(x, y)
  BY <1>2 DEF Precedes
<1> QED
  BY <1>2, <1>3, <1>4, <1>5 DEF t, m

\* A number more at the end.
LEMMA Extended ==
  ASSUME NEW x \in Seq(Nat), NEW n \in Nat
  PROVE  LET f == x \o <<n>>
         IN /\ f \in Seq(Nat) /\ Range(f) = Range(x) \cup {n}
            /\ InOrder(x) /\ (n = 0 \/ \A v \in Range(x) : v < n) => InOrder(f)
<1> DEFINE m == <<n>>
<1>1. m \in Seq(Nat) /\ Range(m) = {n} /\ InOrder(m)
  BY One
<1> HIDE DEF m
<1>2. /\ x \o m \in Seq(Nat) /\ Range(x \o m) = Range(x) \cup {n}
      /\ InOrder(x) /\ Precedes(x, m) => InOrder(x \o m)
  BY <1>1, Joined
<1>3. (n = 0 \/ \A v \in Range(x) : v < n) => Precedes(x, m)
  BY <1>1 DEF Precedes
<1> QED
  BY <1>2, <1>3 DEF m

LEMMA NumbersFacts ==
  ASSUME NEW s \in Seq(Msg)
  PROVE  /\ Numbers(s) \in Seq(Nat) /\ Len(Numbers(s)) = Len(s)
         /\ \A i \in 1 .. Len(s) : Numbers(s)[i] = s[i].n
         /\ Range(Numbers(s)) = {m.n : m \in Range(s)}
<1>1. Len(s) \in Nat /\ DOMAIN s = 1 .. Len(s) /\ \A i \in 1 .. Len(s) : s[i].n \in Nat
  <2>1. \A i \in 1 .. Len(s) : s[i] \in Msg
    OBVIOUS
  <2>2. \A m \in Msg : m.n \in Nat
    BY Bounds DEF Msg
  <2> QED
    BY <2>1, <2>2
<1>2. /\ Numbers(s) \in Seq(Nat) /\ Len(Numbers(s)) = Len(s) /\ DOMAIN Numbers(s) = 1 .. Len(s)
      /\ \A i \in 1 .. Len(s) : Numbers(s)[i] = s[i].n
  BY <1>1 DEF Numbers
<1>3. Range(Numbers(s)) = {m.n : m \in Range(s)}
  BY <1>1, <1>2 DEF Range
<1> QED
  BY <1>2, <1>3

LEMMA NumbersJoined ==
  /\ Numbers(<<>>) = <<>>
  /\ \A m \in Msg : m.n \in Nat /\ <<m>> \in Seq(Msg) /\ Numbers(<<m>>) = <<m.n>>
  /\ \A s, t \in Seq(Msg) : s \o t \in Seq(Msg) /\ Numbers(s \o t) = Numbers(s) \o Numbers(t)
<1>1. Numbers(<<>>) = <<>>
  BY DEF Numbers
<1>2. ASSUME NEW m \in Msg
      PROVE  m.n \in Nat /\ <<m>> \in Seq(Msg) /\ Numbers(<<m>>) = <<m.n>>
  <2>1. m.n \in Nat /\ <<m>> \in Seq(Msg) /\ Len(<<m>>) = 1 /\ <<m>>[1] = m
    BY Bounds DEF Msg
  <2>2. Numbers(<<m>>) \in Seq(Nat) /\ Len(Numbers(<<m>>)) = 1 /\ Numbers(<<m>>)[1] = m.n
    BY <2>1, NumbersFacts
  <2>3. <<m.n>> \in Seq(Nat) /\ Len(<<m.n>>) = 1 /\ <<m.n>>[1] = m.n
    BY <2>1
  <2> QED
    BY <2>1, <2>2, <2>3, SeqEqual
<1>3. ASSUME NEW s \in Seq(Msg), NEW t \in Seq(Msg)
      PROVE  s \o t \in Seq(Msg) /\ Numbers(s \o t) = Numbers(s) \o Numbers(t)
  <2> DEFINE u == s \o t
             x == Numbers(s)
             y == Numbers(t)
             z == Numbers(u)
  <2>1. /\ u \in Seq(Msg) /\ Len(u) = Len(s) + Len(t)
        /\ \A i \in 1 .. Len(s) + Len(t) : u[i] = IF i <= Len(s) THEN s[i] ELSE t[i - Len(s)]
    BY ConcatProperties
  <2>2. Len(s) \in Nat /\ Len(t) \in Nat
    BY LenProperties
  <2> HIDE DEF u
  <2>3. /\ x \in Seq(Nat) /\ Len(x) = Len(s) /\ \A i \in 1 .. Len(s) : x[i] = s[i].n
        /\ y \in Seq(Nat) /\ Len(y) = Len(t) /\ \A i \in 1 .. Len(t) : y[i] = t[i].n
        /\ z \in Seq(Nat) /\ Len(z) = Len(u) /\ \A i \in 1 .. Len(u) : z[i] = u[i].n
    BY <2>1, NumbersFacts
  <2> HIDE DEF x, y, z
  <2> DEFINE w == x \o y
  <2>4. /\ w \in Seq(Nat) /\ Len(w) = Len(x) + Len(y)
        /\ \A i \in 1 .. Len(x) + Len(y) : w[i] = IF i <= Len(x) THEN x[i] ELSE y[i - Len(x)]
    <3>1. x \in Seq(Nat) /\ y \in Seq(Nat)
      BY <2>3
    <3> QED
      BY <3>1, ConcatProperties
  <2> HIDE DEF w
  <2>5. ASSUME NEW i \in 1 .. Len(z)
        PROVE  z[i] = w[i]
    <3>1. CASE i <= Len(s)
      <4>1. i \in 1 .. Len(s) /\ i \in 1 .. Len(s) + Len(t)
        BY <2>1, <2>2, <2>3, <3>1
      <4>2. z[i] = s[i].n
        BY <2>1, <2>3, <3>1, <4>1
      <4>3. w[i] = x[i]
        BY <2>3, <2>4, <3>1, <4>1
      <4> QED
        BY <2>3, <4>1, <4>2, <4>3
    <3>2. CASE i > Len(s)
      <4>1. i - Len(s) \in 1 .. Len(t) /\ i \in 1 .. Len(s) + Len(t) /\ ~(i <= Len(s))
        BY <2>1, <2>2, <2>3, <3>2
      <4>2. z[i] = t[i - Len(s)].n
        BY <2>1, <2>3, <4>1
      <4>3. w[i] = y[i - Len(s)]
        BY <2>3, <2>4, <4>1
      <4> QED
        BY <2>3, <4>1, <4>2, <4>3
    <3> QED
      BY <2>1, <2>2, <2>3, <3>1, <3>2
  <2>6. z = w
    BY <2>1, <2>3, <2>4, <2>5, SeqEqual
  <2> QED
    BY <2>1, <2>6 DEF u, w, x, y, z
<1> QED
  BY <1>1, <1>2, <1>3

\* A sequence is its head and its tail, and what is before and behind its k-th element.
LEMMA Split ==
  ASSUME NEW S, NEW s \in Seq(S), s # <<>>
  PROVE  Head(s) \in S /\ Tail(s) \in Seq(S) /\ s = <<Head(s)>> \o Tail(s)
<1>1. Len(s) \in Nat /\ Len(s) >= 1
  BY EmptySeq
<1>2. 1 \in 1 .. Len(s) /\ Len(s) \in 1 .. Len(s)
  BY <1>1
<1>3. SubSeq(s, 1, Len(s)) = <<s[1]>> \o SubSeq(s, 1 + 1, Len(s))
  BY <1>2, SubSeqRecursiveFirst
<1>4. SubSeq(s, 1, Len(s)) = s /\ Tail(s) = SubSeq(s, 2, Len(s)) /\ Head(s) = s[1]
  BY SubSeqFull, TailIsSubSeq
<1>5. Head(s) \in S /\ Tail(s) \in Seq(S)
  BY HeadTailProperties
<1> QED
  BY <1>3, <1>4, <1>5

LEMMA SplitAt ==
  ASSUME NEW S, NEW s \in Seq(S), NEW k \in 1 .. Len(s)
  PROVE  LET x == SubSeq(s, 1, k - 1)
             y == SubSeq(s, k + 1, Len(s))
         IN x \in Seq(S) /\ y \in Seq(S) /\ s[k] \in S /\ s = x \o (<<s[k]>> \o y)
<1>1. Len(s) \in Nat /\ k \in Nat /\ 1 <= k /\ k <= Len(s) /\ (k - 1) + 1 = k
  BY LenProperties
<1>2. s[k] \in S
  BY ElementOfSeq
<1>3. SubSeq(s, k, Len(s)) = <<s[k]>> \o SubSeq(s, k + 1, Len(s))
  <2>1. Len(s) \in k .. Len(s)
    BY <1>1
  <2> QED
    BY <2>1, SubSeqRecursiveFirst
<1>4. SubSeq(s, 1, k - 1) \o SubSeq(s, (k - 1) + 1, Len(s)) = SubSeq(s, 1, Len(s))
  <2>1. 1 \in 1 .. Len(s) + 1 /\ k - 1 \in 1 - 1 .. Len(s) /\ Len(s) \in k - 1 .. Len(s)
    BY <1>1
  <2> QED
    BY <2>1, ConcatAdjacentSubSeq
<1>5. SubSeq(s, 1, Len(s)) = s
  BY SubSeqFull
<1>6. SubSeq(s, 1, k - 1) \in Seq(S) /\ SubSeq(s, k + 1, Len(s)) \in Seq(S)
  OBVIOUS
<1> QED
  BY <1>1, <1>2, <1>3, <1>4, <1>5, <1>6

-----------------------------------------------------------------------------
(* What becomes of a flow.                                                 *)

\* The parts of a flow.
FlowTyped(cl, r) == cl.handled \in Seq(Nat) /\ cl.pending \in Seq(Msg) /\ r.down \in Seq(Msg)

LEMMA FlowFacts ==
  ASSUME NEW cl, NEW r, FlowTyped(cl, r)
  PROVE  /\ Arrived(cl) \in Seq(Nat) /\ Flow(cl, r) \in Seq(Nat) /\ Numbers(r.down) \in Seq(Nat)
         /\ Range(Arrived(cl)) = Range(cl.handled) \cup {m.n : m \in Range(cl.pending)}
         /\ Range(Flow(cl, r)) = Range(Arrived(cl)) \cup {m.n : m \in Range(r.down)}
<1> DEFINE x == cl.handled
           y == Numbers(cl.pending)
           z == Numbers(r.down)
           a == x \o y
<1>1. x \in Seq(Nat) /\ y \in Seq(Nat) /\ z \in Seq(Nat)
      /\ Range(y) = {m.n : m \in Range(cl.pending)} /\ Range(z) = {m.n : m \in Range(r.down)}
  BY NumbersFacts DEF FlowTyped
<1> HIDE DEF x, y, z
<1>2. a \in Seq(Nat) /\ Range(a) = Range(x) \cup Range(y)
  BY <1>1, Joined
<1> HIDE DEF a
<1>3. a \o z \in Seq(Nat) /\ Range(a \o z) = Range(a) \cup Range(z)
  BY <1>1, <1>2, Joined
<1>4. Arrived(cl) = a /\ Flow(cl, r) = a \o z
  BY DEF Arrived, Flow, a, x, y, z
<1> QED
  BY <1>1, <1>2, <1>3, <1>4 DEF x, y, z

\* Another message arrives at the end of what has.
LEMMA ArrivedMore ==
  ASSUME NEW cl, NEW q, NEW m \in Msg, cl.handled \in Seq(Nat), cl.pending \in Seq(Msg),
         \/ q.handled = cl.handled /\ q.pending = Append(cl.pending, m)
         \/ cl.pending = <<>> /\ q.pending = <<>> /\ q.handled = Append(cl.handled, m.n)
  PROVE  Arrived(q) = Arrived(cl) \o <<m.n>>
<1> DEFINE x == cl.handled
           y == Numbers(cl.pending)
<1>1. m.n \in Nat /\ <<m>> \in Seq(Msg) /\ Numbers(<<m>>) = <<m.n>> /\ <<m.n>> \in Seq(Nat)
  BY NumbersJoined, One
<1>2. x \in Seq(Nat) /\ y \in Seq(Nat) /\ Arrived(cl) = x \o y
  BY NumbersFacts DEF Arrived
<1>3. CASE q.handled = cl.handled /\ q.pending = Append(cl.pending, m)
  <2>1. q.pending = cl.pending \o <<m>>
    BY <1>3, AppendIsConcat
  <2>2. Numbers(q.pending) = y \o <<m.n>>
    BY <1>1, <2>1, NumbersJoined
  <2>3. Arrived(q) = x \o (y \o <<m.n>>)
    BY <1>3, <2>2 DEF Arrived
  <2> HIDE DEF x, y
  <2>4. (x \o y) \o <<m.n>> = x \o (y \o <<m.n>>)
    BY <1>1, <1>2, ConcatAssociative
  <2> QED
    BY <1>2, <2>3, <2>4
<1>4. CASE cl.pending = <<>> /\ q.pending = <<>> /\ q.handled = Append(cl.handled, m.n)
  <2>1. q.handled = x \o <<m.n>> /\ x \o <<m.n>> \in Seq(Nat)
    BY <1>1, <1>2, <1>4, AppendIsConcat, ConcatProperties
  <2>2. Arrived(q) = (x \o <<m.n>>) \o <<>> /\ Arrived(cl) = x \o <<>>
    BY <1>4, <2>1, NumbersJoined DEF Arrived
  <2>3. Arrived(q) = x \o <<m.n>> /\ Arrived(cl) = x
    BY <1>2, <2>1, <2>2, ConcatEmptySeq
  <2> QED
    BY <2>3
<1> QED
  BY <1>3, <1>4

\* The first message in the socket is gone, or has arrived.
LEMMA HeadLeaves ==
  ASSUME NEW cl, NEW r, FlowTyped(cl, r), r.down # <<>>
  PROVE  /\ Head(r.down) \in Msg /\ Head(r.down).n \in Nat /\ Tail(r.down) \in Seq(Msg)
         /\ Flow(cl, r) = Arrived(cl) \o (<<Head(r.down).n>> \o Numbers(Tail(r.down)))
         /\ Flow(cl, r) = (Arrived(cl) \o <<Head(r.down).n>>) \o Numbers(Tail(r.down))
<1> DEFINE m == Head(r.down)
           t == Tail(r.down)
           z == Numbers(t)
           a == Arrived(cl)
<1>1. m \in Msg /\ t \in Seq(Msg) /\ r.down = <<m>> \o t
  BY Split DEF FlowTyped
<1> HIDE DEF m, t
<1>2. m.n \in Nat /\ <<m>> \in Seq(Msg) /\ Numbers(<<m>>) = <<m.n>> /\ <<m.n>> \in Seq(Nat)
  BY <1>1, NumbersJoined, One
<1>3. Numbers(r.down) = <<m.n>> \o z
  BY <1>1, <1>2, NumbersJoined
<1>4. z \in Seq(Nat) /\ a \in Seq(Nat)
  BY <1>1, NumbersFacts, FlowFacts
<1>5. Flow(cl, r) = a \o (<<m.n>> \o z)
  BY <1>3 DEF Flow
<1> HIDE DEF a, z
<1>6. (a \o <<m.n>>) \o z = a \o (<<m.n>> \o z)
  BY <1>2, <1>4, ConcatAssociative
<1> QED
  BY <1>1, <1>2, <1>5, <1>6 DEF a, z, m, t

\* Joining, without what the provers know of it themselves.
Join(x, y) == x \o y

LEMMA Associative == \A f, g, k \in Seq(Nat) : (f \o g) \o k = f \o (g \o k)
BY ConcatAssociative

LEMMA Regroup ==
  \A f, g, k \in Seq(Nat) : Join(f, g) \in Seq(Nat) /\ Join(Join(f, g), k) = Join(f, Join(g, k))
<1> SUFFICES ASSUME NEW f \in Seq(Nat), NEW g \in Seq(Nat), NEW k \in Seq(Nat)
             PROVE  f \o g \in Seq(Nat) /\ (f \o g) \o k = f \o (g \o k)
  BY DEF Join
<1>1. (f \o g) \o k = f \o (g \o k)
  BY ZenonT(30), Associative
<1>2. f \o g \in Seq(Nat)
  BY ConcatProperties
<1> QED
  BY <1>1, <1>2

\* A waiter takes a message out of the buffer.
LEMMA TakenFlow ==
  ASSUME NEW cl, NEW r, FlowTyped(cl, r), NEW k \in 1 .. Len(cl.pending), NEW q, q.handled = cl.handled,
         q.pending = SubSeq(cl.pending, 1, k - 1) \o SubSeq(cl.pending, k + 1, Len(cl.pending))
  PROVE  /\ q.pending \in Seq(Msg) /\ Range(q.pending) \subseteq Range(cl.pending)
         /\ Numbers(cl.pending)[k] = 0 => /\ Range(Flow(q, r)) \subseteq Range(Flow(cl, r))
                                          /\ Kept(cl, r) /\ 0 \notin r.good => Kept(q, r)
<1> DEFINE s == cl.pending
           m == s[k]
           a == SubSeq(s, 1, k - 1)
           b == SubSeq(s, k + 1, Len(s))
           h == cl.handled
           x == h \o Numbers(a)
           y == Numbers(b)
           z == Numbers(r.down)
<1>1. a \in Seq(Msg) /\ b \in Seq(Msg) /\ m \in Msg /\ s = a \o (<<m>> \o b) /\ s \in Seq(Msg)
  <2>1. s \in Seq(Msg)
    BY DEF FlowTyped
  <2> QED
    BY <2>1, SplitAt
<1>2. q.pending = a \o b /\ Arrived(q) = h \o Numbers(q.pending) /\ Arrived(cl) = h \o Numbers(s)
  BY DEF Arrived
<1>3. h \in Seq(Nat) /\ z \in Seq(Nat) /\ Flow(cl, r) = Arrived(cl) \o z /\ Flow(q, r) = Arrived(q) \o z
  BY NumbersFacts DEF FlowTyped, Flow
<1>0. Numbers(s)[k] = m.n
  BY <1>1, NumbersFacts
<1> HIDE DEF s, m, a, b, h, z
<1>4. m.n \in Nat /\ <<m>> \in Seq(Msg) /\ Numbers(<<m>>) = <<m.n>> /\ <<m.n>> \in Seq(Nat)
  BY <1>1, NumbersJoined, One
<1> DEFINE c == <<m>>
           t == c \o b
<1>5. /\ Numbers(s) = Numbers(a) \o (<<m.n>> \o y) /\ a \o b \in Seq(Msg) /\ Numbers(a \o b) = Numbers(a) \o y
  <2>1. c \in Seq(Msg) /\ Numbers(c) = <<m.n>> /\ s = a \o t
    BY <1>1, <1>4
  <2> HIDE DEF c
  <2>2. t \in Seq(Msg) /\ Numbers(t) = <<m.n>> \o y
    BY ZenonT(30), <1>1, <2>1, NumbersJoined
  <2> HIDE DEF t
  <2>3. Numbers(s) = Numbers(a) \o Numbers(t)
    BY <1>1, <2>1, <2>2, NumbersJoined
  <2>4. a \o b \in Seq(Msg) /\ Numbers(a \o b) = Numbers(a) \o y
    BY <1>1, NumbersJoined
  <2> QED
    BY <2>2, <2>3, <2>4
<1> DEFINE e == Numbers(a)
           w == <<m.n>>
<1>6. e \in Seq(Nat) /\ y \in Seq(Nat)
  BY <1>1, NumbersFacts
<1>7. w \in Seq(Nat) /\ Numbers(s) = e \o (w \o y) /\ Numbers(q.pending) = e \o y
  BY <1>2, <1>4, <1>5
<1> HIDE DEF e, w, y
<1>8. /\ x \in Seq(Nat) /\ h \o (e \o (w \o y)) = x \o (w \o y) /\ h \o (e \o y) = x \o y
      /\ (x \o (w \o y)) \o z = x \o (w \o (y \o z)) /\ (x \o y) \o z = x \o (y \o z)
  <2>1. h \in Seq(Nat) /\ e \in Seq(Nat) /\ w \in Seq(Nat) /\ y \in Seq(Nat) /\ z \in Seq(Nat)
    BY <1>3, <1>6, <1>7
  <2>2. x = Join(h, e)
    BY DEF x, e, Join
  <2> HIDE DEF x
  <2>3. /\ x \in Seq(Nat) /\ Join(h, Join(e, Join(w, y))) = Join(x, Join(w, y)) /\ Join(h, Join(e, y)) = Join(x, y)
        /\ Join(Join(x, Join(w, y)), z) = Join(x, Join(w, Join(y, z))) /\ Join(Join(x, y), z) = Join(x, Join(y, z))
    BY <2>1, <2>2, Regroup
  <2> QED
    BY <2>3 DEF Join
<1> HIDE DEF x
<1>9. /\ Arrived(cl) = x \o (w \o y) /\ Arrived(q) = x \o y
      /\ Flow(cl, r) = x \o (w \o (y \o z)) /\ Flow(q, r) = x \o (y \o z)
  BY <1>2, <1>3, <1>7, <1>8
<1>10. Range(q.pending) \subseteq Range(s)
  <2> DEFINE u == q.pending
  <2>1. \A i \in 1 .. Len(u) : \E j \in 1 .. Len(s) : u[i] = s[j]
    <3>1. s \in Seq(Msg) /\ k \in 1 .. Len(s) /\ u = SubSeq(s, 1, k - 1) \o SubSeq(s, k + 1, Len(s))
      BY DEF s, FlowTyped
    <3> HIDE DEF u
    <3> QED
      BY <3>1, TakenOut
  <2>2. DOMAIN u = 1 .. Len(u) /\ DOMAIN s = 1 .. Len(s)
    BY <1>1, <1>2, <1>5, LenProperties
  <2> HIDE DEF u
  <2>3. Range(u) \subseteq Range(s)
    BY <2>1, <2>2 DEF Range
  <2> QED
    BY <2>3 DEF u
<1>11. ASSUME m.n = 0
       PROVE  /\ Range(Flow(q, r)) \subseteq Range(Flow(cl, r))
              /\ Kept(cl, r) /\ 0 \notin r.good => Kept(q, r)
  <2>1. y \o z \in Seq(Nat) /\ w = <<0>> /\ x \in Seq(Nat) /\ y \in Seq(Nat)
    <3>1. w = <<0>>
      BY <1>11 DEF w
    <3>2. y \o z \in Seq(Nat)
      BY <1>3, <1>6, ConcatProperties
    <3> QED
      BY <1>6, <1>8, <3>1, <3>2
  <2> DEFINE v == y \o z
             aa == Arrived(cl)
             bb == Arrived(q)
             f == Flow(cl, r)
             g == Flow(q, r)
  <2>2. v \in Seq(Nat) /\ f = x \o (<<0>> \o v) /\ g = x \o v /\ aa = x \o (<<0>> \o y) /\ bb = x \o y
    BY <1>9, <2>1
  <2> HIDE DEF v, aa, bb, f, g
  <2>3. Range(f) = Range(g) \cup {0} /\ (InOrder(f) => InOrder(g))
    BY <2>1, <2>2, Thinned
  <2>4. Range(aa) = Range(bb) \cup {0}
    BY <2>1, <2>2, Thinned
  <2>5. ASSUME Kept(cl, r), 0 \notin r.good
         PROVE  Kept(q, r)
    <3>1. InOrder(f) /\ r.good \subseteq Range(f) /\ Range(aa) \subseteq r.good \cup {0}
      BY <2>5 DEF Kept, f, aa
    <3>2. InOrder(g) /\ r.good \subseteq Range(g) /\ Range(bb) \subseteq r.good \cup {0}
      BY <2>3, <2>4, <2>5, <3>1
    <3> QED
      BY <3>2 DEF Kept, g, bb
  <2>6. Range(Flow(q, r)) \subseteq Range(Flow(cl, r))
    BY <2>3 DEF f, g
  <2> QED
    BY <2>5, <2>6
<1> QED
  BY <1>0, <1>2, <1>5, <1>10, <1>11 DEF s

\* The pump takes over the buffer.
LEMMA PumpedFlow ==
  ASSUME NEW cl, NEW r, FlowTyped(cl, r), NEW q, q.pending = <<>>, q.handled = cl.handled \o Numbers(cl.pending)
  PROVE  Arrived(q) = Arrived(cl) /\ Flow(q, r) = Flow(cl, r) /\ q.handled \in Seq(Nat)
<1> DEFINE a == cl.handled \o Numbers(cl.pending)
<1>1. Arrived(cl) = a /\ a \in Seq(Nat)
  BY FlowFacts DEF Arrived
<1>2. Arrived(q) = a \o <<>>
  BY NumbersJoined DEF Arrived
<1> HIDE DEF a
<1>3. Arrived(q) = a
  BY <1>1, <1>2, ConcatEmptySeq
<1> QED
  BY <1>1, <1>3 DEF Flow, a

LEMMA Appended ==
  ASSUME NEW s \in Seq(Msg), NEW m \in Msg
  PROVE  Range(Append(s, m)) = Range(s) \cup {m}
<1> DEFINE t == Append(s, m)
<1>1. /\ t \in Seq(Msg) /\ Len(t) = Len(s) + 1 /\ \A i \in 1 .. Len(s) : t[i] = s[i]
      /\ t[Len(s) + 1] = m /\ DOMAIN s = 1 .. Len(s) /\ DOMAIN t = 1 .. Len(t) /\ Len(s) \in Nat
  BY AppendProperties, LenProperties
<1> HIDE DEF t
<1>2. \A i \in 1 .. Len(t) : i \in 1 .. Len(s) \/ i = Len(s) + 1
  BY <1>1
<1>3. \A i \in 1 .. Len(s) : i \in 1 .. Len(t)
  BY <1>1
<1>4. Len(s) + 1 \in 1 .. Len(t)
  BY <1>1
<1>5. Range(t) \subseteq Range(s) \cup {m}
  BY <1>1, <1>2 DEF Range
<1>6. Range(s) \subseteq Range(t)
  BY <1>1, <1>3 DEF Range
<1>7. m \in Range(t)
  BY <1>1, <1>4 DEF Range
<1> QED
  BY <1>5, <1>6, <1>7 DEF t

\* The relay sends one more message.
LEMMA SentFlow ==
  ASSUME NEW cl, NEW r, FlowTyped(cl, r), NEW m \in Msg, NEW w, w.down = Append(r.down, m)
  PROVE  /\ w.down \in Seq(Msg) /\ m.n \in Nat /\ Flow(cl, w) = Flow(cl, r) \o <<m.n>>
         /\ Range(w.down) = Range(r.down) \cup {m}
<1> DEFINE a == Arrived(cl)
           z == Numbers(r.down)
<1>1. m.n \in Nat /\ <<m>> \in Seq(Msg) /\ Numbers(<<m>>) = <<m.n>> /\ <<m.n>> \in Seq(Nat)
  BY NumbersJoined, One
<1>2. r.down \in Seq(Msg) /\ w.down = r.down \o <<m>> /\ w.down \in Seq(Msg)
  BY AppendIsConcat, AppendProperties DEF FlowTyped
<1>3. Numbers(w.down) = z \o <<m.n>>
  BY <1>1, <1>2, NumbersJoined
<1>4. a \in Seq(Nat) /\ z \in Seq(Nat) /\ Flow(cl, r) = a \o z /\ Flow(cl, w) = a \o (z \o <<m.n>>)
  BY <1>3, FlowFacts DEF Flow
<1> HIDE DEF a, z
<1>5. Flow(cl, w) = Flow(cl, r) \o <<m.n>>
  BY <1>1, <1>4, ConcatAssociative
<1>6. Range(w.down) = Range(r.down) \cup {m}
  BY <1>2, Appended
<1> QED
  BY <1>1, <1>2, <1>5, <1>6

-----------------------------------------------------------------------------
(* A message comes in.                                                     *)

\* Where a message that is delivered goes: to the waiter, to the pump, or to the buffer.
Placed(cl, q, m) ==
  \/ m.type \in HandshakeTypes /\ q.handled = cl.handled /\ q.pending = cl.pending
  \/ cl.pump /\ q.pending = cl.pending /\ q.handled = Append(cl.handled, m.n)
  \/ ~cl.pump /\ q.handled = cl.handled /\ q.pending = Append(cl.pending, m)

LEMMA DeliverFacts ==
  ASSUME NEW cl, DOMAIN cl = DOMAIN NewClient, NEW m
  PROVE  LET q == Deliver(cl, m)
         IN /\ Placed(cl, q, m) /\ DOMAIN q = DOMAIN cl
            /\ q.pump = cl.pump /\ q.armed = cl.armed /\ q.ws = cl.ws /\ q.v2 = cl.v2 /\ q.authed = cl.authed
<1>1. CASE Awaited(cl.waiting, m)
  <2>1. m.type \in HandshakeTypes
    BY <1>1 DEF Awaited, HandshakeTypes
  <2>2. Deliver(cl, m) = [cl EXCEPT !.waiting = "none", !.got = m]
    BY <1>1 DEF Deliver
  <2> QED
    BY <2>1, <2>2, Shapes DEF Placed
<1>2. CASE ~Awaited(cl.waiting, m) /\ cl.pump
  <2>1. Deliver(cl, m) = [cl EXCEPT !.handled = Append(cl.handled, m.n)]
    BY <1>2, Shapes DEF Deliver
  <2> QED
    BY <1>2, <2>1, Shapes DEF Placed
<1>3. CASE ~Awaited(cl.waiting, m) /\ ~cl.pump
  <2>1. Deliver(cl, m) = [cl EXCEPT !.pending = Append(cl.pending, m)]
    BY <1>3, Shapes DEF Deliver
  <2> QED
    BY <1>3, <2>1, Shapes DEF Placed
<1> QED
  BY <1>1, <1>2, <1>3

LEMMA OnMessageFacts ==
  ASSUME NEW cl, DOMAIN cl = DOMAIN NewClient, NEW m
  PROVE  LET q == OnMessage(cl, m)
         IN /\ q.pump = cl.pump /\ q.armed = cl.armed /\ q.ws = cl.ws
            /\ \/ q = cl /\ (~Decodes(cl, m) \/ (m.type = "hello.accepted" /\ ~cl.armed))
               \/ Placed(cl, q, m) /\ m.type = "hello.accepted" /\ q.authed /\ q.v2 = IsProtocolV2(m.version)
               \/ /\ Placed(cl, q, m) /\ m.type # "hello.accepted" /\ Decodes(cl, m)
                  /\ q.authed = cl.authed /\ q.v2 = cl.v2
<1> DEFINE q == OnMessage(cl, m)
           d == [cl EXCEPT !.v2 = IsProtocolV2(m.version), !.authed = TRUE]
<1>1. /\ DOMAIN d = DOMAIN NewClient /\ d.v2 = IsProtocolV2(m.version) /\ d.authed
      /\ d.pump = cl.pump /\ d.armed = cl.armed /\ d.ws = cl.ws /\ d.handled = cl.handled /\ d.pending = cl.pending
  BY Shapes
<1>2. CASE ~Decodes(cl, m) \/ (m.type = "hello.accepted" /\ ~cl.armed)
  <2>1. q = cl
    BY <1>2 DEF OnMessage
  <2> QED
    BY <1>2, <2>1
<1>3. CASE Decodes(cl, m) /\ m.type = "hello.accepted" /\ cl.armed
  <2> DEFINE e == Deliver(d, m)
  <2>1. q = e
    BY <1>3 DEF OnMessage
  <2> HIDE DEF d
  <2>2. Placed(d, e, m) /\ e.pump = d.pump /\ e.armed = d.armed /\ e.ws = d.ws /\ e.v2 = d.v2 /\ e.authed = d.authed
    BY <1>1, DeliverFacts
  <2> HIDE DEF e
  <2> QED
    BY <1>1, <1>3, <2>1, <2>2 DEF Placed
<1>4. CASE Decodes(cl, m) /\ m.type # "hello.accepted"
  <2>1. q = Deliver(cl, m)
    BY <1>4 DEF OnMessage
  <2> QED
    BY <1>4, <2>1, DeliverFacts
<1> QED
  BY <1>2, <1>3, <1>4

\* A client that understands the relay decodes just what decodes in the relay's version.
LEMMA DecodesAlike ==
  ASSUME NEW cl, NEW r, Understands(cl, r), NEW m, m.type \in IF r.v2 THEN V2Types ELSE V1Types
  PROVE  Decodes(cl, m) <=> DecodeInbound("agent", TRUE, r.v2, m.type, m.flaw) = "ok"
<1>1. V1Types \subseteq V2Types
  BY DEF V2Types
<1> QED
  BY <1>1 DEF Understands, Decodes, DecodeInbound, ValidateInbound

LEMMA AcceptDecodes ==
  ASSUME NEW cl, NEW e, NEW v
  PROVE  /\ Decodes(cl, Accepted(e, v)) /\ Accepted(e, v).type = "hello.accepted"
         /\ Accepted(e, v).n = 0 /\ Accepted(e, v).flaw = "none" /\ Accepted(e, v).version = v
<1> DEFINE m == Accepted(e, v)
<1>1. m.type = "hello.accepted" /\ m.flaw = "none" /\ m.n = 0 /\ m.version = v
  BY DEF Accepted, NoMsg
<1> HIDE DEF m
<1>2. "hello.accepted" \in V1Types /\ "hello.accepted" \in V2Types /\ "hello.accepted" \in HandshakeTypes
  BY DEF V1Types, V2Types, ToAgent, HandshakeTypes
<1>3. Direction("hello.accepted") = "s2a"
  BY DEF Direction, ToAgent, EitherWay
<1>4. Decodes(cl, m)
  BY <1>1, <1>2, <1>3 DEF Decodes, DecodeInbound, ValidateInbound
<1> QED
  BY <1>1, <1>4 DEF m

\* A frame does not come in before the accept, and it decodes if it is good.
LEMMA FirstIn ==
  ASSUME NEW cl, NEW r, r.down \in Seq(Msg), r.down # <<>>, Encoded(r, Head(r.down)),
         AcceptFirst(cl, r), r.good \subseteq Nat \ {0}
  PROVE  LET m == Head(r.down)
         IN m.n # 0 => Understands(cl, r) /\ (Decodes(cl, m) <=> m.n \in r.good)
<1> DEFINE m == Head(r.down)
<1>1. m = r.down[1] /\ 1 \in 1 .. Len(r.down) /\ Len(r.down) \in Nat
  BY QueueFacts, LenProperties
<1>0. Encoded(r, m)
  OBVIOUS
<1> HIDE DEF m
<1>2. PICK p \in 0 .. Len(r.down) :
        /\ \A i \in 1 .. Len(r.down) : r.down[i].n = 0 <=> i <= p
        /\ p = 0 => Understands(cl, r)
  BY DEF AcceptFirst
<1>3. ASSUME m.n # 0
      PROVE  Understands(cl, r) /\ (Decodes(cl, m) <=> m.n \in r.good)
  <2>1. ~(1 <= p)
    BY <1>1, <1>2, <1>3
  <2>2. p = 0
    BY <1>1, <2>1
  <2>3. Understands(cl, r)
    BY <1>2, <2>2
  <2>4. m.type \in IF r.v2 THEN V2Types ELSE V1Types
    BY <1>0, <1>3 DEF Encoded
  <2>5. Decodes(cl, m) <=> DecodeInbound("agent", TRUE, r.v2, m.type, m.flaw) = "ok"
    BY <2>3, <2>4, DecodesAlike
  <2> QED
    BY <1>0, <1>3, <2>3, <2>5 DEF Encoded
<1> QED
  BY <1>3 DEF m

\* The next message is the first one now; the client may have had the accept.
LEMMA AcceptNext ==
  ASSUME NEW cl, NEW r, r.down \in Seq(Msg), r.down # <<>>, AcceptFirst(cl, r), NEW m, m = Head(r.down),
         Sendable(m), NEW q, NEW w, w.down = Tail(r.down), w.v2 = r.v2,
         \/ q = cl /\ ~Decodes(cl, m)
         \/ m.type = "hello.accepted" /\ q.authed /\ q.v2 = IsProtocolV2(m.version)
         \/ m.type # "hello.accepted" /\ q.authed = cl.authed /\ q.v2 = cl.v2
  PROVE  AcceptFirst(q, w)
<1> DEFINE s == r.down
           t == Tail(s)
<1>1. /\ m = s[1] /\ Len(s) \in Nat /\ Len(s) >= 1 /\ Len(t) = Len(s) - 1
      /\ \A i \in 1 .. Len(t) : t[i] = s[i + 1]
  BY HeadTailProperties, EmptySeq, QueueFacts
<1> HIDE DEF s, t
<1>2. w.down = t /\ r.down = s
  BY DEF s, t
<1>3. PICK p \in 0 .. Len(s) :
        /\ \A i \in 1 .. Len(s) : s[i].n = 0 <=> i <= p
        /\ IF p = 0 THEN Understands(cl, r)
           ELSE s[p] = Accepted(s[p].epoch, s[p].version) /\ IsProtocolV2(s[p].version) = r.v2
  BY <1>2 DEF AcceptFirst
<1>4. p \in Nat /\ p <= Len(s)
  BY <1>1
<1>5. CASE p = 0
  <2>1. Understands(q, w)
    <3>1. Understands(cl, r) /\ 1 \in 1 .. Len(s) /\ ~(1 <= p)
      BY <1>1, <1>3, <1>5
    <3>2. CASE q = cl
      BY <1>2, <3>1, <3>2 DEF Understands
    <3>3. CASE q.authed = cl.authed /\ q.v2 = cl.v2
      BY <1>2, <3>1, <3>3 DEF Understands
    <3>4. m.type # "hello.accepted"
      BY <1>1, <1>3, <3>1 DEF Sendable, HandshakeTypes
    <3> QED
      BY <3>2, <3>3, <3>4
  <2>2. ASSUME NEW i \in 1 .. Len(t) PROVE ~(t[i].n = 0) /\ ~(i <= 0)
    <3>1. i + 1 \in 1 .. Len(s) /\ ~(i + 1 <= p) /\ ~(i <= 0)
      BY <1>1, <1>5
    <3> QED
      BY <1>1, <1>3, <3>1
  <2>3. 0 \in 0 .. Len(t)
    BY <1>1
  <2> QED
    BY <1>2, <2>1, <2>2, <2>3 DEF AcceptFirst
<1>6. CASE p = 1
  <2>1. m = Accepted(m.epoch, m.version) /\ IsProtocolV2(m.version) = r.v2
    BY <1>1, <1>3, <1>6
  <2>2. Decodes(cl, m) /\ m.type = "hello.accepted"
    BY <2>1, AcceptDecodes
  <2>3. Understands(q, w)
    BY <2>1, <2>2 DEF Understands
  <2>4. ASSUME NEW i \in 1 .. Len(t) PROVE ~(t[i].n = 0) /\ ~(i <= 0)
    <3>1. i + 1 \in 1 .. Len(s) /\ ~(i + 1 <= p) /\ ~(i <= 0)
      BY <1>1, <1>6
    <3> QED
      BY <1>1, <1>3, <3>1
  <2>5. 0 \in 0 .. Len(t)
    BY <1>1
  <2> QED
    BY <1>2, <2>3, <2>4, <2>5 DEF AcceptFirst
<1>7. CASE p > 1
  <2> DEFINE o == p - 1
  <2>1. o \in 0 .. Len(t) /\ o # 0 /\ o \in 1 .. Len(t) /\ o + 1 = p /\ p # 0
    BY <1>1, <1>4, <1>7
  <2>2. ASSUME NEW i \in 1 .. Len(t) PROVE t[i].n = 0 <=> i <= o
    <3>1. i + 1 \in 1 .. Len(s) /\ (i + 1 <= p <=> i <= o)
      BY <1>1, <1>4
    <3> QED
      BY <1>1, <1>3, <3>1
  <2> HIDE DEF o
  <2>3. t[o] = s[p]
    BY <1>1, <2>1
  <2>4. t[o] = Accepted(t[o].epoch, t[o].version) /\ IsProtocolV2(t[o].version) = w.v2
    BY <1>3, <2>1, <2>3
  <2> QED
    BY <1>2, <2>1, <2>2, <2>4 DEF AcceptFirst
<1> QED
  BY <1>4, <1>5, <1>6, <1>7

LEMMA Ranges ==
  ASSUME NEW s \in Seq(Msg)
  PROVE  /\ s # <<>> => Head(s) \in Range(s) /\ Range(Tail(s)) \subseteq Range(s)
         /\ \A m \in Msg : Range(Append(s, m)) = Range(s) \cup {m}
         /\ Range(s) \subseteq Msg
<1>1. DOMAIN s = 1 .. Len(s) /\ Len(s) \in Nat
  BY LenProperties
<1>2. ASSUME s # <<>>
      PROVE  Head(s) \in Range(s) /\ Range(Tail(s)) \subseteq Range(s)
  <2> DEFINE t == Tail(s)
  <2>1. /\ Head(s) = s[1] /\ 1 \in 1 .. Len(s) /\ t \in Seq(Msg)
        /\ \A i \in 1 .. Len(t) : \E j \in 1 .. Len(s) : t[i] = s[j]
    BY <1>2, QueueFacts
  <2>2. DOMAIN t = 1 .. Len(t)
    BY <2>1, LenProperties
  <2> HIDE DEF t
  <2>3. Range(t) \subseteq Range(s)
    BY <1>1, <2>1, <2>2 DEF Range
  <2>4. Head(s) \in Range(s)
    BY <1>1, <2>1 DEF Range
  <2> QED
    BY <2>3, <2>4 DEF t
<1>3. \A m \in Msg : Range(Append(s, m)) = Range(s) \cup {m}
  BY Appended
<1>4. Range(s) \subseteq Msg
  BY <1>1, ElementOfSeq DEF Range
<1> QED
  BY <1>2, <1>3, <1>4

\* A message that arrives is behind all that arrived before.
LEMMA Received ==
  ASSUME NEW cl, cl.handled \in Seq(Nat), cl.pending \in Seq(Msg), cl.pump => cl.pending = <<>>,
         NEW m \in Msg, NEW q, (q.handled = cl.handled /\ q.pending = cl.pending) \/ Placed(cl, q, m)
  PROVE  /\ \/ q.handled = cl.handled /\ q.pending = cl.pending /\ Arrived(q) = Arrived(cl)
               /\ (Placed(cl, q, m) => m.type \in HandshakeTypes)
            \/ Placed(cl, q, m) /\ Arrived(q) = Arrived(cl) \o <<m.n>> /\ Arrived(q) # Arrived(cl)
         /\ q.handled \in Seq(Nat) /\ q.pending \in Seq(Msg) /\ Range(q.pending) \subseteq Range(cl.pending) \cup {m}
         /\ cl.pump => q.pending = <<>>
<1>1. m.n \in Nat
  BY NumbersJoined
<1>2. Append(cl.handled, m.n) # cl.handled /\ Append(cl.pending, m) # cl.pending
  <2>1. Len(Append(cl.handled, m.n)) = Len(cl.handled) + 1 /\ Len(cl.handled) \in Nat
    BY <1>1, AppendProperties, LenProperties
  <2>2. Len(Append(cl.pending, m)) = Len(cl.pending) + 1 /\ Len(cl.pending) \in Nat
    BY AppendProperties, LenProperties
  <2> QED
    BY <2>1, <2>2
<1>3. CASE q.handled = cl.handled /\ q.pending = cl.pending
  BY <1>2, <1>3 DEF Arrived, Placed
<1>4. CASE \/ cl.pump /\ q.pending = cl.pending /\ q.handled = Append(cl.handled, m.n)
           \/ ~cl.pump /\ q.handled = cl.handled /\ q.pending = Append(cl.pending, m)
  <2>1. \/ q.handled = cl.handled /\ q.pending = Append(cl.pending, m)
        \/ cl.pending = <<>> /\ q.pending = <<>> /\ q.handled = Append(cl.handled, m.n)
    BY <1>4
  <2>2. Arrived(q) = Arrived(cl) \o <<m.n>>
    BY <2>1, ArrivedMore
  <2>3. Placed(cl, q, m)
    BY <1>4 DEF Placed
  <2>4. q.handled \in Seq(Nat) /\ q.pending \in Seq(Msg) /\ Range(q.pending) \subseteq Range(cl.pending) \cup {m}
    <3>1. CASE q.handled = cl.handled /\ q.pending = Append(cl.pending, m)
      BY <3>1, AppendProperties, Ranges
    <3>2. CASE cl.pending = <<>> /\ q.pending = <<>> /\ q.handled = Append(cl.handled, m.n)
      BY <1>1, <3>2, AppendProperties
    <3> QED
      BY <2>1, <3>1, <3>2
  <2>5. cl.pump => q.pending = <<>>
    BY <1>4
  <2>6. Arrived(q) # Arrived(cl)
    <3> DEFINE a == Arrived(cl)
    <3>1. a \in Seq(Nat) /\ <<m.n>> \in Seq(Nat) /\ Len(<<m.n>>) = 1
      <4>1. FlowTyped(cl, [down |-> <<>>])
        BY DEF FlowTyped
      <4> QED
        BY <1>1, <4>1, FlowFacts
    <3> HIDE DEF a
    <3>2. Len(a \o <<m.n>>) = Len(a) + 1 /\ Len(a) \in Nat
      BY <3>1, ConcatProperties, LenProperties
    <3> QED
      BY <2>2, <3>2 DEF a
  <2> QED
    BY <2>2, <2>3, <2>4, <2>5, <2>6
<1>5. \/ q.handled = cl.handled /\ q.pending = cl.pending
      \/ cl.pump /\ q.pending = cl.pending /\ q.handled = Append(cl.handled, m.n)
      \/ ~cl.pump /\ q.handled = cl.handled /\ q.pending = Append(cl.pending, m)
  BY DEF Placed
<1> QED
  BY <1>3, <1>4, <1>5

\* A flow that is kept stays so when a number that need not arrive leaves it, or when
\* one that may arrives.
LEMMA KeptReceived ==
  ASSUME NEW a \in Seq(Nat), NEW z \in Seq(Nat), NEW n \in Nat, NEW good,
         InOrder(a \o (<<n>> \o z)), good \subseteq Range(a \o (<<n>> \o z)), Range(a) \subseteq good \cup {0}
  PROVE  /\ n \notin good => InOrder(a \o z) /\ good \subseteq Range(a \o z)
         /\ n \in good \cup {0} => Range(a \o <<n>>) \subseteq good \cup {0}
<1> DEFINE f == a \o (<<n>> \o z)
<1>1. Range(f) = Range(a \o z) \cup {n} /\ (InOrder(f) => InOrder(a \o z))
  BY Thinned
<1>2. Range(a \o <<n>>) = Range(a) \cup {n}
  BY Extended
<1> QED
  BY <1>1, <1>2

LEMMA ReceiveFlows ==
  ASSUME NEW cl, NEW r, LinkTyped(cl, r), Flowing(cl, r), r.down # <<>>,
         NEW w, w.down = Tail(r.down), w.stage = r.stage, w.early = r.early,
         w.v2 = r.v2, w.sent = r.sent, w.good = r.good, w.up = r.up
  PROVE  Flowing(OnMessage(cl, Head(r.down)), w)
<1> DEFINE m == Head(r.down)
           q == OnMessage(cl, m)
           n == m.n
           a == Arrived(cl)
           z == Numbers(w.down)
           f == Flow(cl, r)
<1>1. FlowTyped(cl, r) /\ r.down \in Seq(Msg) /\ r.sent \in Nat /\ r.good \subseteq 1 .. r.sent
      /\ DOMAIN cl = DOMAIN NewClient
  BY Bounds DEF LinkTyped, Flowing, FlowTyped
<1>2. m \in Range(r.down) /\ Range(w.down) \subseteq Range(r.down)
  BY <1>1, Ranges
<1>3. Sendable(m) /\ Encoded(r, m)
  BY <1>2 DEF Flowing
<1>4. /\ m \in Msg /\ n \in Nat /\ w.down \in Seq(Msg) /\ a \in Seq(Nat) /\ z \in Seq(Nat)
      /\ f = a \o (<<n>> \o z) /\ f = (a \o <<n>>) \o z
  <2>1. /\ m \in Msg /\ n \in Nat /\ w.down \in Seq(Msg)
        /\ f = a \o (<<n>> \o z) /\ f = (a \o <<n>>) \o z
    BY <1>1, HeadLeaves
  <2>2. a \in Seq(Nat)
    BY <1>1, FlowFacts
  <2>3. z \in Seq(Nat)
    BY <2>1, NumbersFacts
  <2> QED
    BY <2>1, <2>2, <2>3
<1>5. Serves(r) => (n # 0 => Understands(cl, r) /\ (Decodes(cl, m) <=> n \in r.good))
  <2> SUFFICES ASSUME Serves(r)
               PROVE  n # 0 => Understands(cl, r) /\ (Decodes(cl, m) <=> n \in r.good)
    OBVIOUS
  <2>1. r.good \subseteq Nat \ {0} /\ AcceptFirst(cl, r)
    BY <1>1 DEF Flowing
  <2> QED
    BY <1>1, <1>3, <2>1, FirstIn
<1>6. /\ q.pump = cl.pump /\ q.armed = cl.armed /\ q.ws = cl.ws
      /\ \/ q = cl /\ (~Decodes(cl, m) \/ (m.type = "hello.accepted" /\ ~cl.armed))
         \/ Placed(cl, q, m) /\ m.type = "hello.accepted" /\ q.authed /\ q.v2 = IsProtocolV2(m.version)
         \/ /\ Placed(cl, q, m) /\ m.type # "hello.accepted" /\ Decodes(cl, m)
            /\ q.authed = cl.authed /\ q.v2 = cl.v2
  BY <1>1, OnMessageFacts
<1>7. m = Head(r.down) /\ f = Flow(cl, r) /\ Flow(q, w) = Arrived(q) \o z
  BY DEF Flow
<1> HIDE DEF m, q, a, z, f
<1>8. /\ \/ q.handled = cl.handled /\ q.pending = cl.pending /\ Arrived(q) = a
            /\ (Placed(cl, q, m) => m.type \in HandshakeTypes)
         \/ Placed(cl, q, m) /\ Arrived(q) = a \o <<n>> /\ Arrived(q) # a
      /\ q.handled \in Seq(Nat) /\ q.pending \in Seq(Msg) /\ Range(q.pending) \subseteq Range(cl.pending) \cup {m}
      /\ cl.pump => q.pending = <<>>
  <2>1. cl.handled \in Seq(Nat) /\ cl.pending \in Seq(Msg) /\ (cl.pump => cl.pending = <<>>)
    BY <1>1 DEF Flowing, FlowTyped
  <2>2. (q.handled = cl.handled /\ q.pending = cl.pending) \/ Placed(cl, q, m)
    BY <1>6
  <2> QED
    BY <1>4, <2>1, <2>2, Received DEF a
<1>9. Arrived(cl) = a
  BY DEF a
<1> HIDE DEF n
<1>10. Range(Flow(q, w)) \subseteq Range(f)
  <2>1. Range(f) = Range(a \o z) \cup {n}
    BY <1>4, Thinned
  <2> QED
    BY <1>4, <1>7, <1>8, <2>1 DEF n
<1>11. \A x \in Range(q.pending) \cup Range(w.down) : Sendable(x)
  BY <1>2, <1>3, <1>8 DEF Flowing
<1>12. \A x \in Range(w.down) : Encoded(w, x)
  BY <1>2 DEF Flowing, Encoded
<1>13. ASSUME Serves(w)
       PROVE  AcceptFirst(q, w) /\ Kept(q, w)
  <2>1. AcceptFirst(cl, r) /\ Kept(cl, r) /\ cl.armed /\ Serves(r)
    BY <1>13 DEF Serves, Flowing
  <2>2. AcceptFirst(q, w)
    BY <1>1, <1>3, <1>6, <1>7, <2>1, AcceptNext
  <2>3. InOrder(f) /\ r.good \subseteq Range(f) /\ Range(a) \subseteq r.good \cup {0} /\ 0 \notin r.good
    BY <1>1, <1>7, <1>9, <2>1 DEF Kept
  <2>4. /\ n \notin r.good => InOrder(a \o z) /\ r.good \subseteq Range(a \o z)
        /\ n \in r.good \cup {0} => Range(a \o <<n>>) \subseteq r.good \cup {0}
    <3> DEFINE good == r.good
    <3>1. /\ a \in Seq(Nat) /\ z \in Seq(Nat) /\ n \in Nat /\ InOrder(a \o (<<n>> \o z))
          /\ good \subseteq Range(a \o (<<n>> \o z)) /\ Range(a) \subseteq good \cup {0}
      BY <1>4, <2>3 DEF n
    <3> HIDE DEF good
    <3>2. /\ n \notin good => InOrder(a \o z) /\ good \subseteq Range(a \o z)
          /\ n \in good \cup {0} => Range(a \o <<n>>) \subseteq good \cup {0}
      BY <3>1, KeptReceived
    <3> QED
      BY <3>2 DEF good
  <2>5. n # 0 => m.type \notin HandshakeTypes /\ m.type # "hello.accepted" /\ (Decodes(cl, m) <=> n \in r.good)
    BY <1>3, <1>5, <2>1 DEF Sendable, HandshakeTypes, n
  <2>6. CASE Arrived(q) = a /\ (Placed(cl, q, m) => m.type \in HandshakeTypes)
    <3>1. n \notin r.good
      BY <1>6, <2>3, <2>5, <2>6
    <3>2. InOrder(Flow(q, w)) /\ r.good \subseteq Range(Flow(q, w))
      BY <1>7, <2>4, <2>6, <3>1
    <3> QED
      BY <2>2, <2>3, <2>6, <3>2 DEF Kept
  <2>7. CASE Placed(cl, q, m) /\ Arrived(q) = a \o <<n>> /\ Arrived(q) # a
    <3>1. n \in r.good \cup {0}
      BY <1>6, <1>9, <2>5, <2>7
    <3>2. Flow(q, w) = f
      BY <1>4, <1>7, <2>7
    <3>3. Range(Arrived(q)) \subseteq r.good \cup {0}
      BY <2>4, <2>7, <3>1
    <3> QED
      BY <2>2, <2>3, <3>2, <3>3 DEF Kept
  <2> QED
    BY <1>8, <2>6, <2>7
<1>14. w.stage = "accepted" \/ q.ws \in {"none", "connecting", "open"} => Range(Flow(q, w)) \subseteq 0 .. w.sent
  BY <1>6, <1>7, <1>10 DEF Flowing
<1>15. w.stage = "accepted" \/ "hello" \in Range(w.up) => q.armed
  BY <1>6 DEF Flowing
<1>16. w.stage # "accepted" => w.sent = 0
  BY DEF Flowing
<1>17. Flowing(q, w)
  BY <1>1, <1>6, <1>8, <1>11, <1>12, <1>13, <1>14, <1>15, <1>16 DEF Flowing
<1> QED
  BY <1>17 DEF q, m

-----------------------------------------------------------------------------
(* The other steps of the client.                                          *)

\* The flow stays.
LEMMA QuietFlows ==
  ASSUME NEW cl, NEW r, Flowing(cl, r), NEW q, NEW w,
         q.handled = cl.handled, q.pending = cl.pending, q.pump = cl.pump, cl.armed => q.armed,
         q.ws \in {"none", "connecting", "open"} => cl.ws \in {"none", "connecting", "open"},
         Understands(cl, r) => Understands(q, r),
         w.down = r.down, w.v2 = r.v2, w.stage = r.stage, w.early = r.early, w.sent = r.sent, w.good = r.good,
         "hello" \in Range(w.up) => "hello" \in Range(r.up) \/ q.armed
  PROVE  Flowing(q, w)
<1>1. Arrived(q) = Arrived(cl) /\ Flow(q, w) = Flow(cl, r)
  BY DEF Arrived, Flow
<1>2. \A x : Encoded(r, x) => Encoded(w, x)
  BY DEF Encoded
<1>3. Understands(cl, r) => Understands(q, w)
  BY DEF Understands
<1>4. AcceptFirst(cl, r) => AcceptFirst(q, w)
  BY <1>3 DEF AcceptFirst
<1>5. Serves(w) => Serves(r)
  BY DEF Serves
<1>6. Kept(cl, r) => Kept(q, w)
  BY <1>1 DEF Kept
<1> QED
  BY <1>1, <1>2, <1>4, <1>5, <1>6 DEF Flowing

\* No waiter takes a frame.
LEMMA WaitForFlows ==
  ASSUME NEW cl, NEW r, LinkTyped(cl, r), Flowing(cl, r), NEW w \in {"challenge", "reply"}
  PROVE  Flowing(WaitFor(cl, w), r)
<1> DEFINE hits == {i \in 1 .. Len(cl.pending) : Awaited(w, cl.pending[i])}
           first == CHOOSE i \in hits : \A j \in hits : i <= j
           q == WaitFor(cl, w)
<1>1. FlowTyped(cl, r) /\ cl.pending \in Seq(Msg) /\ DOMAIN cl = DOMAIN NewClient
  BY DEF LinkTyped, Flowing, FlowTyped
<1>2. CASE hits = {}
  <2> DEFINE d == [cl EXCEPT !.waiting = w]
  <2>1. WaitFor(cl, w) = d
    BY <1>2 DEF WaitFor
  <2>2. /\ d.handled = cl.handled /\ d.pending = cl.pending /\ d.pump = cl.pump /\ d.armed = cl.armed
        /\ d.ws = cl.ws /\ d.authed = cl.authed /\ d.v2 = cl.v2
    BY <1>1, Shapes
  <2> HIDE DEF d
  <2>3. Understands(cl, r) => Understands(d, r)
    BY <2>2 DEF Understands
  <2>4. Flowing(d, r)
    BY <2>2, <2>3, QuietFlows
  <2> QED
    BY <2>1, <2>4
<1>3. CASE hits # {}
  <2>1. hits \subseteq Nat
    BY <1>1
  <2>2. first \in hits
    BY <1>3, <2>1, Least
  <2> HIDE DEF first
  <2>3. first \in 1 .. Len(cl.pending) /\ Awaited(w, cl.pending[first])
    BY <2>2
  <2>4. DOMAIN cl.pending = 1 .. Len(cl.pending) /\ cl.pending # <<>>
    BY <1>1, <2>3, LenProperties
  <2>5. cl.pending[first].n = 0 /\ ~cl.pump
    <3>1. cl.pending[first] \in Range(cl.pending)
      BY <2>3, <2>4 DEF Range
    <3>2. Sendable(cl.pending[first]) /\ (cl.pump => cl.pending = <<>>)
      BY <3>1 DEF Flowing
    <3>3. cl.pending[first].type \in HandshakeTypes
      BY <2>3 DEF Awaited, HandshakeTypes
    <3> QED
      BY <2>4, <3>2, <3>3 DEF Sendable
  <2>6. /\ q.handled = cl.handled /\ q.pump = cl.pump /\ q.armed = cl.armed /\ q.ws = cl.ws
        /\ q.authed = cl.authed /\ q.v2 = cl.v2
        /\ q.pending = SubSeq(cl.pending, 1, first - 1) \o SubSeq(cl.pending, first + 1, Len(cl.pending))
    <3>1. q = [cl EXCEPT !.got = cl.pending[first],
                         !.pending = SubSeq(cl.pending, 1, first - 1) \o SubSeq(cl.pending, first + 1, Len(cl.pending))]
      BY <1>1, <1>3, Shapes DEF WaitFor, first
    <3> HIDE DEF q
    <3> QED
      BY <1>1, <3>1, Shapes
  <2> HIDE DEF q
  <2>12. Numbers(cl.pending)[first] = 0
    BY <1>1, <2>3, <2>5, NumbersFacts
  <2>7. /\ q.pending \in Seq(Msg) /\ Range(q.pending) \subseteq Range(cl.pending)
        /\ Range(Flow(q, r)) \subseteq Range(Flow(cl, r))
        /\ Kept(cl, r) /\ 0 \notin r.good => Kept(q, r)
    BY <1>1, <2>3, <2>6, <2>12, TakenFlow
  <2>8. r.good \subseteq 1 .. r.sent /\ r.sent \in Nat
    BY Bounds DEF Flowing, LinkTyped
  <2>9. 0 \notin r.good
    BY <2>8
  <2>10. AcceptFirst(cl, r) => AcceptFirst(q, r)
    BY <2>6 DEF AcceptFirst, Understands
  <2>11. Flowing(q, r)
    BY <2>5, <2>6, <2>7, <2>9, <2>10 DEF Flowing
  <2> QED
    BY <2>11 DEF q
<1> QED
  BY <1>2, <1>3

\* The pump takes over; the client speaks the version the relay serves with.
LEMMA PumpedFlows ==
  ASSUME NEW cl, NEW r, LinkTyped(cl, r), Flowing(cl, r), NEW q, q.pending = <<>>,
         q.handled = cl.handled \o Numbers(cl.pending), q.armed = cl.armed, q.ws = cl.ws,
         Serves(r) => Understands(q, r)
  PROVE  Flowing(q, r)
<1>1. FlowTyped(cl, r)
  BY DEF LinkTyped, Flowing, FlowTyped
<1>2. Arrived(q) = Arrived(cl) /\ Flow(q, r) = Flow(cl, r) /\ q.handled \in Seq(Nat)
  BY <1>1, PumpedFlow
<1>3. Kept(cl, r) => Kept(q, r)
  BY <1>2 DEF Kept
<1>4. Serves(r) /\ AcceptFirst(cl, r) => AcceptFirst(q, r)
  BY DEF AcceptFirst
<1>5. Range(q.pending) = {}
  BY DEF Range
<1> QED
  BY <1>2, <1>3, <1>4, <1>5 DEF Flowing

\* What is left of a session.
LEMMA NothingFlows ==
  ASSUME NEW q, q.handled \in Seq(Nat), q.pending = <<>>, q.ws \in {"closing", "closed"} \/ q.handled = <<>>
  PROVE  Flowing(q, NewRelayEnd)
<1> DEFINE r == NewRelayEnd
<1>1. /\ r.stage = "none" /\ r.sent = 0 /\ r.good = {} /\ r.down = <<>> /\ r.up = <<>>
      /\ Range(<<>>) = {}
  BY DEF NewRelayEnd, Range
<1>2. q.handled = <<>> => Range(Flow(q, r)) = {}
  <2>1. FlowTyped(q, r)
    BY <1>1 DEF FlowTyped
  <2> HIDE DEF r
  <2> QED
    BY <1>1, <2>1, FlowFacts
<1> HIDE DEF r
<1>3. ~Serves(r)
  BY <1>1 DEF Serves
<1>4. Flowing(q, r)
  BY <1>1, <1>2, <1>3 DEF Flowing
<1> QED
  BY <1>4 DEF r

LEMMA EndFlows ==
  ASSUME NEW cl, cl.handled \in Seq(Nat), cl.ws \in Ws \ {"none"}
  PROVE  Flowing(Closing(Dropped(cl)), NewRelayEnd)
<1> DEFINE d == Dropped(cl)
           q == Closing(d)
<1>1. DOMAIN d = DOMAIN NewClient /\ d.ws = cl.ws /\ d.handled = cl.handled /\ d.pending = <<>>
  BY Shapes DEF Dropped
<1> HIDE DEF d
<1>2. q.ws \in {"closing", "closed"} /\ q.handled = cl.handled /\ q.pending = <<>>
  BY <1>1, Shapes DEF Closing, Ws
<1> HIDE DEF q
<1>3. Flowing(q, NewRelayEnd)
  BY <1>2, NothingFlows
<1> QED
  BY <1>3 DEF q, d

-----------------------------------------------------------------------------
(* The relay's messages.                                                   *)

LEMMA Tails ==
  ASSUME NEW S, NEW s \in Seq(S)
  PROVE  /\ s # <<>> => Head(s) \in Range(s) /\ Range(Tail(s)) \subseteq Range(s)
         /\ \A x \in S : Range(Append(s, x)) \subseteq Range(s) \cup {x}
<1>1. DOMAIN s = 1 .. Len(s)
  BY LenProperties
<1>2. ASSUME s # <<>>
      PROVE  Head(s) \in Range(s) /\ Range(Tail(s)) \subseteq Range(s)
  <2> DEFINE t == Tail(s)
  <2>1. /\ Head(s) = s[1] /\ 1 \in 1 .. Len(s) /\ t \in Seq(S)
        /\ \A i \in 1 .. Len(t) : \E j \in 1 .. Len(s) : t[i] = s[j]
    BY <1>2, QueueFacts
  <2>2. DOMAIN t = 1 .. Len(t)
    BY <2>1, LenProperties
  <2> HIDE DEF t
  <2>3. Range(t) \subseteq Range(s)
    BY <1>1, <2>1, <2>2 DEF Range
  <2>4. Head(s) \in Range(s)
    BY <1>1, <2>1 DEF Range
  <2> QED
    BY <2>3, <2>4 DEF t
<1>3. ASSUME NEW x \in S
      PROVE  Range(Append(s, x)) \subseteq Range(s) \cup {x}
  <2> DEFINE t == Append(s, x)
  <2>1. t \in Seq(S) /\ \A i \in 1 .. Len(t) : t[i] = x \/ \E j \in 1 .. Len(s) : t[i] = s[j]
    BY QueueFacts
  <2>2. DOMAIN t = 1 .. Len(t)
    BY <2>1, LenProperties
  <2> HIDE DEF t
  <2>3. Range(t) \subseteq Range(s) \cup {x}
    BY <1>1, <2>1, <2>2 DEF Range
  <2> QED
    BY <2>3 DEF t
<1> QED
  BY <1>2, <1>3

Frameless(m) == m.n = 0 /\ m.flaw = "none"

\* The relay says something that is no frame, before it accepts.
LEMMA SaysFlows ==
  ASSUME NEW cl, NEW r, LinkTyped(cl, r), Flowing(cl, r), r.stage # "accepted",
         NEW m \in Msg, Frameless(m), NEW w, w.down = Append(r.down, m),
         w.stage # "accepted", w.sent = r.sent, w.good = r.good, w.v2 = r.v2,
         "hello" \in Range(w.up) => "hello" \in Range(r.up)
  PROVE  Flowing(cl, w)
<1>1. FlowTyped(cl, r) /\ r.sent = 0 /\ r.good \subseteq 1 .. r.sent /\ r.down \in Seq(Msg)
  BY DEF LinkTyped, Flowing, FlowTyped
<1>2. /\ w.down \in Seq(Msg) /\ Flow(cl, w) = Flow(cl, r) \o <<m.n>>
      /\ Range(w.down) = Range(r.down) \cup {m}
  <2>1. w.down \in Seq(Msg)
    BY <1>1, AppendProperties
  <2>2. Flow(cl, w) = Flow(cl, r) \o <<m.n>>
    BY <1>1, SentFlow
  <2>3. Range(w.down) = Range(r.down) \cup {m}
    BY <1>1, Appended
  <2> QED
    BY <2>1, <2>2, <2>3
<1>3. Range(Flow(cl, w)) = Range(Flow(cl, r)) \cup {0}
  <2> DEFINE f == Flow(cl, r)
             n == m.n
  <2>1. f \in Seq(Nat) /\ n = 0 /\ n \in Nat
    BY <1>1, FlowFacts DEF Frameless
  <2>2. Flow(cl, w) = f \o <<n>>
    BY <1>2
  <2> HIDE DEF f, n
  <2>3. Range(f \o <<n>>) = Range(f) \cup {n}
    BY <2>1, Extended
  <2>4. Range(Flow(cl, w)) = Range(f) \cup {0}
    BY <2>1, <2>2, <2>3
  <2> QED
    BY <2>4 DEF f
<1>4. Sendable(m) /\ Encoded(w, m)
  BY DEF Sendable, Encoded, Frameless
<1>5. \A x : Encoded(r, x) => Encoded(w, x)
  BY DEF Encoded
<1>6. ~Serves(w)
  BY DEF Serves
<1>7. 0 \in 0 .. w.sent
  BY <1>1
<1> QED
  BY <1>1, <1>2, <1>3, <1>4, <1>5, <1>6, <1>7 DEF Flowing

\* The relay accepts: all that was on its way was no frame.
LEMMA AcceptFlows ==
  ASSUME NEW cl, NEW r, LinkTyped(cl, r), Flowing(cl, r), r.stage # "accepted",
         "hello" \in Range(r.up), cl.ws = "open", NEW e, NEW v, Accepted(e, v) \in Msg,
         NEW w, w.down = Append(r.down, Accepted(e, v)), w.v2 = IsProtocolV2(v), w.sent = r.sent, w.good = r.good
  PROVE  Flowing(cl, w)
<1> DEFINE m == Accepted(e, v)
<1>1. FlowTyped(cl, r) /\ r.sent = 0 /\ r.good \subseteq 1 .. r.sent /\ r.down \in Seq(Msg) /\ cl.armed
  BY DEF LinkTyped, Flowing, FlowTyped
<1>0. m \in Msg
  OBVIOUS
<1>2. m.n = 0 /\ m.flaw = "none" /\ m = Accepted(m.epoch, m.version) /\ m.version = v
  BY DEF Accepted, NoMsg
<1>3. w.down = Append(r.down, m)
  OBVIOUS
<1> HIDE DEF m
<1>4. /\ w.down \in Seq(Msg) /\ Flow(cl, w) = Flow(cl, r) \o <<m.n>>
      /\ Range(w.down) = Range(r.down) \cup {m}
  <2>1. w.down \in Seq(Msg)
    BY <1>0, <1>1, <1>3, AppendProperties
  <2>2. Flow(cl, w) = Flow(cl, r) \o <<m.n>>
    BY <1>0, <1>1, <1>3, SentFlow
  <2>3. Range(w.down) = Range(r.down) \cup {m}
    BY <1>0, <1>1, <1>3, Appended
  <2> QED
    BY <2>1, <2>2, <2>3
<1> DEFINE f == Flow(cl, r)
           g == Flow(cl, w)
           a == Arrived(cl)
<1>5. f \in Seq(Nat) /\ Range(f) = Range(a) \cup {x.n : x \in Range(r.down)}
  BY <1>1, FlowFacts
<1>6. Range(f) \subseteq {0}
  <2>1. Range(f) \subseteq 0 .. r.sent
    BY DEF Flowing
  <2> QED
    BY <1>1, <2>1
<1>7. Range(g) \subseteq {0} /\ g \in Seq(Nat)
  <2> DEFINE n == m.n
  <2>1. n = 0 /\ n \in Nat /\ g = f \o <<n>>
    BY <1>2, <1>4
  <2> HIDE DEF f, g, n
  <2>2. Range(f \o <<n>>) = Range(f) \cup {n} /\ f \o <<n>> \in Seq(Nat)
    BY <1>5, <2>1, Extended
  <2> QED
    BY <1>6, <2>1, <2>2
<1>8. InOrder(g)
  <2> HIDE DEF g
  <2>1. \A i \in 1 .. Len(g) : g[i] = 0
    BY <1>7, InRange
  <2> QED
    BY <2>1 DEF InOrder
<1>9. r.good = {}
  BY <1>1
<1>10. Kept(cl, w)
  BY <1>5, <1>6, <1>8, <1>9 DEF Kept
<1>11. \A x \in Range(r.down) : x.n = 0
  BY <1>5, <1>6
<1>12. AcceptFirst(cl, w)
  <2> DEFINE s == w.down
             p == Len(s)
  <2>1. s \in Seq(Msg) /\ p \in Nat /\ p = Len(r.down) + 1 /\ s[p] = m /\ Len(r.down) \in Nat
    BY <1>0, <1>1, <1>2, <1>3, <1>4, AppendProperties, LenProperties
  <2>2. \A i \in 1 .. p : s[i] \in Range(s)
    BY <2>1, LenProperties DEF Range
  <2>3. \A x \in Range(s) : x.n = 0
    BY <1>2, <1>4, <1>11
  <2> HIDE DEF s
  <2>4. \A i \in 1 .. p : s[i].n = 0 /\ i <= p
    BY <2>1, <2>2, <2>3
  <2>5. p \in 0 .. p /\ p # 0 /\ s[p] = Accepted(s[p].epoch, s[p].version) /\ IsProtocolV2(s[p].version) = w.v2
    BY <1>2, <2>1
  <2> HIDE DEF p
  <2>6. \E o \in 0 .. p : /\ \A i \in 1 .. p : s[i].n = 0 <=> i <= o
                          /\ IF o = 0 THEN Understands(cl, w)
                             ELSE s[o] = Accepted(s[o].epoch, s[o].version) /\ IsProtocolV2(s[o].version) = w.v2
    BY <2>4, <2>5
  <2> QED
    BY <2>6 DEF AcceptFirst, s, p
<1>13. \A x \in Range(w.down) : x.n = 0
  BY <1>2, <1>4, <1>11
<1>14. \A x \in Range(cl.pending) \cup Range(w.down) : Sendable(x)
  <2>1. \A x \in Range(cl.pending) : Sendable(x)
    BY DEF Flowing
  <2>2. \A x \in Range(r.down) : Sendable(x)
    BY DEF Flowing
  <2>3. Sendable(m)
    BY <1>2 DEF Sendable
  <2> QED
    BY <1>4, <2>1, <2>2, <2>3
<1>15. \A x \in Range(w.down) : Encoded(w, x)
  BY <1>13 DEF Encoded
<1>16. Range(g) \subseteq 0 .. w.sent
  BY <1>1, <1>7
<1>17. cl.handled \in Seq(Nat) /\ (cl.pump => cl.pending = <<>>) /\ w.good \subseteq 1 .. w.sent /\ w.sent = 0
  BY <1>1 DEF Flowing
<1> QED
  BY <1>1, <1>10, <1>12, <1>14, <1>15, <1>16, <1>17 DEF Flowing

\* The relay sends its next frame.
LEMMA SendFlows ==
  ASSUME NEW cl, NEW r, LinkTyped(cl, r), Flowing(cl, r), r.stage = "accepted", NEW f \in Downlink,
         f.type \in IF r.v2 THEN V2Types ELSE V1Types, NEW w, w.sent = r.sent + 1, w.sent <= MaxFrames,
         w.down = Append(r.down, Frame(w.sent, f)), w.up = r.up,
         w.stage = r.stage, w.early = r.early, w.v2 = r.v2,
         w.good = IF DecodeInbound("agent", TRUE, r.v2, f.type, f.flaw) = "ok" THEN r.good \cup {w.sent} ELSE r.good
  PROVE  Flowing(cl, w)
<1> DEFINE k == w.sent
           m == Frame(k, f)
<1>1. /\ FlowTyped(cl, r) /\ r.sent \in Nat /\ r.good \subseteq 1 .. r.sent /\ r.down \in Seq(Msg)
      /\ cl.armed /\ Range(Flow(cl, r)) \subseteq 0 .. r.sent
  BY Bounds DEF LinkTyped, Flowing, FlowTyped
<1>2. k = r.sent + 1 /\ k \in Nat /\ k # 0 /\ k \in 0 .. MaxFrames /\ k \notin r.good /\ k \notin 0 .. r.sent
  BY <1>1, Bounds
<1>3. m \in Msg
  BY <1>2, MessagesTyped
<1>4. m.n = k /\ m.type = f.type /\ m.flaw = f.flaw
  BY DEF Frame, NoMsg
<1>5. w.down = Append(r.down, m)
  OBVIOUS
<1>6. f.type \notin HandshakeTypes
  BY FrameAssumption
<1>7. /\ k \in w.good <=> DecodeInbound("agent", TRUE, w.v2, m.type, m.flaw) = "ok"
      /\ r.good \subseteq w.good /\ w.good \subseteq r.good \cup {k}
      /\ m.type \in IF w.v2 THEN V2Types ELSE V1Types
  BY <1>2, <1>4
<1> HIDE DEF m
<1>8. w.down \in Seq(Msg)
  BY <1>1, <1>3, <1>5, AppendProperties
<1>9. Flow(cl, w) = Flow(cl, r) \o <<m.n>>
  BY <1>1, <1>3, <1>5, SentFlow
<1>10. Range(w.down) = Range(r.down) \cup {m}
  BY <1>1, <1>3, <1>5, Appended
<1> DEFINE x == Flow(cl, r)
           y == Flow(cl, w)
           a == Arrived(cl)
<1>11. x \in Seq(Nat) /\ Range(x) = Range(a) \cup {o.n : o \in Range(r.down)} /\ y = x \o <<k>>
  BY <1>1, <1>4, <1>9, FlowFacts
<1>12. Range(x) \subseteq 0 .. r.sent
  BY <1>1
<1> HIDE DEF x, y, a, k
<1>13. Range(y) = Range(x) \cup {k} /\ (InOrder(x) => InOrder(y))
  <2>1. \A v \in Range(x) : v < k
    BY <1>1, <1>2, <1>12
  <2> QED
    BY <1>2, <1>11, <2>1, Extended
<1>14. Sendable(m) /\ Encoded(w, m)
  <2>1. k # 0 /\ m.n = k /\ m.type \notin HandshakeTypes
    BY <1>2, <1>4, <1>6
  <2>2. Encoded(w, m)
    BY <1>4, <1>7 DEF Encoded, k
  <2> HIDE DEF k, m
  <2> QED
    BY <2>1, <2>2 DEF Sendable
<1>15. ASSUME NEW o \in Range(r.down)
       PROVE  Encoded(w, o) /\ Sendable(o)
  <2>1. Encoded(r, o) /\ Sendable(o)
    BY DEF Flowing
  <2>2. o.n \in Range(x)
    BY <1>11
  <2>3. o.n # k
    BY <1>2, <1>12, <2>2
  <2>4. o.n \in w.good <=> o.n \in r.good
    BY <1>7, <2>3
  <2> QED
    BY <2>1, <2>4 DEF Encoded
<1>16. ASSUME Serves(w)
       PROVE  AcceptFirst(cl, w) /\ Kept(cl, w)
  <2>1. AcceptFirst(cl, r) /\ Kept(cl, r)
    BY <1>16 DEF Serves, Flowing
  <2>2. InOrder(x) /\ r.good \subseteq Range(x) /\ Range(a) \subseteq r.good \cup {0}
    BY <2>1 DEF Kept, x, a
  <2>3. InOrder(y) /\ w.good \subseteq Range(y) /\ Range(a) \subseteq w.good \cup {0}
    BY <1>7, <1>13, <2>2
  <2>4. Kept(cl, w)
    BY <2>3 DEF Kept, y, a
  <2>5. AcceptFirst(cl, w)
    <3> DEFINE s == r.down
               t == w.down
    <3>1. /\ Len(s) \in Nat /\ Len(t) = Len(s) + 1 /\ t[Len(s) + 1] = m
          /\ \A i \in 1 .. Len(s) : t[i] = s[i]
      BY <1>1, <1>3, <1>5, AppendProperties, LenProperties
    <3> HIDE DEF s, t
    <3>2. PICK p \in 0 .. Len(s) :
            /\ \A i \in 1 .. Len(s) : s[i].n = 0 <=> i <= p
            /\ IF p = 0 THEN Understands(cl, r)
               ELSE s[p] = Accepted(s[p].epoch, s[p].version) /\ IsProtocolV2(s[p].version) = r.v2
      BY <2>1 DEF AcceptFirst, s
    <3>3. p \in 0 .. Len(t) /\ (p # 0 => p \in 1 .. Len(s))
      BY <3>1
    <3>4. ASSUME NEW i \in 1 .. Len(t)
          PROVE  t[i].n = 0 <=> i <= p
      <4>1. CASE i \in 1 .. Len(s)
        BY <3>1, <3>2, <4>1
      <4>2. CASE i = Len(s) + 1
        <5>1. ~(i <= p)
          BY <3>1, <4>2
        <5> QED
          BY <1>2, <1>4, <3>1, <4>2, <5>1 DEF k
      <4> QED
        BY <3>1, <4>1, <4>2
    <3>5. IF p = 0 THEN Understands(cl, w)
          ELSE t[p] = Accepted(t[p].epoch, t[p].version) /\ IsProtocolV2(t[p].version) = w.v2
      BY <3>1, <3>2, <3>3 DEF Understands
    <3> QED
      BY <3>3, <3>4, <3>5 DEF AcceptFirst, t
  <2> QED
    BY <2>4, <2>5
<1>17. Range(y) \subseteq 0 .. w.sent
  BY <1>1, <1>2, <1>12, <1>13 DEF k
<1>18. w.good \subseteq 1 .. w.sent
  <2>1. k \in 1 .. k /\ \A v \in 1 .. r.sent : v \in 1 .. k
    BY <1>1, <1>2
  <2>2. w.good \subseteq 1 .. k
    BY <1>1, <1>7, <2>1
  <2> QED
    BY <2>2 DEF k
<1>19. \A o \in Range(cl.pending) \cup Range(w.down) : Sendable(o)
  BY <1>10, <1>14, <1>15 DEF Flowing
<1>20. \A o \in Range(w.down) : Encoded(w, o)
  BY <1>10, <1>14, <1>15
<1> QED
  BY <1>1, <1>16, <1>17, <1>18, <1>19, <1>20 DEF Flowing, y

-----------------------------------------------------------------------------
(* The flow, step by step.                                                 *)

LEMMA FlowStep ==
  ASSUME IInv, FramesFlow, NEW c \in Conn, NEW cl, NEW r, Flowing(cl, r),
         client' = [client EXCEPT ![c] = cl] \/ (cl = client[c] /\ UNCHANGED client),
         relay' = [relay EXCEPT ![c] = r] \/ (r = relay[c] /\ UNCHANGED relay)
  PROVE  FramesFlow'
<1>1. DOMAIN client = Conn /\ DOMAIN relay = Conn
  BY DEF IInv, Typed
<1>2. client'[c] = cl /\ relay'[c] = r /\ \A d \in Conn \ {c} : client'[d] = client[d] /\ relay'[d] = relay[d]
  BY <1>1
<1>3. ASSUME NEW d \in Conn PROVE Flowing(client'[d], relay'[d])
  BY <1>2 DEF FramesFlow
<1> QED
  BY <1>3 DEF FramesFlow

LEMMA FlowingFacts ==
  ASSUME IInv, FramesFlow, NEW c \in Conn
  PROVE  Flowing(client[c], relay[c]) /\ client[c].handled \in Seq(Nat)
BY DEF FramesFlow, Flowing

LEMMA InitFlows == Init => FramesFlow
<1> SUFFICES ASSUME Init, NEW c \in Conn PROVE Flowing(client[c], relay[c])
  BY DEF FramesFlow
<1>1. client[c] = NewClient /\ relay[c] = NewRelayEnd
  BY DEF Init
<1>2. NewClient.handled = <<>> /\ NewClient.pending = <<>> /\ <<>> \in Seq(Nat)
  BY Shapes
<1>3. Flowing(NewClient, NewRelayEnd)
  BY <1>2, NothingFlows
<1> QED
  BY <1>1, <1>3

\* A session ends, whatever the client had got to.
LEMMA SessionEndFlows ==
  ASSUME IInv, FramesFlow, NEW c \in Conn, NEW cl, EndSession(c, cl), cl.handled \in Seq(Nat), cl.ws \in Ws \ {"none"}
  PROVE  FramesFlow'
<1>1. Flowing(Closing(Dropped(cl)), NewRelayEnd)
  BY EndFlows
<1>2. client' = [client EXCEPT ![c] = Closing(Dropped(cl))] /\ relay' = [relay EXCEPT ![c] = NewRelayEnd]
  BY DEF EndSession
<1> QED
  BY <1>1, <1>2, FlowStep

LEMMA SocketFlows ==
  ASSUME NEW cl, NEW r, LinkTyped(cl, r), Flowing(cl, r), NEW ws,
         ws \in {"none", "connecting", "open"} => cl.ws \in {"none", "connecting", "open"}
  PROVE  LET q == [cl EXCEPT !.ws = ws] IN Flowing(q, r) /\ q.handled = cl.handled /\ q.ws = ws
<1> DEFINE q == [cl EXCEPT !.ws = ws]
<1>1. /\ q.handled = cl.handled /\ q.pending = cl.pending /\ q.pump = cl.pump /\ q.armed = cl.armed
      /\ q.ws = ws /\ q.authed = cl.authed /\ q.v2 = cl.v2
  BY Shapes DEF LinkTyped
<1> HIDE DEF q
<1>2. Understands(cl, r) => Understands(q, r)
  BY <1>1 DEF Understands
<1>3. Flowing(q, r)
  BY <1>1, <1>2, QuietFlows
<1> QED
  BY <1>1, <1>3 DEF q

LEMMA DialFlows ==
  ASSUME IInv, FramesFlow, NEW c \in Conn, Dial(c) \/ Opens(c)
  PROVE  FramesFlow'
<1>1. PICK ws \in Ws : client' = [client EXCEPT ![c].ws = ws]
  BY DEF Dial, Opens, Ws
<1>2. UNCHANGED relay /\ client[c].ws \in {"none", "connecting"}
  BY DEF Dial, Opens
<1>3. LinkTyped(client[c], relay[c]) /\ Flowing(client[c], relay[c]) /\ DOMAIN client = Conn
  BY LinkFacts, FlowingFacts
<1> DEFINE q == [client[c] EXCEPT !.ws = ws]
<1>4. Flowing(q, relay[c])
  BY <1>2, <1>3, SocketFlows
<1>5. client' = [client EXCEPT ![c] = q]
  BY <1>1, <1>3
<1> HIDE DEF q
<1> QED
  BY <1>2, <1>4, <1>5, FlowStep

LEMMA ClosesFlows ==
  ASSUME IInv, FramesFlow, NEW c \in Conn, Closes(c) \/ ConnectFails(c)
  PROVE  FramesFlow'
<1> DEFINE q == [client[c] EXCEPT !.ws = "closed"]
<1>1. /\ LinkTyped(client[c], relay[c]) /\ Flowing(client[c], relay[c]) /\ DOMAIN client = Conn
      /\ client[c].handled \in Seq(Nat)
  BY LinkFacts, FlowingFacts
<1>2. \/ EndSession(c, q)
      \/ client' = [client EXCEPT ![c] = q] /\ UNCHANGED relay
  BY <1>1 DEF Closes, ConnectFails
<1>3. Flowing(q, relay[c]) /\ q.handled = client[c].handled /\ q.ws = "closed"
  BY <1>1, SocketFlows
<1> HIDE DEF q
<1>4. CASE EndSession(c, q)
  BY <1>1, <1>3, <1>4, SessionEndFlows DEF Ws
<1>5. CASE client' = [client EXCEPT ![c] = q] /\ UNCHANGED relay
  BY <1>3, <1>5, FlowStep
<1> QED
  BY <1>2, <1>4, <1>5

LEMMA ConnectContinuesFlows ==
  ASSUME IInv, FramesFlow, NEW c \in Conn, ConnectContinues(c)
  PROVE  FramesFlow'
<1> DEFINE q == WaitFor(client[c], "challenge")
<1>1. LinkTyped(client[c], relay[c]) /\ Flowing(client[c], relay[c]) /\ DOMAIN client = Conn
  BY LinkFacts, FlowingFacts
<1>2. client' = [client EXCEPT ![c] = q] /\ UNCHANGED relay
  BY <1>1 DEF ConnectContinues
<1>3. Flowing(q, relay[c])
  BY <1>1, WaitForFlows
<1> HIDE DEF q
<1> QED
  BY <1>2, <1>3, FlowStep

LEMMA ChallengeContinuesFlows ==
  ASSUME IInv, FramesFlow, NEW c \in Conn, ChallengeContinues(c)
  PROVE  FramesFlow'
<1> DEFINE d == [client[c] EXCEPT !.got = NoMsg, !.armed = TRUE]
           q == WaitFor(d, "reply")
           r == relay[c]
           w == [r EXCEPT !.up = Append(@, "hello")]
<1>1. /\ LinkTyped(client[c], r) /\ Flowing(client[c], r) /\ DOMAIN client = Conn /\ DOMAIN relay = Conn
      /\ client[c].handled \in Seq(Nat) /\ r.up \in Seq(V2Types) /\ r.down \in Seq(Msg)
      /\ r.sent \in 0 .. MaxFrames /\ client[c].ws \in Ws
      /\ DOMAIN r = {"stage", "early", "v2", "sent", "good", "refused", "down", "up"}
  BY LinkFacts, FlowingFacts DEF LinkTyped
<1>2. \/ client' = [client EXCEPT ![c] = q] /\ relay' = [relay EXCEPT ![c] = w]
      \/ EndSession(c, client[c])
  BY <1>1 DEF ChallengeContinues
<1>3. client[c].ws # "none"
  BY HasSocket DEF ChallengeContinues
<1>4. CASE EndSession(c, client[c])
  BY <1>1, <1>3, <1>4, SessionEndFlows
<1>5. CASE client' = [client EXCEPT ![c] = q] /\ relay' = [relay EXCEPT ![c] = w]
  <2>1. /\ DOMAIN d = DOMAIN NewClient /\ d.armed /\ d.got = NoMsg
        /\ \A f \in DOMAIN NewClient \ {"got", "armed"} : d[f] = client[c][f]
    BY <1>1, Shapes DEF LinkTyped
  <2>2. /\ DOMAIN w = DOMAIN r /\ w.up = Append(r.up, "hello")
        /\ \A f \in DOMAIN r \ {"up"} : w[f] = r[f]
    BY <1>1
  <2> HIDE DEF d, w
  <2>3. w.up \in Seq(V2Types)
    BY <1>1, <2>2, QueueFacts, SpeakableTypes
  <2>4. LinkTyped(d, w)
    BY <1>1, <2>1, <2>2, <2>3, NoMsgTyped, Shapes DEF LinkTyped
  <2>5. Flowing(d, w)
    <3>1. /\ d.handled = client[c].handled /\ d.pending = client[c].pending /\ d.pump = client[c].pump
          /\ d.ws = client[c].ws /\ d.authed = client[c].authed /\ d.v2 = client[c].v2
      BY <2>1, Shapes
    <3>2. /\ w.down = r.down /\ w.v2 = r.v2 /\ w.stage = r.stage /\ w.early = r.early
          /\ w.sent = r.sent /\ w.good = r.good
      BY <1>1, <2>2
    <3>3. Understands(client[c], r) => Understands(d, r)
      BY <3>1 DEF Understands
    <3> HIDE DEF r
    <3> QED
      BY <1>1, <2>1, <3>1, <3>2, <3>3, QuietFlows
  <2>6. Flowing(q, w)
    BY <2>4, <2>5, WaitForFlows
  <2> HIDE DEF q
  <2> QED
    BY <1>5, <2>6, FlowStep
<1> QED
  BY <1>2, <1>4, <1>5

\* The handshake fails, times out, or is refused for its epoch.
LEMMA HandshakeEndsFlows ==
  ASSUME IInv, FramesFlow, NEW c \in Conn, HandshakeFails(c) \/ WaitTimesOut(c) \/ EpochRefused(c)
  PROVE  FramesFlow'
<1> DEFINE q == [client[c] EXCEPT !.v2 = IsProtocolV2(Advertised), !.authed = TRUE]
<1>1. LinkTyped(client[c], relay[c]) /\ client[c].handled \in Seq(Nat) /\ client[c].ws \in Ws
  BY LinkFacts, FlowingFacts DEF LinkTyped
<1>2. EndSession(c, client[c]) \/ EndSession(c, q)
  BY DEF HandshakeFails, WaitTimesOut, EpochRefused
<1>3. client[c].ws # "none"
  BY HasSocket, NoMsgTyped DEF HandshakeFails, WaitTimesOut, EpochRefused, Negotiates
<1>4. q.handled = client[c].handled /\ q.ws = client[c].ws
  BY <1>1, Shapes DEF LinkTyped
<1> HIDE DEF q
<1> QED
  BY <1>1, <1>2, <1>3, <1>4, SessionEndFlows

LEMMA EstablishedFlows ==
  ASSUME IInv, FramesFlow, NEW c \in Conn, Established(c)
  PROVE  FramesFlow'
<1> DEFINE m == client[c].got
           q == [client[c] EXCEPT !.got = NoMsg, !.epoch = m.epoch,
                                  !.v2 = IsProtocolV2(Advertised), !.authed = TRUE]
           p == Pumped(q)
           r == relay[c]
<1>1. /\ LinkTyped(client[c], r) /\ Flowing(client[c], r) /\ client[c].handled \in Seq(Nat)
      /\ client[c].ws \in Ws /\ Vouched(r, m)
  BY LinkFacts, FlowingFacts DEF LinkTyped, Link
<1>2. /\ Negotiates(m) /\ m # NoMsg
      /\ EndSession(c, q) \/ (client' = [client EXCEPT ![c] = p] /\ UNCHANGED relay)
  <2>1. DOMAIN client = Conn
    BY LinkFacts
  <2> QED
    BY <2>1, NoMsgTyped DEF Established, Negotiates
<1>3. client[c].ws # "none"
  BY <1>2, HasSocket
<1>4. /\ DOMAIN q = DOMAIN NewClient /\ q.authed /\ q.v2 = IsProtocolV2(Advertised)
      /\ \A f \in DOMAIN NewClient \ {"got", "epoch", "v2", "authed"} : q[f] = client[c][f]
  BY <1>1, Shapes DEF LinkTyped
<1>5. /\ q.handled = client[c].handled /\ q.pending = client[c].pending /\ q.armed = client[c].armed
      /\ q.ws = client[c].ws
  BY <1>4, Shapes
<1> HIDE DEF q
<1>6. CASE EndSession(c, q)
  BY <1>1, <1>3, <1>5, <1>6, SessionEndFlows
<1>7. CASE client' = [client EXCEPT ![c] = p] /\ UNCHANGED relay
  <2>1. Serves(r) => (r.v2 => IsProtocolV2(Advertised))
    <3> SUFFICES ASSUME Serves(r), ~r.early PROVE r.v2 => IsProtocolV2(Advertised)
      BY DEF Serves
    <3>1. m.type = "hello.accepted" /\ NegotiateVersion(Advertised, {m.version}) # {}
      BY <1>2 DEF Negotiates
    <3>2. IsProtocolV2(m.version) = IsProtocolV2(Advertised)
      BY <3>1 DEF NegotiateVersion, IsProtocolV2
    <3> QED
      BY <1>1, <3>1, <3>2 DEF Vouched
  <2> DEFINE h == q.handled \o Numbers(q.pending)
  <2>2. p = [q EXCEPT !.pump = TRUE, !.handled = h, !.pending = <<>>]
    BY <1>4, Shapes DEF Pumped
  <2> HIDE DEF h
  <2>3. /\ p.handled = h /\ p.pending = <<>> /\ p.armed = q.armed /\ p.ws = q.ws /\ p.authed = q.authed
        /\ p.v2 = q.v2
    BY <1>4, <2>2, Shapes
  <2> HIDE DEF p
  <2>4. h = client[c].handled \o Numbers(client[c].pending)
    BY <1>5 DEF h
  <2>5. Serves(r) => Understands(p, r)
    BY <1>4, <2>1, <2>3 DEF Understands
  <2>6. Flowing(p, r)
    BY <1>1, <1>5, <2>3, <2>4, <2>5, PumpedFlows
  <2> QED
    BY <1>7, <2>6, FlowStep
<1> QED
  BY <1>2, <1>6, <1>7

LEMMA ReceivesFlows ==
  ASSUME IInv, FramesFlow, NEW c \in Conn, Receive(c)
  PROVE  FramesFlow'
<1> DEFINE r == relay[c]
           q == OnMessage(client[c], Head(r.down))
           w == [r EXCEPT !.down = Tail(@)]
<1>1. /\ LinkTyped(client[c], r) /\ Flowing(client[c], r) /\ DOMAIN client = Conn /\ DOMAIN relay = Conn
      /\ DOMAIN r = {"stage", "early", "v2", "sent", "good", "refused", "down", "up"}
  BY LinkFacts, FlowingFacts
<1>2. client' = [client EXCEPT ![c] = q] /\ relay' = [relay EXCEPT ![c] = w] /\ r.down # <<>>
  BY <1>1 DEF Receive, Incoming
<1>3. /\ w.down = Tail(r.down) /\ w.stage = r.stage /\ w.early = r.early /\ w.v2 = r.v2
      /\ w.sent = r.sent /\ w.good = r.good /\ w.up = r.up
  BY <1>1
<1> HIDE DEF w
<1>4. Flowing(q, w)
  BY <1>1, <1>2, <1>3, ReceiveFlows
<1> HIDE DEF q
<1> QED
  BY <1>2, <1>4, FlowStep

\* What is behind a frame n is cut off with it.
LEMMA KeptCut ==
  ASSUME NEW a \in Seq(Nat), NEW z \in Seq(Nat), NEW n \in Nat \ {0}, NEW good \in SUBSET (Nat \ {0}),
         InOrder(a \o (<<n>> \o z)), good \subseteq Range(a \o (<<n>> \o z)), Range(a) \subseteq good \cup {0}
  PROVE  LET g == {k \in good : k < n}
         IN InOrder(a) /\ g \subseteq Range(a) /\ Range(a) \subseteq g \cup {0}
<1> DEFINE m == <<n>>
           t == m \o z
<1>1. m \in Seq(Nat) /\ Range(m) = {n}
  BY One
<1> HIDE DEF m
<1>2. /\ t \in Seq(Nat) /\ Range(t) = {n} \cup Range(z) /\ Range(z) \subseteq Nat
      /\ InOrder(t) => Precedes(m, z)
  BY <1>1, Joined
<1>3. InOrder(a \o t) /\ good \subseteq Range(a \o t)
  BY DEF m
<1> HIDE DEF t
<1>4. Range(a \o t) = Range(a) \cup Range(t) /\ InOrder(a) /\ InOrder(t) /\ Precedes(a, t)
  BY <1>2, <1>3, Joined
<1>5. \A k \in Range(z) : k # 0 => n < k
  BY <1>1, <1>2, <1>4 DEF Precedes
<1>6. \A k \in Range(a) : k # 0 => k < n
  BY <1>2, <1>4 DEF Precedes
<1>7. ASSUME NEW k \in good, k < n
      PROVE  k \in Range(a)
  <2>1. k \in Nat /\ k # 0 /\ k # n /\ ~(n < k)
    BY <1>7
  <2> QED
    BY <1>2, <1>3, <1>4, <1>5, <2>1
<1>8. ASSUME NEW k \in Range(a), k # 0
      PROVE  k \in good /\ k < n
  BY <1>6, <1>8
<1> QED
  BY <1>4, <1>7, <1>8

GoodBefore(r) == {k \in r.good : k < Head(r.down).n}

LEMMA OversizedFlows ==
  ASSUME NEW cl, NEW r, LinkTyped(cl, r), Flowing(cl, r), r.down # <<>>, Head(r.down).flaw = "oversized",
         NEW q, q.handled = cl.handled, q.pending = cl.pending, q.pump = cl.pump, q.armed = cl.armed,
         q.ws = "closing", q.authed = cl.authed, q.v2 = cl.v2,
         NEW w, w.down = <<>>, w.stage = r.stage, w.early = r.early, w.v2 = r.v2, w.sent = r.sent,
         w.up = r.up, w.good = GoodBefore(r)
  PROVE  Flowing(q, w)
<1> DEFINE m == Head(r.down)
           n == m.n
           a == Arrived(cl)
           z == Numbers(Tail(r.down))
           f == Flow(cl, r)
<1>1. FlowTyped(cl, r) /\ r.down \in Seq(Msg) /\ r.sent \in Nat /\ r.good \subseteq 1 .. r.sent
  <2>1. r.down \in Seq(Msg) /\ r.sent \in Nat /\ cl.pending \in Seq(Msg)
    BY Bounds DEF LinkTyped
  <2> QED
    BY <2>1 DEF Flowing, FlowTyped
<1>2. m \in Range(r.down) /\ m = r.down[1] /\ 1 \in 1 .. Len(r.down)
  BY <1>1, Ranges, QueueFacts
<1>3. /\ m \in Msg /\ n \in Nat /\ a \in Seq(Nat) /\ z \in Seq(Nat) /\ f = a \o (<<n>> \o z)
      /\ Range(f) = Range(a) \cup {x.n : x \in Range(r.down)}
  BY <1>1, HeadLeaves, NumbersFacts, FlowFacts
<1>4. n # 0
  BY <1>2 DEF Flowing, Sendable
<1>5. FlowTyped(q, w)
  BY <1>1 DEF FlowTyped
<1>6. Arrived(q) = a /\ Flow(q, w) = a
  <2>1. Arrived(q) = a
    BY DEF Arrived
  <2>2. Numbers(w.down) = <<>>
    BY DEF Numbers
  <2> QED
    BY <1>3, <2>1, <2>2, ConcatEmptySeq DEF Flow
<1>7. r.good \in SUBSET (Nat \ {0})
  BY <1>1
<1>8. m = Head(r.down) /\ n = m.n /\ a = Arrived(cl) /\ f = Flow(cl, r)
  OBVIOUS
<1>9. Range(<<>>) = {}
  BY DEF Range
<1> HIDE DEF m, n, a, z, f
<1>10. ASSUME Serves(w)
       PROVE  AcceptFirst(q, w) /\ Kept(q, w)
  <2>1. AcceptFirst(cl, r) /\ Kept(cl, r)
    BY <1>10 DEF Serves, Flowing
  <2>2. Understands(cl, r)
    BY <1>2, <1>4, <1>8, <2>1 DEF AcceptFirst
  <2>3. AcceptFirst(q, w)
    <3>1. Understands(q, w) /\ Len(w.down) = 0
      BY <2>2 DEF Understands
    <3> QED
      BY <3>1 DEF AcceptFirst
  <2>4. InOrder(a) /\ w.good \subseteq Range(a) /\ Range(a) \subseteq w.good \cup {0}
    <3> DEFINE good == r.good
    <3>1. /\ InOrder(a \o (<<n>> \o z)) /\ good \subseteq Range(a \o (<<n>> \o z))
          /\ Range(a) \subseteq good \cup {0} /\ good \in SUBSET (Nat \ {0})
          /\ a \in Seq(Nat) /\ z \in Seq(Nat) /\ n \in Nat \ {0}
      BY <1>3, <1>4, <1>7, <1>8, <2>1 DEF Kept
    <3>2. w.good = {k \in good : k < n}
      BY <1>8 DEF GoodBefore
    <3> HIDE DEF good
    <3> QED
      BY <3>1, <3>2, KeptCut
  <2> QED
    BY <1>6, <2>3, <2>4 DEF Kept
<1>11. w.stage = "accepted" => Range(Flow(q, w)) \subseteq 0 .. w.sent
  BY <1>3, <1>6, <1>8 DEF Flowing
<1>12. w.good \subseteq 1 .. w.sent
  BY <1>1 DEF GoodBefore
<1>13. \A x \in Range(q.pending) \cup Range(w.down) : Sendable(x)
  BY <1>9 DEF Flowing
<1>14. \A x \in Range(w.down) : Encoded(w, x)
  BY <1>9
<1> QED
  BY <1>10, <1>11, <1>12, <1>13, <1>14 DEF Flowing

LEMMA CutFlows ==
  ASSUME IInv, FramesFlow, NEW c \in Conn, Oversized(c)
  PROVE  FramesFlow'
<1> DEFINE r == relay[c]
           q == [client[c] EXCEPT !.ws = "closing"]
           w == [r EXCEPT !.down = <<>>, !.good = {k \in @ : k < Head(r.down).n}]
<1>1. /\ LinkTyped(client[c], r) /\ Flowing(client[c], r) /\ DOMAIN client = Conn /\ DOMAIN relay = Conn
      /\ DOMAIN r = {"stage", "early", "v2", "sent", "good", "refused", "down", "up"}
  BY LinkFacts, FlowingFacts
<1>2. /\ client' = [client EXCEPT ![c] = q] /\ relay' = [relay EXCEPT ![c] = w]
      /\ r.down # <<>> /\ Head(r.down).flaw = "oversized"
  BY <1>1 DEF Oversized, Incoming
<1>3. /\ w.down = <<>> /\ w.stage = r.stage /\ w.early = r.early /\ w.v2 = r.v2 /\ w.sent = r.sent
      /\ w.up = r.up /\ w.good = GoodBefore(r)
  BY <1>1 DEF GoodBefore
<1>4. /\ q.handled = client[c].handled /\ q.pending = client[c].pending /\ q.pump = client[c].pump
      /\ q.armed = client[c].armed /\ q.ws = "closing" /\ q.authed = client[c].authed /\ q.v2 = client[c].v2
  BY <1>1, Shapes DEF LinkTyped
<1> HIDE DEF q, w, r
<1>5. Flowing(q, w)
  BY <1>1, <1>2, <1>3, <1>4, OversizedFlows
<1> QED
  BY <1>2, <1>5, FlowStep DEF r

\* The far end of a connection changes, and the client does not notice.
LEMMA FarQuiet ==
  ASSUME NEW cl, NEW r, Flowing(cl, r), NEW w, w.down = r.down, w.v2 = r.v2, w.stage = r.stage,
         w.early = r.early, w.sent = r.sent, w.good = r.good,
         "hello" \in Range(w.up) => "hello" \in Range(r.up)
  PROVE  Flowing(cl, w)
BY QuietFlows

LEMMA SentToFlows ==
  ASSUME IInv, FramesFlow, NEW c \in Conn, NEW t \in Uplink \cup {"heartbeat", "agent.draining"}
  PROVE  LET w == SentTo(c, t)
         IN Flowing(client[c], w[c]) /\ DOMAIN w = Conn /\ \A d \in Conn \ {c} : w[d] = relay[d]
<1> DEFINE r == relay[c]
           w == [r EXCEPT !.up = Append(@, t)]
<1>1. /\ Flowing(client[c], r) /\ DOMAIN relay = Conn /\ r.up \in Seq(V2Types)
      /\ DOMAIN r = {"stage", "early", "v2", "sent", "good", "refused", "down", "up"}
  BY LinkFacts, FlowingFacts
<1>2. /\ w.down = r.down /\ w.stage = r.stage /\ w.early = r.early /\ w.v2 = r.v2
      /\ w.sent = r.sent /\ w.good = r.good /\ w.up = Append(r.up, t)
  BY <1>1
<1> HIDE DEF w
<1>3. t \in V2Types /\ t # "hello"
  BY SpeakableTypes, FrameAssumption DEF HandshakeTypes
<1>4. "hello" \in Range(w.up) => "hello" \in Range(r.up)
  BY <1>1, <1>2, <1>3, Tails
<1>5. Flowing(client[c], w)
  BY <1>1, <1>2, <1>4, FarQuiet
<1>6. SentTo(c, t) = [relay EXCEPT ![c] = w] \/ SentTo(c, t) = relay
  BY <1>1 DEF SentTo, w
<1> QED
  BY <1>1, <1>5, <1>6

LEMMA SendsFlows ==
  ASSUME IInv, FramesFlow, NEW c \in Conn, Beats(c) \/ \E t \in Uplink : SafeSend(c, t)
  PROVE  FramesFlow'
<1>1. PICK t \in Uplink \cup {"heartbeat"} : relay' = SentTo(c, t)
  BY DEF Beats, SafeSend
<1>2. client' = client
  BY DEF Beats, SafeSend
<1>3. Flowing(client[c], relay'[c]) /\ \A d \in Conn \ {c} : relay'[d] = relay[d]
  BY <1>1, SentToFlows
<1> QED
  BY <1>2, <1>3 DEF FramesFlow

LEMMA StopFlows ==
  ASSUME IInv, FramesFlow, Stop
  PROVE  FramesFlow'
<1>1. active \in {current, NoConn} /\ current \in Conn \cup {NoConn} /\ DOMAIN client = Conn
  BY DEF IInv, Typed, LoopMatchesClient
<1>2. \A d \in Conn : Flowing(client[d], relay'[d])
  <2>1. CASE active = NoConn
    BY <2>1 DEF Stop, FramesFlow
  <2>2. CASE active # NoConn
    <3>1. active \in Conn /\ relay' = SentTo(active, "agent.draining")
      BY <1>1, <2>2 DEF Stop
    <3>2. Flowing(client[active], relay'[active]) /\ \A d \in Conn \ {active} : relay'[d] = relay[d]
      BY <3>1, SentToFlows
    <3> QED
      BY <3>1, <3>2 DEF FramesFlow
  <2> QED
    BY <2>1, <2>2
<1>3. ASSUME NEW d \in Conn
      PROVE  Flowing(client'[d], relay'[d])
  <2>1. client'[d] = client[d] \/ client'[d] = Closing(client[d])
    BY <1>1 DEF Stop
  <2>2. LinkTyped(client[d], relay'[d]) \/ Closing(client[d]) = client[d] \/ DOMAIN client[d] = DOMAIN NewClient
    BY LinkFacts, Shapes
  <2>3. DOMAIN client[d] = DOMAIN NewClient
    BY LinkFacts, Shapes
  <2>4. Flowing(Closing(client[d]), relay'[d])
    <3>1. CASE client[d].ws \notin {"connecting", "open"}
      BY <1>2, <3>1 DEF Closing
    <3>2. CASE client[d].ws \in {"connecting", "open"}
      <4> DEFINE cl == client[d]
                 q == [cl EXCEPT !.ws = "closing"]
                 w == relay'[d]
      <4>1. Closing(cl) = q
        BY <3>2 DEF Closing
      <4>2. /\ q.handled = cl.handled /\ q.pending = cl.pending /\ q.pump = cl.pump /\ q.armed = cl.armed
            /\ q.ws = "closing" /\ q.authed = cl.authed /\ q.v2 = cl.v2
        BY <2>3, Shapes
      <4>3. Flowing(cl, w)
        BY <1>2
      <4> HIDE DEF q, cl, w
      <4>4. Understands(cl, w) => Understands(q, w)
        BY <4>2 DEF Understands
      <4>5. Flowing(q, w)
        BY <4>2, <4>3, <4>4, QuietFlows
      <4> QED
        BY <4>1, <4>5 DEF cl, w
    <3> QED
      BY <3>1, <3>2
  <2> QED
    BY <1>2, <2>1, <2>4
<1> QED
  BY <1>3 DEF FramesFlow

LEMMA RelayFlows ==
  ASSUME IInv, FramesFlow, NEW c \in Conn, Relay(c)
  PROVE  FramesFlow'
<1> DEFINE cl == client[c]
           r == relay[c]
<1>0. /\ DOMAIN r = {"stage", "early", "v2", "sent", "good", "refused", "down", "up"}
      /\ r.down \in Seq(Msg) /\ r.up \in Seq(V2Types) /\ r.sent \in 0 .. MaxFrames /\ DOMAIN relay = Conn
      /\ LinkTyped(cl, r) /\ Flowing(cl, r)
  BY LinkFacts, FlowingFacts
<1>1. r.up # <<>> => Head(r.up) \in Range(r.up) /\ Range(Tail(r.up)) \subseteq Range(r.up)
  BY <1>0, Tails
<1>2. CASE RelayChallenges(c)
  <2> DEFINE q == [r EXCEPT !.stage = "challenged", !.down = Append(@, Challenge)]
  <2>1. relay' = [relay EXCEPT ![c] = q] /\ UNCHANGED client /\ r.stage = "none"
    BY <1>0, <1>2 DEF RelayChallenges
  <2>2. /\ q.stage = "challenged" /\ q.down = Append(r.down, Challenge) /\ q.early = r.early
        /\ q.sent = r.sent /\ q.good = r.good /\ q.v2 = r.v2 /\ q.up = r.up
    BY <1>0
  <2> HIDE DEF q
  <2>3. Challenge \in Msg /\ Frameless(Challenge)
    BY MessagesTyped DEF Frameless, Challenge, NoMsg
  <2>4. Flowing(cl, q)
    BY <1>0, <2>1, <2>2, <2>3, SaysFlows
  <2> QED
    BY <2>1, <2>4, FlowStep
<1>3. CASE RelayRejects(c)
  <2> DEFINE q == [r EXCEPT !.up = Tail(@), !.down = Append(@, Rejected)]
  <2>1. relay' = [relay EXCEPT ![c] = q] /\ UNCHANGED client /\ r.stage # "accepted" /\ r.up # <<>>
    BY <1>0, <1>3 DEF RelayRejects, HearsHello, Hears
  <2>2. /\ q.stage = r.stage /\ q.down = Append(r.down, Rejected) /\ q.early = r.early
        /\ q.sent = r.sent /\ q.good = r.good /\ q.v2 = r.v2 /\ q.up = Tail(r.up)
    BY <1>0
  <2> HIDE DEF q
  <2>3. Rejected \in Msg /\ Frameless(Rejected)
    BY MessagesTyped DEF Frameless, Rejected, NoMsg
  <2>4. "hello" \in Range(q.up) => "hello" \in Range(r.up)
    BY <1>1, <2>1, <2>2
  <2>5. Flowing(cl, q)
    BY <1>0, <2>1, <2>2, <2>3, <2>4, SaysFlows
  <2> QED
    BY <2>1, <2>5, FlowStep
<1>4. CASE RelayStalls(c) \/ RelayHears(c)
  <2> DEFINE w == IF RelayHears(c) THEN [r EXCEPT !.up = Tail(@), !.refused = @ \/ ~RelayDecodes(c)]
                  ELSE [r EXCEPT !.up = Tail(@)]
  <2>1. relay' = [relay EXCEPT ![c] = w] /\ UNCHANGED client /\ r.up # <<>>
    BY <1>0, <1>4 DEF RelayStalls, RelayHears, HearsHello, Hears
  <2>2. /\ w.down = r.down /\ w.stage = r.stage /\ w.v2 = r.v2 /\ w.early = r.early
        /\ w.up = Tail(r.up) /\ w.sent = r.sent /\ w.good = r.good
    BY <1>0
  <2> HIDE DEF w
  <2>3. "hello" \in Range(w.up) => "hello" \in Range(r.up)
    BY <1>1, <2>1, <2>2
  <2>4. Flowing(cl, w)
    BY <1>0, <2>2, <2>3, FarQuiet
  <2> QED
    BY <2>1, <2>4, FlowStep
<1>5. CASE \E f \in Downlink : RelaySends(c, f)
  <2> PICK f \in Downlink : RelaySends(c, f)
    BY <1>5
  <2> DEFINE k == r.sent + 1
             more == IF DecodeInbound("agent", TRUE, r.v2, f.type, f.flaw) = "ok" THEN r.good \cup {k} ELSE r.good
             q == [r EXCEPT !.sent = k, !.down = Append(@, Frame(k, f)), !.good = more]
  <2>1. /\ relay' = [relay EXCEPT ![c] = q] /\ UNCHANGED client /\ r.stage = "accepted" /\ k <= MaxFrames
        /\ f.type \in IF r.v2 THEN V2Types ELSE V1Types
    BY <1>0 DEF RelaySends
  <2> HIDE DEF more
  <2>2. /\ q.down = Append(r.down, Frame(k, f)) /\ q.stage = r.stage /\ q.v2 = r.v2
        /\ q.early = r.early /\ q.up = r.up /\ q.sent = k /\ q.good = more
    BY <1>0
  <2> HIDE DEF q
  <2>3. /\ q.sent = r.sent + 1 /\ q.sent <= MaxFrames /\ q.down = Append(r.down, Frame(q.sent, f))
        /\ q.good = IF DecodeInbound("agent", TRUE, r.v2, f.type, f.flaw) = "ok" THEN r.good \cup {q.sent} ELSE r.good
    BY <2>1, <2>2 DEF more
  <2> HIDE DEF r, cl, k
  <2>4. Flowing(cl, q)
    BY <1>0, <2>1, <2>2, <2>3, SendFlows
  <2> QED
    BY <2>1, <2>4, FlowStep DEF r, cl
<1>6. CASE \E e \in 1 .. MaxEpoch, v \in {ProtocolVersion, Advertised} : RelayAcceptsEarly(c, e, v)
  <2> PICK e \in 1 .. MaxEpoch, v \in {ProtocolVersion, Advertised} : RelayAcceptsEarly(c, e, v)
    BY <1>6
  <2> DEFINE q == [r EXCEPT !.early = TRUE, !.down = Append(@, Accepted(e, v))]
  <2>1. relay' = [relay EXCEPT ![c] = q] /\ UNCHANGED client /\ r.stage = "challenged"
    BY <1>0 DEF RelayAcceptsEarly
  <2>2. /\ q.down = Append(r.down, Accepted(e, v)) /\ q.stage = r.stage /\ q.good = r.good
        /\ q.v2 = r.v2 /\ q.up = r.up /\ q.sent = r.sent
    BY <1>0
  <2> HIDE DEF q
  <2>3. Accepted(e, v) \in Msg /\ Frameless(Accepted(e, v))
    <3>1. Accepted(e, v) \in Msg
      BY MessagesTyped
    <3>2. Accepted(e, v).n = 0 /\ Accepted(e, v).flaw = "none"
      BY AcceptDecodes
    <3> QED
      BY <3>1, <3>2 DEF Frameless
  <2>4. Flowing(cl, q)
    BY <1>0, <2>1, <2>2, <2>3, SaysFlows
  <2> QED
    BY <2>1, <2>4, FlowStep
<1>7. CASE \E e \in 1 .. MaxEpoch, v \in Version : RelayAccepts(c, e, v)
  <2> PICK e \in 1 .. MaxEpoch, v \in Version : RelayAccepts(c, e, v)
    BY <1>7
  <2> DEFINE q == [r EXCEPT !.stage = "accepted", !.v2 = IsProtocolV2(v), !.up = Tail(@),
                            !.down = Append(@, Accepted(e, v))]
  <2>1. /\ relay' = [relay EXCEPT ![c] = q] /\ UNCHANGED client /\ cl.ws = "open"
        /\ r.up # <<>> /\ r.stage # "accepted" /\ Head(r.up) = "hello"
    BY <1>0 DEF RelayAccepts, HearsHello, Hears
  <2>2. /\ q.down = Append(r.down, Accepted(e, v)) /\ q.v2 = IsProtocolV2(v)
        /\ q.sent = r.sent /\ q.good = r.good
    BY <1>0
  <2> HIDE DEF q
  <2>3. Accepted(e, v) \in Msg /\ "hello" \in Range(r.up)
    BY <1>1, <2>1, MessagesTyped
  <2>4. Flowing(cl, q)
    BY <1>0, <2>1, <2>2, <2>3, AcceptFlows
  <2> QED
    BY <2>1, <2>4, FlowStep
<1> QED
  BY <1>2, <1>3, <1>4, <1>5, <1>6, <1>7 DEF Relay

LEMMA StepFlows == IInv /\ FramesFlow /\ [Next]_vars => FramesFlow'
<1> SUFFICES ASSUME IInv, FramesFlow, [Next]_vars PROVE FramesFlow'
  OBVIOUS
<1>1. CASE UNCHANGED vars \/ Exits
  <2>1. client' = client /\ relay' = relay
    BY <1>1 DEF vars, Exits
  <2> QED
    BY <2>1 DEF FramesFlow
<1>2. CASE Stop
  BY <1>2, StopFlows
<1>3. ASSUME NEW c \in Conn, Handshake(c)
      PROVE  FramesFlow'
  BY <1>3, DialFlows, ClosesFlows, ConnectContinuesFlows, ChallengeContinuesFlows, HandshakeEndsFlows,
     EstablishedFlows DEF Handshake
<1>4. ASSUME NEW c \in Conn, Receive(c) \/ Oversized(c) \/ WaitTimesOut(c) \/ Closes(c) \/ Beats(c) \/ Relay(c)
      PROVE  FramesFlow'
  BY <1>4, ReceivesFlows, CutFlows, HandshakeEndsFlows, ClosesFlows, SendsFlows, RelayFlows
<1>5. ASSUME NEW c \in Conn, NEW t \in Uplink, SafeSend(c, t)
      PROVE  FramesFlow'
  BY <1>5, SendsFlows
<1> QED
  BY <1>1, <1>2, <1>3, <1>4, <1>5 DEF Next

-----------------------------------------------------------------------------
(* The theorems about the flow.                                            *)

\* On a connection whose relay accepted, the numbers of the frames that were handled,
\* are buffered and are in the socket ascend, none that decodes is missing among them,
\* and the client has come to, or will come to, speak the version they are encoded in
\* before it meets the first one (RelayClient's 'message' listener, deliver, waitFor
\* and onMessage, against the order in which the relay writes).
THEOREM FlowInvariance == Spec => []FramesFlow
<1>1. Init => FramesFlow
  BY InitFlows
<1>2. IInv /\ FramesFlow /\ [Next]_vars => FramesFlow'
  BY StepFlows
<1> QED
  BY <1>1, <1>2, RelaySessionInvariance, PTL DEF Spec

\* Whatever the relay sends in one read with the accept, and however the reads and the
\* handshake's continuations interleave, no frame behind the accept is lost, repeated or
\* handled out of order (client.ts's buffer of unclaimed messages, and the phase that
\* flips with the accept itself); one over maxPayload ends the connection behind all
\* that came before it.  A relay that Serves leaves out is not meant.
THEOREM NoFrameIsLost == Spec => []NoFrameLost
<1>1. FramesFlow => NoFrameLost
  BY DEF FramesFlow, Flowing, NoFrameLost
<1> QED
  BY <1>1, FlowInvariance, PTL
=============================================================================
