-------------------------------- MODULE Wire --------------------------------
(***************************************************************************)
(* The wire protocol, as far as it decides which frames get through:       *)
(* protocol/v1/messages.ts (the variants of the two versions, their        *)
(* directions, the types of the handshake), protocol/v1/index.ts           *)
(* (negotiateVersion, validateInbound) and src/conn/framing.ts             *)
(* (decodeInbound), which both ends run on every frame they receive.       *)
(*                                                                         *)
(* A frame is its type and what is wrong with its bytes; the fields that   *)
(* matter are in the modules that handle the message.                      *)
(***************************************************************************)
EXTENDS Naturals

\* The discriminators of Message, by the direction they travel in.
ToAgent ==
  {"auth.challenge", "hello.accepted", "hello.rejected", "lease.granted", "lease.revoke",
   "job.assign", "stream.ack", "approval.response", "job.result.ack", "job.cancel"}
ToServer ==
  {"hello", "lease.renew", "job.accept", "job.reject", "stream.event", "approval.request",
   "job.status", "job.result", "agent.draining", "capabilities.update"}
EitherWay == {"heartbeat", "nack", "error"}
V1Types == ToAgent \cup ToServer \cup EitherWay

\* What MessageV2 adds.
SessionToAgent ==
  {"session.list.request", "session.history.request", "session.resume.request",
   "session.cancel", "session.ack", "session.message"}
SessionToServer ==
  {"session.list.response", "session.history.response", "session.resume.accept",
   "session.resume.reject", "session.event", "session.turn.result", "session.error"}
V2Types == V1Types \cup SessionToAgent \cup SessionToServer

Direction(t) ==
  IF t \in EitherWay THEN "both"
  ELSE IF t \in ToAgent \cup SessionToAgent THEN "s2a" ELSE "a2s"

HandshakeTypes == {"auth.challenge", "hello", "hello.accepted", "hello.rejected", "nack", "error"}

\* validateInbound.
ValidateInbound(receiver, authed, t) ==
  IF Direction(t) \notin {"both", IF receiver = "agent" THEN "s2a" ELSE "a2s"} THEN "bad_direction"
  ELSE IF ~authed /\ t \notin HandshakeTypes THEN "bad_state"
  ELSE "ok"

\* decodeInbound: size, JSON and schema of the version in force, then the phase.
Flaws == {"none", "oversized", "malformed"}
DecodeInbound(receiver, authed, v2, t, flaw) ==
  IF flaw = "oversized" THEN "payload_too_large"
  ELSE IF flaw = "malformed" \/ t \notin (IF v2 THEN V2Types ELSE V1Types) THEN "invalid_message"
  ELSE ValidateInbound(receiver, authed, t)

\* A version is its major and its prerelease tag; the rest never decides.
Stable == ""
ProtocolVersion == [major |-> 1, pre |-> Stable]
NegotiateVersion(agent, supported) ==
  {v \in supported : IF agent.pre # Stable THEN v = agent
                     ELSE v.pre = Stable /\ v.major = agent.major}
IsProtocolV2(v) == v.major >= 2
=============================================================================
