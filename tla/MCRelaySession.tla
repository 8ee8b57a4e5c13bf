--------------------------- MODULE MCRelaySession ---------------------------
(* RelaySession with the versions and frames given as definitions.           *)
EXTENDS RelaySession

V(major, pre) == [major |-> major, pre |-> pre]
MCAdvertised == V(2, Stable)
MCSupported == {V(1, Stable), V(2, Stable), V(2, "draft")}
MCForced == {V(1, Stable), V(2, "draft")}

\* Frames of both versions, one of the wrong direction, and one over maxPayload.
MCDownlink ==
  {[type |-> "session.ack", flaw |-> "none"], [type |-> "lease.revoke", flaw |-> "none"],
   [type |-> "job.accept", flaw |-> "none"], [type |-> "job.assign", flaw |-> "oversized"]}
MCUplink == {"session.event"}
=============================================================================
