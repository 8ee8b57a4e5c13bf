----------------------------- MODULE Approvals -----------------------------
(***************************************************************************)
(* Remote approval of tool calls, end to end, for one run: the permission  *)
(* subprocess claude spawns (requestDecision), the daemon's ApprovalBridge *)
(* (both src/engine/permission.ts), and the manager's approval timers      *)
(* (onApprovalRequest, handleApprovalResponse, clearApprovals of           *)
(* src/jobs/manager.ts).                                                   *)
(*                                                                         *)
(* Each prompt has a socket of its own.  Lines on it and frames to the     *)
(* relay take time; an approval.request sent while disconnected is lost    *)
(* (it is not durable).  The relay and its human are external: they answer *)
(* a request they received, and the response may come late, twice, or      *)
(* under a lease that is no longer valid.                                  *)
(***************************************************************************)
EXTENDS Integers

CONSTANT Req  \* request ids

VARIABLES
  prompt,   \* the subprocess: what each permission_prompt call has come to
  sock,     \* its socket: "none", "sent" (request line in flight), "open", "closed"
  wire,     \* the decision line the bridge wrote on it, if any
  pending,  \* ApprovalBridge.pending
  timers,   \* JobState.approvalTimers
  run,      \* "live", "fenced" (revoked, the child is being killed), "done"
  conn,     \* whether the daemon has a working connection
  asked,    \* requests the relay has received (external)
  said      \* the human's decision on each (external)

vars == <<prompt, sock, wire, pending, timers, run, conn, asked, said>>

Decision == {"allow", "deny"}

TypeOK ==
  /\ prompt \in [Req -> {"none", "waiting", "allowed", "denied", "killed"}]
  /\ sock \in [Req -> {"none", "sent", "open", "closed"}]
  /\ wire \in [Req -> Decision \cup {"none"}]
  /\ pending \subseteq Req
  /\ timers \subseteq Req
  /\ run \in {"live", "fenced", "done"}
  /\ conn \in BOOLEAN
  /\ asked \subseteq Req
  /\ said \in [Req -> Decision \cup {"none"}]

Init ==
  /\ prompt = [q \in Req |-> "none"]
  /\ sock = [q \in Req |-> "none"]
  /\ wire = [q \in Req |-> "none"]
  /\ pending = {}
  /\ timers = {}
  /\ run = "live"
  /\ conn = TRUE
  /\ asked = {}
  /\ said = [q \in Req |-> "none"]

-----------------------------------------------------------------------------
(* The subprocess.                                                         *)

\* connect and write the request; once the bridge is closed, connect fails.
Prompts(q) ==
  /\ prompt[q] = "none"
  /\ prompt' = [prompt EXCEPT ![q] = "waiting"]
  /\ sock' = [sock EXCEPT ![q] = IF run = "done" THEN "closed" ELSE "sent"]
  /\ UNCHANGED <<wire, pending, timers, run, conn, asked, said>>

\* What permission_prompt tells claude: only a decision that says allow lets it.
Behavior(d) == IF d = "allow" THEN "allowed" ELSE "denied"

\* socket 'data': the decision line.
ReadsDecision(q) ==
  /\ prompt[q] = "waiting" /\ wire[q] # "none"
  /\ prompt' = [prompt EXCEPT ![q] = Behavior(wire[q])]
  /\ UNCHANGED <<sock, wire, pending, timers, run, conn, asked, said>>

\* Mutant: a broken channel lets the tool run.
MutantChannelBreaks(q) ==
  /\ prompt[q] = "waiting" /\ sock[q] = "closed"
  /\ prompt' = [prompt EXCEPT ![q] = "allowed"]
  /\ UNCHANGED <<sock, wire, pending, timers, run, conn, asked, said>>

\* socket 'error' or 'close' before a decision: DENY_BROKEN.
ChannelBreaks(q) ==
  /\ prompt[q] = "waiting" /\ sock[q] = "closed"
  /\ prompt' = [prompt EXCEPT ![q] = Behavior("deny")]
  /\ UNCHANGED <<sock, wire, pending, timers, run, conn, asked, said>>

\* The subprocess dies; the bridge sees 'close' and drops what it asked.
SubprocessDies(q) ==
  /\ prompt[q] = "waiting" /\ sock[q] = "open"
  /\ prompt' = [prompt EXCEPT ![q] = "killed"]
  /\ sock' = [sock EXCEPT ![q] = "closed"]
  /\ pending' = pending \ {q}
  /\ UNCHANGED <<wire, timers, run, conn, asked, said>>

-----------------------------------------------------------------------------
(* The daemon.                                                             *)

\* ApprovalBridge.resolve: a stale id is a no-op.
Resolve(q, d) ==
  /\ wire' = IF q \in pending THEN [wire EXCEPT ![q] = d] ELSE wire
  /\ pending' = pending \ {q}

\* The bridge reads the request line; what else may come over the socket it skips.
OnConnection(q) ==
  /\ sock[q] = "sent" /\ run # "done"
  /\ sock' = [sock EXCEPT ![q] = "open"]
  /\ pending' = pending \cup {q}

\* In the same call: onApprovalRequest.
OnApprovalRequest(q) ==
  /\ OnConnection(q)
  /\ timers' = IF run = "live" THEN timers \cup {q} ELSE timers
  /\ asked' = IF run = "live" /\ conn THEN asked \cup {q} ELSE asked
  /\ UNCHANGED <<prompt, wire, run, conn, said>>

ApprovalTimesOut(q) ==
  /\ q \in timers
  /\ timers' = timers \ {q}
  /\ Resolve(q, "deny")
  /\ UNCHANGED <<prompt, sock, run, conn, asked, said>>

\* Mutant: the timer is cleared before the lease is checked.
MutantHandleApprovalResponse(q, leaseOk) ==
  /\ conn /\ said[q] # "none" /\ run = "live" /\ q \in timers
  /\ timers' = timers \ {q}
  /\ IF leaseOk THEN Resolve(q, said[q]) ELSE UNCHANGED <<wire, pending>>
  /\ UNCHANGED <<prompt, sock, run, conn, asked, said>>

\* Mutant: the response goes to the bridge without a look at the timers.
MutantResponseUntimed(q, leaseOk) ==
  /\ conn /\ said[q] # "none" /\ run = "live" /\ leaseOk
  /\ wire' = [wire EXCEPT ![q] = said[q]]
  /\ UNCHANGED <<prompt, sock, pending, timers, run, conn, asked, said>>

\* Ignored unless the run is registered, the lease valid and the timer running.
HandleApprovalResponse(q, leaseOk) ==
  /\ conn /\ said[q] # "none"
  /\ run = "live" /\ leaseOk /\ q \in timers
  /\ timers' = timers \ {q}
  /\ Resolve(q, said[q])
  /\ UNCHANGED <<prompt, sock, run, conn, asked, said>>

\* handleRevoke or abandon: clearApprovals, and the child is being killed.
Fenced ==
  /\ run = "live"
  /\ run' = "fenced"
  /\ timers' = {}
  /\ UNCHANGED <<prompt, sock, wire, pending, conn, asked, said>>

\* Mutant: close forgets the requests but leaves their sockets open.
MutantRunEnds ==
  /\ run # "done"
  /\ run' = "done" /\ timers' = {} /\ pending' = {}
  /\ UNCHANGED <<prompt, sock, wire, conn, asked, said>>

\* finish: ApprovalBridge.close destroys every socket; onDone: clearApprovals.
\* A crash of the daemon leaves the same behind.
RunEnds ==
  /\ run # "done"
  /\ run' = "done" /\ timers' = {} /\ pending' = {}
  /\ sock' = [q \in Req |-> IF sock[q] = "none" THEN "none" ELSE "closed"]
  /\ UNCHANGED <<prompt, wire, conn, asked, said>>

-----------------------------------------------------------------------------
(* The far side.                                                           *)

Decides(q, d) ==
  /\ q \in asked /\ said[q] = "none"
  /\ said' = [said EXCEPT ![q] = d]
  /\ UNCHANGED <<prompt, sock, wire, pending, timers, run, conn, asked>>

LinkChanges == conn' = ~conn /\ UNCHANGED <<prompt, sock, wire, pending, timers, run, asked, said>>

Next ==
  \/ \E q \in Req :
       \/ Prompts(q)
       \/ ReadsDecision(q)
       \/ ChannelBreaks(q)
       \/ SubprocessDies(q)
       \/ OnApprovalRequest(q)
       \/ ApprovalTimesOut(q)
       \/ \E ok \in BOOLEAN : HandleApprovalResponse(q, ok)
       \/ \E d \in Decision : Decides(q, d)
  \/ Fenced
  \/ RunEnds
  \/ LinkChanges

Spec == Init /\ [][Next]_vars

-----------------------------------------------------------------------------
(* Properties.                                                             *)

\* permission.ts "Fail-closed": a tool runs only if the human allowed that very
\* request, whatever breaks, times out or is revoked on the way.
FailClosed == \A q \in Req : prompt[q] = "allowed" => said[q] = "allow"

\* manager.ts "late responses are then ignored": the decision a prompt was given
\* never changes, so an allow that loses to the timeout stays a denial.
OneDecision ==
  [][\A q \in Req : wire[q] # "none" => wire'[q] = wire[q]]_vars

\* While the run is served, every prompt the bridge holds has its timer, so that
\* a request lost with the connection is still answered.
HeldPromptIsTimed == run = "live" => pending \subseteq timers

(* The inductive invariant: a decision on the wire was the human's or is a *)
(* denial, and is only ever written on a socket the bridge still holds.    *)
AllowIsSaid == \A q \in Req : wire[q] = "allow" => said[q] = "allow"

WrittenOnce == \A q \in Req : wire[q] # "none" => q \notin pending /\ sock[q] \in {"open", "closed"}

PendingIsOpen == \A q \in pending : sock[q] = "open"

PromptFirst == \A q \in Req : prompt[q] = "none" => sock[q] = "none"

TimersServed == run # "live" => timers = {}

IInv ==
  /\ TypeOK
  /\ FailClosed
  /\ HeldPromptIsTimed
  /\ AllowIsSaid
  /\ WrittenOnce
  /\ PendingIsOpen
  /\ PromptFirst
  /\ TimersServed

(* Liveness: timers fire, lines arrive, and a revoked run's child dies.    *)
Fairness ==
  /\ \A q \in Req : /\ WF_vars(ReadsDecision(q))
                    /\ WF_vars(ChannelBreaks(q))
                    /\ WF_vars(OnApprovalRequest(q))
                    /\ WF_vars(ApprovalTimesOut(q))
  /\ WF_vars(run = "fenced" /\ RunEnds)

FairSpec == Spec /\ Fairness

\* No tool waits for ever: not for a relay that is gone, a run that was revoked
\* before the prompt was read, or a bridge that closed.
PromptsSettle == \A q \in Req : prompt[q] = "waiting" ~> prompt[q] # "waiting"
=============================================================================
