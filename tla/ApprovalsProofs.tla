-------------------------- MODULE ApprovalsProofs --------------------------
(***************************************************************************)
(* Approvals for every set of requests: the fail-closed rule, the finality *)
(* of a decision and the timer behind every held prompt, from one          *)
(* inductive invariant.                                                    *)
(***************************************************************************)
EXTENDS Approvals, TLAPS

\* The subprocess's own steps keep the invariant: it reads what was written, and
\* denies what breaks.
LEMMA SubprocessStep ==
  ASSUME IInv, NEW q \in Req,
         Prompts(q) \/ ReadsDecision(q) \/ ChannelBreaks(q) \/ SubprocessDies(q)
  PROVE  IInv'
<1> USE DEF IInv, TypeOK, FailClosed, HeldPromptIsTimed, AllowIsSaid, WrittenOnce,
            PendingIsOpen, PromptFirst, TimersServed
<1>1. CASE Prompts(q)
  BY <1>1 DEF Prompts
<1>2. CASE ReadsDecision(q)
  BY <1>2 DEF ReadsDecision, Behavior, Decision
<1>3. CASE ChannelBreaks(q)
  BY <1>3 DEF ChannelBreaks, Behavior
<1>4. CASE SubprocessDies(q)
  BY <1>4 DEF SubprocessDies
<1> QED
  BY <1>1, <1>2, <1>3, <1>4

\* So do the daemon's: the bridge writes a decision only on a socket it holds, and
\* lets go of it in the same call.
LEMMA DaemonStep ==
  ASSUME IInv, NEW q \in Req,
         \/ OnApprovalRequest(q) \/ ApprovalTimesOut(q)
         \/ \E ok \in BOOLEAN : HandleApprovalResponse(q, ok)
  PROVE  IInv'
<1> USE DEF IInv, TypeOK, FailClosed, HeldPromptIsTimed, AllowIsSaid, WrittenOnce,
            PendingIsOpen, PromptFirst, TimersServed
<1>0. ASSUME NEW d \in Decision, d = "deny" \/ said[q] = d, Resolve(q, d),
             timers' = timers \ {q}, UNCHANGED <<prompt, sock, run, conn, asked, said>>
      PROVE  IInv'
  BY <1>0 DEF Resolve, Decision
<1>1. CASE OnApprovalRequest(q)
  BY <1>1 DEF OnApprovalRequest, OnConnection
<1>2. CASE ApprovalTimesOut(q)
  BY <1>0, <1>2 DEF ApprovalTimesOut, Decision
<1>3. CASE \E ok \in BOOLEAN : HandleApprovalResponse(q, ok)
  BY <1>0, <1>3 DEF HandleApprovalResponse, Decision
<1> QED
  BY <1>1, <1>2, <1>3

\* And the steps that are about no single request.
LEMMA OtherStep ==
  ASSUME IInv,
         Fenced \/ RunEnds \/ LinkChanges \/ \E q \in Req, d \in Decision : Decides(q, d)
  PROVE  IInv'
<1> USE DEF IInv, TypeOK, FailClosed, HeldPromptIsTimed, AllowIsSaid, WrittenOnce,
            PendingIsOpen, PromptFirst, TimersServed
<1>1. CASE Fenced
  BY <1>1 DEF Fenced
<1>2. CASE RunEnds
  BY <1>2 DEF RunEnds
<1>3. CASE LinkChanges
  BY <1>3 DEF LinkChanges
<1>4. CASE \E q \in Req, d \in Decision : Decides(q, d)
  BY <1>4 DEF Decides, Decision
<1> QED
  BY <1>1, <1>2, <1>3, <1>4

\* Every step of the specification keeps the invariant.
LEMMA NextStep == IInv /\ [Next]_vars => IInv'
<1> SUFFICES ASSUME IInv, [Next]_vars PROVE IInv'
  OBVIOUS
<1>1. CASE Next
  BY <1>1, SubprocessStep, DaemonStep, OtherStep DEF Next
<1>2. CASE UNCHANGED vars
  BY <1>2 DEF vars, IInv, TypeOK, FailClosed, HeldPromptIsTimed, AllowIsSaid, WrittenOnce,
              PendingIsOpen, PromptFirst, TimersServed
<1> QED
  BY <1>1, <1>2

\* The inductive invariant holds in every reachable state.
THEOREM ApprovalInvariance == Spec => []IInv
<1>1. Init => IInv
  BY DEF Init, IInv, TypeOK, FailClosed, HeldPromptIsTimed, AllowIsSaid, WrittenOnce,
         PendingIsOpen, PromptFirst, TimersServed
<1> QED
  BY <1>1, NextStep, PTL DEF Spec

\* permission.ts: no tool runs that the human has not allowed, however many
\* prompts are open and whatever happens to the channel.
THEOREM ToolsFailClosed == Spec => []FailClosed
<1>1. IInv => FailClosed
  BY DEF IInv
<1> QED
  BY <1>1, ApprovalInvariance, PTL

\* manager.ts onApprovalRequest: every prompt the bridge holds for a run that is
\* served has a timer that will deny it.
THEOREM PromptsAreTimed == Spec => []HeldPromptIsTimed
<1>1. IInv => HeldPromptIsTimed
  BY DEF IInv
<1> QED
  BY <1>1, ApprovalInvariance, PTL

\* A decision once written is never replaced: a response that comes after the
\* timeout, or a second response, changes nothing.
THEOREM DecisionsAreFinal == Spec => OneDecision
<1>1. IInv /\ [Next]_vars => [\A q \in Req : wire[q] # "none" => wire'[q] = wire[q]]_vars
  <2> SUFFICES ASSUME IInv, Next, NEW q \in Req, wire[q] # "none"
               PROVE  wire'[q] = wire[q]
    BY DEF vars
  <2>1. wire \in [Req -> Decision \cup {"none"}] /\ q \notin pending
    BY DEF IInv, TypeOK, WrittenOnce
  <2>2. ASSUME NEW u \in Req, NEW d, Resolve(u, d)
        PROVE  wire'[q] = wire[q]
    BY <2>1, <2>2 DEF Resolve
  <2>3. ASSUME NEW u \in Req, ApprovalTimesOut(u) \/ \E ok \in BOOLEAN : HandleApprovalResponse(u, ok)
        PROVE  wire'[q] = wire[q]
    BY <2>2, <2>3 DEF ApprovalTimesOut, HandleApprovalResponse
  <2> QED
    BY <2>3 DEF Next, Prompts, ReadsDecision, ChannelBreaks, SubprocessDies, OnApprovalRequest, OnConnection,
                Decides, Fenced, RunEnds, LinkChanges
<1> QED
  BY <1>1, ApprovalInvariance, PTL DEF Spec, OneDecision
=============================================================================
