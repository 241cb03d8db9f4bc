------------------------- MODULE ConversationProofs -------------------------
(* The approval gate of a conversation's tools, for every set of tools and     *)
(* policies, every model, every store fault and any number of runs.            *)
EXTENDS Conversation, TLAPS

\* What the policy map of a binding may have become: a tool that asked for
\* approval when the skill was bound still does, unless the approver let it pass
\* for the session.
GateInv ==
  \A t \in DOMAIN Policy : Policy[t] = "need_approve" =>
    /\ t \in DOMAIN policies
    /\ policies[t] = "need_approve" \/ <<"tool", t>> \in granted

ApprovalInv == GateInv /\ ApprovedBeforeUse

gate == <<policies, granted, used>>

\* A step that leaves the policy map, the grants and the used tools alone keeps
\* the invariant.
LEMMA GateUntouched == ApprovalInv /\ UNCHANGED gate => ApprovalInv'
  BY DEF ApprovalInv, GateInv, ApprovedBeforeUse, gate

\* A tool that passes without a question was never gated or was let pass for the
\* session.
LEMMA PassedStep == ApprovalInv /\ DispatchPassed => ApprovalInv'
<1> SUFFICES ASSUME ApprovalInv, DispatchPassed PROVE ApprovalInv'
  OBVIOUS
<1>1. /\ UNCHANGED <<policies, granted>>
      /\ used' = used \cup {Head(calls)}
      /\ PolicyOf(Head(calls).tool) = "passby"
  BY DEF DispatchPassed, Execute, Tool
<1>2. GateInv'
  BY <1>1 DEF ApprovalInv, GateInv
<1>3. ASSUME NEW u \in used', u.tool \in DOMAIN Policy, Policy[u.tool] = "need_approve"
      PROVE  {<<"call", u.id>>, <<"tool", u.tool>>} \cap granted' # {}
  <2>1. CASE u \in used
    BY <2>1, <1>1, <1>3 DEF ApprovalInv, ApprovedBeforeUse
  <2>2. CASE u = Head(calls)
    BY <2>2, <1>1, <1>3 DEF ApprovalInv, GateInv, PolicyOf
  <2> QED
    BY <2>1, <2>2, <1>1, <1>3
<1> QED
  BY <1>2, <1>3 DEF ApprovalInv, ApprovedBeforeUse

\* An approval is recorded before the tool is used, and only an approval for the
\* session opens the gate for later calls.
LEMMA ApprovalStep ==
  ASSUME NEW answer \in ApproverAnswers, ApprovalInv, RequestApproval(answer)
  PROVE  ApprovalInv'
<1>1. CASE Resolved(answer) = "deny"
  <2>1. UNCHANGED gate
    BY <1>1 DEF RequestApproval, Resolved, gate
  <2> QED
    BY <2>1, GateUntouched
<1>2. CASE Resolved(answer) # "deny"
  <2>1. answer \in {"approve", "approve_for_session"}
    BY <1>2 DEF Resolved
  <2> DEFINE call == Head(calls)
             grant == IF answer = "approve" THEN <<"call", call.id>> ELSE <<"tool", call.tool>>
  <2>2. used' = used \cup {call} /\ granted' = granted \cup {grant}
    BY <1>2 DEF RequestApproval, Execute, Tool
  <2>3. policies' = IF answer = "approve_for_session" THEN [policies EXCEPT ![call.tool] = "passby"] ELSE policies
    BY DEF RequestApproval, Tool
  <2>4. GateInv'
    <3> SUFFICES ASSUME NEW t \in DOMAIN Policy, Policy[t] = "need_approve"
                 PROVE  /\ t \in DOMAIN policies'
                        /\ policies'[t] = "need_approve" \/ <<"tool", t>> \in granted'
      BY DEF GateInv
    <3>1. t \in DOMAIN policies /\ (policies[t] = "need_approve" \/ <<"tool", t>> \in granted)
      BY DEF ApprovalInv, GateInv
    <3>2. CASE answer = "approve"
      BY <3>1, <3>2, <2>2, <2>3
    <3>3. CASE answer = "approve_for_session"
      <4>1. DOMAIN policies' = DOMAIN policies
        BY <3>3, <2>3
      <4>2. t # call.tool => policies'[t] = policies[t]
        BY <3>1, <3>3, <2>3
      <4>3. <<"tool", call.tool>> \in granted'
        BY <3>3, <2>2
      <4> QED
        BY <3>1, <4>1, <4>2, <4>3, <2>2
    <3> QED
      BY <2>1, <3>2, <3>3
  <2>5. ASSUME NEW u \in used', u.tool \in DOMAIN Policy, Policy[u.tool] = "need_approve"
        PROVE  {<<"call", u.id>>, <<"tool", u.tool>>} \cap granted' # {}
    <3>1. CASE u \in used
      BY <3>1, <2>2, <2>5 DEF ApprovalInv, ApprovedBeforeUse
    <3>2. CASE u = call
      BY <3>2, <2>2
    <3> QED
      BY <3>1, <3>2, <2>2, <2>5
  <2> QED
    BY <2>4, <2>5 DEF ApprovalInv, ApprovedBeforeUse
<1> QED
  BY <1>1, <1>2

\* A new binding starts with the configured policies and without grants.
LEMMA CloseStep ==
  ASSUME NEW k, Close(k) PROVE ApprovalInv'
<1>1. policies' = Policy /\ used' = {}
  BY DEF Close, BoundPolicies
<1> QED
  BY <1>1 DEF ApprovalInv, GateInv, ApprovedBeforeUse

\* For every set of tools, every policy and every sequence of responses,
\* approvals, faults and bindings, a tool that asks for approval runs only with
\* one (policyTool.Execute, wrapToolsWithPolicySet).
THEOREM GateHolds == Spec => []ApprovedBeforeUse
<1>1. Init => ApprovalInv
  BY DEF Init, ApprovalInv, GateInv, ApprovedBeforeUse
<1>2. ApprovalInv /\ [Next]_vars => ApprovalInv'
  <2> SUFFICES ASSUME ApprovalInv, [Next]_vars PROVE ApprovalInv'
    OBVIOUS
  <2>1. CASE SessionBound \/ AppendAll \/ RequestFails \/ Final \/ Refuse \/ OpenSession \/ OpenRefused
             \/ RunStart
    <3>1. UNCHANGED gate
      BY <2>1 DEF SessionBound, AppendAll, RequestFails, Final, Refuse, OpenSession, OpenRefused, RunStart, ghosts, gate
    <3> QED
      BY <3>1, GateUntouched
  <2>2. CASE Answers \/ Streams \/ Truncates
    <3>1. UNCHANGED gate
      BY <2>2 DEF Answers, RunStep, Streams, Stream, Truncates, Truncate, gate
    <3> QED
      BY <3>1, GateUntouched
  <2>3. CASE \E k \in 1 .. Len(pend) : AppendFails(k)
    <3>1. UNCHANGED gate
      BY <2>3 DEF AppendFails, gate
    <3> QED
      BY <3>1, GateUntouched
  <2>4. CASE DispatchPassed
    BY <2>4, PassedStep
  <2>5. CASE \E answer \in ApproverAnswers : RequestApproval(answer)
    BY <2>5, ApprovalStep
  <2>6. CASE \E k \in 0 .. Len(pend) : Close(k)
    BY <2>6, CloseStep
  <2>7. CASE UNCHANGED vars
    <3>1. UNCHANGED gate
      BY <2>7 DEF vars, gate
    <3> QED
      BY <3>1, GateUntouched
  <2> QED
    BY <2>1, <2>2, <2>3, <2>4, <2>5, <2>6, <2>7 DEF Next, Work
<1>3. ApprovalInv => ApprovedBeforeUse
  BY DEF ApprovalInv
<1> QED
  BY <1>1, <1>2, <1>3, PTL DEF Spec
=============================================================================
