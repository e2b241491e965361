-------------------------- MODULE ApprovalsProofs --------------------------
(***************************************************************************)
(* For any number of gate threads, operators, calls and requests: a call   *)
(* that needs approval is allowed only on an approval granted for it.      *)
(*                                                                         *)
(* AllowedOnApproval speaks of the answers alone.  It is inductive         *)
(* together with what the threads hold on the way to an answer: a thread   *)
(* past the checks of consume keeps a reference that was granted for its   *)
(* call, whatever others have since made of the status, and a request      *)
(* that has left "new" is never bound to another call.                     *)
(***************************************************************************)
EXTENDS Approvals, TLAPS

(* The reference r was granted, for the call c. *)
GrantedFor(r, c) ==
    /\ r \in granted
    /\ bound[r] = c

(* An approved request was granted; a granted one has left "new". *)
GrantInv ==
    /\ \A r \in Requests : status[r] = "approved" => r \in granted
    /\ \A r \in granted : status[r] # "new"

(* A thread past the checks of consume holds a granted reference. *)
HolderInv ==
    \A t \in Callers :
        (pc[t] = "consume" \/ loc[t].consumed) => GrantedFor(loc[t].ref, loc[t].call)

(* An operator thread past the test for pending holds a request. *)
DeciderInv ==
    \A o \in Operators :
        pc[o] = "decide" => dec[o].req \in Requests /\ status[dec[o].req] # "new"

(* A thread that consults a reference has one; an allow decision on a call
   that needs approval consumed it. *)
CallerInv ==
    \A t \in Callers :
        /\ pc[t] = "check" => loc[t].ref \in Requests
        /\ (pc[t] = "receipt" /\ loc[t].decision = "allow" /\ loc[t].needs) => loc[t].consumed

ApprovalInv ==
    /\ TypeOK
    /\ GrantInv
    /\ HolderInv
    /\ DeciderInv
    /\ CallerInv
    /\ AllowedOnApproval

CallLocals ==
    [call : Calls, ref : Requests \cup {None}, ok : BOOLEAN, needs : BOOLEAN,
     consumed : BOOLEAN, decision : {"allow", "deny", "escalate"}]

Counts == [calls : Nat, decisions : Nat, faults : Nat, crashes : Nat, overlaps : Nat]

(* A call or decision that begins is counted, and so is a first overlap. *)
LEMMA BeginIs ==
    ASSUME used \in Counts, NEW kind \in {"calls", "decisions"}, Begin(kind)
    PROVE  /\ used' \in Counts
           /\ used'.faults = used.faults /\ used'.crashes = used.crashes
           /\ used'.overlaps = 0 =>
                 used.overlaps = 0 /\ \A t \in Callers \cup Operators : Idle(t)
<1> DEFINE n == IF \A t \in Callers \cup Operators : Idle(t) THEN used.overlaps ELSE 1
<1>1. n \in Nat /\ (n = 0 => used.overlaps = 0 /\ \A t \in Callers \cup Operators : Idle(t))
  BY DEF Counts
<1>2. used' = [used EXCEPT ![kind] = @ + 1, !.overlaps = n]
  BY DEF Begin, Counts
<1> HIDE DEF n
<1>3. CASE kind = "calls"
  <2>1. used' = [calls |-> used.calls + 1, decisions |-> used.decisions, faults |-> used.faults,
                 crashes |-> used.crashes, overlaps |-> n]
    BY <1>2, <1>3 DEF Counts
  <2> QED BY <1>1, <2>1 DEF Counts
<1>4. CASE kind = "decisions"
  <2>1. used' = [calls |-> used.calls, decisions |-> used.decisions + 1, faults |-> used.faults,
                 crashes |-> used.crashes, overlaps |-> n]
    BY <1>2, <1>4 DEF Counts
  <2> QED BY <1>1, <2>1 DEF Counts
<1> QED BY <1>3, <1>4

(* The initial state has no request, no grant and no answer. *)
LEMMA InitEstablishes == Init => ApprovalInv
  <1> SUFFICES ASSUME Init PROVE ApprovalInv
    OBVIOUS
  <1>0. (CHOOSE c \in Calls : TRUE) \in Calls
    BY ApprovalsAssumption
  <1>1. TypeOK
    BY <1>0, ApprovalsAssumption
    DEF Init, TypeOK, Statuses, CallSteps, DecideSteps, NoCall, NoDecision
  <1>2. GrantInv /\ HolderInv /\ DeciderInv /\ CallerInv /\ AllowedOnApproval
    BY DEF Init, GrantInv, HolderInv, DeciderInv, CallerInv, AllowedOnApproval, NoCall
  <1> QED BY <1>1, <1>2 DEF ApprovalInv

(* Every step keeps the invariant: one case per action. *)
LEMMA StepPreserves == ApprovalInv /\ [Next]_vars => ApprovalInv'
  <1> SUFFICES ASSUME ApprovalInv, [Next]_vars
               PROVE  ApprovalInv'
    OBVIOUS
  <1> USE ApprovalsAssumption
      DEF ApprovalInv, TypeOK, Statuses, CallSteps, DecideSteps
  <1>0. NoCall \in CallLocals /\ ~NoCall.consumed
    <2>1. (CHOOSE c \in Calls : TRUE) \in Calls
      OBVIOUS
    <2> QED BY <2>1 DEF NoCall, CallLocals
  <1>1. ASSUME NEW t \in Callers, NEW c \in Calls, NEW ref \in Requests \cup {None},
               NEW ok \in BOOLEAN, NEW needs \in BOOLEAN, Call(t, c, ref, ok, needs)
       PROVE  ApprovalInv'
    <2>1. TypeOK'
      BY <1>1, <1>0, BeginIs DEF Counts, CallLocals, Call, Goto, Idle
    <2>2. GrantInv'
      BY <1>1, <1>0, <2>1 DEF CallLocals, Call, Goto, Idle, GrantInv, DeciderInv
    <2>3. HolderInv'
      BY <1>1, <1>0, <2>1 DEF CallLocals, Call, Goto, Idle, GrantInv, HolderInv, CallerInv, GrantedFor
    <2>4. DeciderInv'
      BY <1>1, <1>0, <2>1 DEF CallLocals, Call, Goto, Idle, DeciderInv
    <2>5. CallerInv'
      BY <1>1, <1>0, <2>1 DEF CallLocals, Call, Goto, Idle, CallerInv, HolderInv
    <2>6. AllowedOnApproval'
      BY <1>1, <1>0, <2>1 DEF CallLocals, Call, Goto, Idle, AllowedOnApproval, GrantInv, HolderInv, CallerInv, GrantedFor
    <2> QED BY <2>1, <2>2, <2>3, <2>4, <2>5, <2>6
  <1>2. ASSUME NEW t \in Callers, ConsumeRefused(t)
       PROVE  ApprovalInv'
    <2>1. TypeOK'
      BY <1>2, <1>0 DEF CallLocals, ConsumeRefused, Goto, Lapsed
    <2>2. GrantInv'
      BY <1>2, <1>0, <2>1 DEF CallLocals, ConsumeRefused, Goto, Lapsed, GrantInv, DeciderInv
    <2>3. HolderInv'
      BY <1>2, <1>0, <2>1 DEF CallLocals, ConsumeRefused, Goto, Lapsed, GrantInv, HolderInv, CallerInv, GrantedFor
    <2>4. DeciderInv'
      BY <1>2, <1>0, <2>1 DEF CallLocals, ConsumeRefused, Goto, Lapsed, DeciderInv
    <2>5. CallerInv'
      BY <1>2, <1>0, <2>1 DEF CallLocals, ConsumeRefused, Goto, Lapsed, CallerInv, HolderInv
    <2>6. AllowedOnApproval'
      BY <1>2, <1>0, <2>1 DEF CallLocals, ConsumeRefused, Goto, Lapsed, AllowedOnApproval, GrantInv, HolderInv, CallerInv, GrantedFor
    <2> QED BY <2>1, <2>2, <2>3, <2>4, <2>5, <2>6
  <1>3. ASSUME NEW t \in Callers, ConsumeChecked(t)
       PROVE  ApprovalInv'
    <2>1. TypeOK'
      BY <1>3, <1>0 DEF CallLocals, ConsumeChecked, Goto, Binds
    <2>2. GrantInv'
      BY <1>3, <1>0, <2>1 DEF CallLocals, ConsumeChecked, Goto, Binds, GrantInv, DeciderInv
    <2>3. HolderInv'
      BY <1>3, <1>0, <2>1 DEF CallLocals, ConsumeChecked, Goto, Binds, GrantInv, HolderInv, CallerInv, GrantedFor
    <2>4. DeciderInv'
      BY <1>3, <1>0, <2>1 DEF CallLocals, ConsumeChecked, Goto, Binds, DeciderInv
    <2>5. CallerInv'
      BY <1>3, <1>0, <2>1 DEF CallLocals, ConsumeChecked, Goto, Binds, CallerInv, HolderInv
    <2>6. AllowedOnApproval'
      BY <1>3, <1>0, <2>1 DEF CallLocals, ConsumeChecked, Goto, Binds, AllowedOnApproval, GrantInv, HolderInv, CallerInv, GrantedFor
    <2> QED BY <2>1, <2>2, <2>3, <2>4, <2>5, <2>6
  <1>4. ASSUME NEW t \in Callers, ConsumeSet(t)
       PROVE  ApprovalInv'
    <2>1. TypeOK'
      <3>1. status' \in [Requests -> Statuses]
        BY <1>4 DEF ConsumeSet
      <3> HIDE DEF TypeOK, ApprovalInv
      <3>0. loc[t] \in CallLocals
        BY DEF TypeOK, ApprovalInv, CallLocals
      <3>2. [loc[t] EXCEPT !.consumed = TRUE] \in CallLocals
        BY <3>0, TRUE \in BOOLEAN DEF CallLocals
      <3> USE DEF TypeOK, ApprovalInv
      <3>3. loc' \in [Callers -> CallLocals]
        BY <1>4, <3>2 DEF ConsumeSet, CallLocals
      <3> QED BY <1>4, <3>1, <3>3 DEF ConsumeSet, Goto, CallLocals
    <2>2. GrantInv'
      BY <1>4, <1>0, <2>1 DEF CallLocals, ConsumeSet, Goto, GrantInv, DeciderInv
    <2>3. HolderInv'
      BY <1>4, <1>0, <2>1 DEF CallLocals, ConsumeSet, Goto, GrantInv, HolderInv, CallerInv, GrantedFor
    <2>4. DeciderInv'
      BY <1>4, <1>0, <2>1 DEF CallLocals, ConsumeSet, Goto, DeciderInv
    <2>5. CallerInv'
      BY <1>4, <1>0, <2>1 DEF CallLocals, ConsumeSet, Goto, CallerInv, HolderInv
    <2>6. AllowedOnApproval'
      BY <1>4, <1>0, <2>1 DEF CallLocals, ConsumeSet, Goto, AllowedOnApproval, GrantInv, HolderInv, CallerInv, GrantedFor
    <2> QED BY <2>1, <2>2, <2>3, <2>4, <2>5, <2>6
  <1>5. ASSUME NEW t \in Callers, Apply(t)
       PROVE  ApprovalInv'
    <2>1. TypeOK'
      <3>1. Decision(loc[t]) \in {"allow", "deny", "escalate"}
        BY DEF Decision
      <3>2. [loc[t] EXCEPT !.decision = Decision(loc[t])] \in CallLocals
        BY <3>1 DEF CallLocals
      <3>3. loc' \in [Callers -> CallLocals]
        BY <1>5, <3>2 DEF Apply, CallLocals
      <3>4. status' \in [Requests -> Statuses]
        BY <1>5 DEF Apply
      <3>5. bound' \in [Requests -> Calls]
        BY <1>5 DEF Apply
      <3>6. used' \in [calls : Nat, decisions : Nat, faults : Nat, crashes : Nat, overlaps : Nat]
        BY <1>5 DEF Apply, Fault
      <3>7. pc' = [pc EXCEPT ![t] = "receipt"]
        BY <1>5 DEF Apply, Goto
      <3> QED BY <1>5, <3>3, <3>4, <3>5, <3>6, <3>7 DEF Apply, CallLocals
    <2>2. GrantInv'
      BY <1>5, <1>0, <2>1 DEF CallLocals, Apply, Goto, Decision, Fault, GrantInv, DeciderInv
    <2>3. HolderInv'
      BY <1>5, <1>0, <2>1 DEF CallLocals, Apply, Goto, Decision, Fault, GrantInv, HolderInv, CallerInv, GrantedFor
    <2>4. DeciderInv'
      BY <1>5, <1>0, <2>1 DEF CallLocals, Apply, Goto, Decision, Fault, DeciderInv
    <2>5. CallerInv'
      BY <1>5, <1>0, <2>1 DEF CallLocals, Apply, Goto, Decision, Fault, CallerInv, HolderInv
    <2>6. AllowedOnApproval'
      BY <1>5, <1>0, <2>1 DEF CallLocals, Apply, Goto, Decision, Fault, AllowedOnApproval, GrantInv, HolderInv, CallerInv, GrantedFor
    <2> QED BY <2>1, <2>2, <2>3, <2>4, <2>5, <2>6
  <1>6. ASSUME NEW t \in Callers, Receipt(t)
       PROVE  ApprovalInv'
    <2>1. TypeOK'
      BY <1>6, <1>0 DEF CallLocals, Receipt, Goto
    <2>2. GrantInv'
      BY <1>6, <1>0, <2>1 DEF CallLocals, Receipt, Goto, GrantInv, DeciderInv
    <2>3. HolderInv'
      BY <1>6, <1>0, <2>1 DEF CallLocals, Receipt, Goto, GrantInv, HolderInv, CallerInv, GrantedFor
    <2>4. DeciderInv'
      BY <1>6, <1>0, <2>1 DEF CallLocals, Receipt, Goto, DeciderInv
    <2>5. CallerInv'
      BY <1>6, <1>0, <2>1 DEF CallLocals, Receipt, Goto, CallerInv, HolderInv
    <2>6. AllowedOnApproval'
      BY <1>6, <1>0, <2>1 DEF CallLocals, Receipt, Goto, AllowedOnApproval, GrantInv, HolderInv, CallerInv, GrantedFor
    <2> QED BY <2>1, <2>2, <2>3, <2>4, <2>5, <2>6
  <1>7. ASSUME NEW t \in Callers, ReceiptFails(t)
       PROVE  ApprovalInv'
    <2>1. TypeOK'
      BY <1>7, <1>0 DEF CallLocals, ReceiptFails, Goto, Fault
    <2>2. GrantInv'
      BY <1>7, <1>0, <2>1 DEF CallLocals, ReceiptFails, Goto, Fault, GrantInv, DeciderInv
    <2>3. HolderInv'
      BY <1>7, <1>0, <2>1 DEF CallLocals, ReceiptFails, Goto, Fault, GrantInv, HolderInv, CallerInv, GrantedFor
    <2>4. DeciderInv'
      BY <1>7, <1>0, <2>1 DEF CallLocals, ReceiptFails, Goto, Fault, DeciderInv
    <2>5. CallerInv'
      BY <1>7, <1>0, <2>1 DEF CallLocals, ReceiptFails, Goto, Fault, CallerInv, HolderInv
    <2>6. AllowedOnApproval'
      BY <1>7, <1>0, <2>1 DEF CallLocals, ReceiptFails, Goto, Fault, AllowedOnApproval, GrantInv, HolderInv, CallerInv, GrantedFor
    <2> QED BY <2>1, <2>2, <2>3, <2>4, <2>5, <2>6
  <1>8. ASSUME NEW t \in Callers, Deny(t)
       PROVE  ApprovalInv'
    <2>1. TypeOK'
      BY <1>8, <1>0 DEF CallLocals, Deny, Goto
    <2>2. GrantInv'
      BY <1>8, <1>0, <2>1 DEF CallLocals, Deny, Goto, GrantInv, DeciderInv
    <2>3. HolderInv'
      BY <1>8, <1>0, <2>1 DEF CallLocals, Deny, Goto, GrantInv, HolderInv, CallerInv, GrantedFor
    <2>4. DeciderInv'
      BY <1>8, <1>0, <2>1 DEF CallLocals, Deny, Goto, DeciderInv
    <2>5. CallerInv'
      BY <1>8, <1>0, <2>1 DEF CallLocals, Deny, Goto, CallerInv, HolderInv
    <2>6. AllowedOnApproval'
      BY <1>8, <1>0, <2>1 DEF CallLocals, Deny, Goto, AllowedOnApproval, GrantInv, HolderInv, CallerInv, GrantedFor
    <2> QED BY <2>1, <2>2, <2>3, <2>4, <2>5, <2>6
  <1>9. ASSUME NEW o \in Operators, NEW r \in Requests, NEW verdict \in {"approved", "denied"},
               DecideRefused(o, r, verdict)
       PROVE  ApprovalInv'
    <2>1. TypeOK'
      BY <1>9, <1>0, BeginIs DEF Counts, CallLocals, DecideRefused, Lapsed
    <2>2. GrantInv'
      BY <1>9, <1>0, <2>1 DEF CallLocals, DecideRefused, Lapsed, GrantInv, DeciderInv
    <2>3. HolderInv'
      BY <1>9, <1>0, <2>1 DEF CallLocals, DecideRefused, Lapsed, GrantInv, HolderInv, CallerInv, GrantedFor
    <2>4. DeciderInv'
      BY <1>9, <1>0, <2>1 DEF CallLocals, DecideRefused, Lapsed, DeciderInv
    <2>5. CallerInv'
      BY <1>9, <1>0, <2>1 DEF CallLocals, DecideRefused, Lapsed, CallerInv, HolderInv
    <2>6. AllowedOnApproval'
      BY <1>9, <1>0, <2>1 DEF CallLocals, DecideRefused, Lapsed, AllowedOnApproval, GrantInv, HolderInv, CallerInv, GrantedFor
    <2> QED BY <2>1, <2>2, <2>3, <2>4, <2>5, <2>6
  <1>10. ASSUME NEW o \in Operators, NEW r \in Requests, NEW verdict \in {"approved", "denied"},
               DecideChecked(o, r, verdict)
       PROVE  ApprovalInv'
    <2>1. TypeOK'
      BY <1>10, <1>0, BeginIs DEF Counts, CallLocals, DecideChecked, Goto, Idle
    <2>2. GrantInv'
      BY <1>10, <1>0, <2>1 DEF CallLocals, DecideChecked, Goto, Idle, GrantInv, DeciderInv
    <2>3. HolderInv'
      BY <1>10, <1>0, <2>1 DEF CallLocals, DecideChecked, Goto, Idle, GrantInv, HolderInv, CallerInv, GrantedFor
    <2>4. DeciderInv'
      BY <1>10, <1>0, <2>1 DEF CallLocals, DecideChecked, Goto, Idle, DeciderInv
    <2>5. CallerInv'
      BY <1>10, <1>0, <2>1 DEF CallLocals, DecideChecked, Goto, Idle, CallerInv, HolderInv
    <2>6. AllowedOnApproval'
      BY <1>10, <1>0, <2>1 DEF CallLocals, DecideChecked, Goto, Idle, AllowedOnApproval, GrantInv, HolderInv, CallerInv, GrantedFor
    <2> QED BY <2>1, <2>2, <2>3, <2>4, <2>5, <2>6
  <1>11. ASSUME NEW o \in Operators, DecideSet(o)
       PROVE  ApprovalInv'
    <2>1. TypeOK'
      <3>1. dec[o].verdict \in Statuses
        OBVIOUS
      <3>2. status' \in [Requests -> Statuses]
        BY <1>11, <3>1 DEF DecideSet
      <3>3. dec[o].req \in Requests
        BY <1>11 DEF DecideSet, DeciderInv
      <3> QED BY <1>11, <3>2, <3>3 DEF DecideSet, Goto
    <2>2. GrantInv'
      BY <1>11, <1>0, <2>1 DEF CallLocals, DecideSet, Goto, GrantInv, DeciderInv
    <2>3. HolderInv'
      BY <1>11, <1>0, <2>1 DEF CallLocals, DecideSet, Goto, GrantInv, HolderInv, CallerInv, GrantedFor
    <2>4. DeciderInv'
      BY <1>11, <1>0, <2>1 DEF CallLocals, DecideSet, Goto, DeciderInv
    <2>5. CallerInv'
      BY <1>11, <1>0, <2>1 DEF CallLocals, DecideSet, Goto, CallerInv, HolderInv
    <2>6. AllowedOnApproval'
      BY <1>11, <1>0, <2>1 DEF CallLocals, DecideSet, Goto, AllowedOnApproval, GrantInv, HolderInv, CallerInv, GrantedFor
    <2> QED BY <2>1, <2>2, <2>3, <2>4, <2>5, <2>6
  <1>12. ASSUME NEW o \in Operators, DecideReceipt(o)
       PROVE  ApprovalInv'
    <2>1. TypeOK'
      <3>1. used' \in [calls : Nat, decisions : Nat, faults : Nat, crashes : Nat, overlaps : Nat]
        BY <1>12 DEF DecideReceipt, Fault
      <3>2. NoDecision \in [req : Requests \cup {None}, verdict : {"approved", "denied"}]
        BY DEF NoDecision
      <3> QED BY <1>12, <3>1, <3>2 DEF DecideReceipt, Goto
    <2>2. GrantInv'
      BY <1>12, <1>0, <2>1 DEF CallLocals, DecideReceipt, Goto, Fault, NoDecision, GrantInv, DeciderInv
    <2>3. HolderInv'
      BY <1>12, <1>0, <2>1 DEF CallLocals, DecideReceipt, Goto, Fault, NoDecision, GrantInv, HolderInv, CallerInv, GrantedFor
    <2>4. DeciderInv'
      BY <1>12, <1>0, <2>1 DEF CallLocals, DecideReceipt, Goto, Fault, NoDecision, DeciderInv
    <2>5. CallerInv'
      BY <1>12, <1>0, <2>1 DEF CallLocals, DecideReceipt, Goto, Fault, NoDecision, CallerInv, HolderInv
    <2>6. AllowedOnApproval'
      BY <1>12, <1>0, <2>1 DEF CallLocals, DecideReceipt, Goto, Fault, NoDecision, AllowedOnApproval, GrantInv, HolderInv, CallerInv, GrantedFor
    <2> QED BY <2>1, <2>2, <2>3, <2>4, <2>5, <2>6
  <1>13. ASSUME NEW r \in Requests, Lapse(r)
       PROVE  ApprovalInv'
    <2>1. TypeOK'
      BY <1>13, <1>0 DEF CallLocals, Lapse
    <2>2. GrantInv'
      BY <1>13, <1>0, <2>1 DEF CallLocals, Lapse, GrantInv, DeciderInv
    <2>3. HolderInv'
      BY <1>13, <1>0, <2>1 DEF CallLocals, Lapse, GrantInv, HolderInv, CallerInv, GrantedFor
    <2>4. DeciderInv'
      BY <1>13, <1>0, <2>1 DEF CallLocals, Lapse, DeciderInv
    <2>5. CallerInv'
      BY <1>13, <1>0, <2>1 DEF CallLocals, Lapse, CallerInv, HolderInv
    <2>6. AllowedOnApproval'
      BY <1>13, <1>0, <2>1 DEF CallLocals, Lapse, AllowedOnApproval, GrantInv, HolderInv, CallerInv, GrantedFor
    <2> QED BY <2>1, <2>2, <2>3, <2>4, <2>5, <2>6
  <1>14. ASSUME Restart
       PROVE  ApprovalInv'
    <2>1. TypeOK'
      BY <1>14, <1>0 DEF CallLocals, Restart, NoDecision
    <2>2. GrantInv'
      BY <1>14, <1>0, <2>1 DEF CallLocals, Restart, NoDecision, GrantInv, DeciderInv
    <2>3. HolderInv'
      BY <1>14, <1>0, <2>1 DEF CallLocals, Restart, NoDecision, GrantInv, HolderInv, CallerInv, GrantedFor
    <2>4. DeciderInv'
      BY <1>14, <1>0, <2>1 DEF CallLocals, Restart, NoDecision, DeciderInv
    <2>5. CallerInv'
      BY <1>14, <1>0, <2>1 DEF CallLocals, Restart, NoDecision, CallerInv, HolderInv
    <2>6. AllowedOnApproval'
      BY <1>14, <1>0, <2>1 DEF CallLocals, Restart, NoDecision, AllowedOnApproval, GrantInv, HolderInv, CallerInv, GrantedFor
    <2> QED BY <2>1, <2>2, <2>3, <2>4, <2>5, <2>6
  <1>15. ASSUME UNCHANGED vars
       PROVE  ApprovalInv'
    <2>1. TypeOK'
      BY <1>15, <1>0 DEF CallLocals, vars
    <2>2. GrantInv'
      BY <1>15, <1>0, <2>1 DEF CallLocals, vars, GrantInv, DeciderInv
    <2>3. HolderInv'
      BY <1>15, <1>0, <2>1 DEF CallLocals, vars, GrantInv, HolderInv, CallerInv, GrantedFor
    <2>4. DeciderInv'
      BY <1>15, <1>0, <2>1 DEF CallLocals, vars, DeciderInv
    <2>5. CallerInv'
      BY <1>15, <1>0, <2>1 DEF CallLocals, vars, CallerInv, HolderInv
    <2>6. AllowedOnApproval'
      BY <1>15, <1>0, <2>1 DEF CallLocals, vars, AllowedOnApproval, GrantInv, HolderInv, CallerInv, GrantedFor
    <2> QED BY <2>1, <2>2, <2>3, <2>4, <2>5, <2>6
  <1> HIDE DEF ApprovalInv, TypeOK, Statuses, CallSteps, DecideSteps
  <1> QED
    BY <1>1, <1>2, <1>3, <1>4, <1>5, <1>6, <1>7, <1>8, <1>9, <1>10, <1>11, <1>12, <1>13, <1>14, <1>15 DEF Next

(* consume and _apply_decision, with all that runs beside them, allow a call
   that needs approval only on a request granted for this very call. *)
THEOREM AllowsAreApproved == Spec => []AllowedOnApproval
  <1>1. ApprovalInv => AllowedOnApproval
    BY DEF ApprovalInv
  <1> QED BY InitEstablishes, StepPreserves, <1>1, PTL DEF Spec

----------------------------------------------------------------------------
(* ApprovalsStand: what holds in every run of the grants and their receipts,
   and what holds until a thread begins beside another. *)

Recording(o, r) ==
    /\ pc[o] = "record"
    /\ dec[o].verdict = "approved"
    /\ dec[o].req = r

(* A granted request has its receipt, or the operator is about to write it. *)
RecordInv ==
    used.faults = 0 /\ used.crashes = 0 =>
       \A r \in granted : \/ <<"approved", r>> \in chain
                          \/ \E o \in Operators : Recording(o, r)

Threads == Callers \cup Operators

(* No more than one thread is at work. *)
OneAtWork == \A t, u \in Threads : ~Idle(t) /\ ~Idle(u) => t = u

(* What a gate thread found at its test still holds when it acts on it. *)
CallerAlone ==
    \A t \in Callers :
        /\ pc[t] \in {"idle", "check", "consume"} => ~loc[t].consumed
        /\ pc[t] = "consume" => status[loc[t].ref] = "approved"
        /\ loc[t].consumed => status[loc[t].ref] = "consumed" /\ paid[loc[t].ref] = 0

(* So does what an operator thread found. *)
DeciderAlone ==
    \A o \in Operators : pc[o] = "decide" => status[dec[o].req] = "pending"

(* Only a consumed request has paid, and once. *)
PaidOnce ==
    \A r \in Requests :
        /\ paid[r] <= 1
        /\ status[r] \notin {"consumed", "lost"} => paid[r] = 0

SerialInv ==
    used.overlaps = 0 => OneAtWork /\ CallerAlone /\ DeciderAlone /\ PaidOnce

(* The initial state has nothing to record, no thread at work and no payment. *)
LEMMA InitRecordSerial == Init => RecordInv /\ SerialInv
  BY DEF Init, RecordInv, SerialInv, OneAtWork, CallerAlone, DeciderAlone, PaidOnce,
         Threads, Idle, NoCall

(* Every step keeps RecordInv: only DecideSet grants, and its thread is then at
   "record"; only DecideReceipt leaves "record", with the receipt or a fault. *)
LEMMA RecordPreserves ==
    ASSUME ApprovalInv, RecordInv, [Next]_vars
    PROVE  RecordInv'
<1>0. TypeOK /\ DeciderInv /\ used \in Counts
  BY DEF ApprovalInv, TypeOK, Counts
<1>1. ASSUME granted' = granted, chain \subseteq chain', dec' = dec,
             used'.faults = 0 /\ used'.crashes = 0 => used.faults = 0 /\ used.crashes = 0,
             \A o \in Operators : pc[o] = "record" => pc'[o] = "record"
      PROVE  RecordInv'
  <2>1. ASSUME NEW o \in Operators, NEW r, Recording(o, r) PROVE Recording(o, r)'
    BY <1>1, <2>1 DEF Recording
  <2> QED BY <1>1, <2>1 DEF RecordInv
<1>2. ASSUME NEW t \in Callers,
             \/ \E c \in Calls, ref \in Requests \cup {None}, ok, needs \in BOOLEAN :
                    Call(t, c, ref, ok, needs)
             \/ ConsumeRefused(t) \/ ConsumeChecked(t) \/ ConsumeSet(t)
             \/ Apply(t) \/ Receipt(t) \/ ReceiptFails(t) \/ Deny(t)
      PROVE  RecordInv'
  <2>1. granted' = granted /\ dec' = dec /\ chain \subseteq chain'
    BY <1>2 DEF Call, ConsumeRefused, ConsumeChecked, ConsumeSet, Apply, Receipt, ReceiptFails, Deny
  <2>2. used' = used \/ Fault \/ Begin("calls")
    BY <1>2 DEF Call, ConsumeRefused, ConsumeChecked, ConsumeSet, Apply, Receipt, ReceiptFails, Deny
  <2>3. used'.faults = 0 /\ used'.crashes = 0 => used.faults = 0 /\ used.crashes = 0
    <3>1. CASE Fault
      BY <1>0, <3>1 DEF Fault, Counts
    <3> QED BY <1>0, <2>2, <3>1, BeginIs
  <2>4. \E s : pc' = [pc EXCEPT ![t] = s]
    BY <1>2 DEF Call, ConsumeRefused, ConsumeChecked, ConsumeSet, Apply, Receipt, ReceiptFails,
                Deny, Goto
  <2>5. \A o \in Operators : pc'[o] = pc[o]
    BY <1>0, <2>4, ApprovalsAssumption DEF TypeOK
  <2> QED BY <1>1, <2>1, <2>3, <2>5
<1>3. ASSUME NEW o \in Operators, NEW r \in Requests, NEW verdict \in {"approved", "denied"},
             DecideRefused(o, r, verdict) \/ DecideChecked(o, r, verdict)
      PROVE  RecordInv'
  <2>1. /\ granted' = granted /\ chain' = chain
        /\ \A u \in Operators : pc[u] = "record" => pc'[u] = "record" /\ dec'[u] = dec[u]
    BY <1>0, <1>3 DEF DecideRefused, DecideChecked, Goto, Idle, TypeOK
  <2>2. used'.faults = used.faults /\ used'.crashes = used.crashes
    BY <1>0, <1>3, BeginIs DEF DecideRefused, DecideChecked
  <2>3. ASSUME NEW u \in Operators, NEW q, Recording(u, q) PROVE Recording(u, q)'
    BY <2>1, <2>3 DEF Recording
  <2> QED BY <2>1, <2>2, <2>3 DEF RecordInv
<1>4. ASSUME NEW o \in Operators, DecideSet(o)
      PROVE  RecordInv'
  <2>1. pc'[o] = "record" /\ \A u \in Operators : u # o => pc'[u] = pc[u]
    BY <1>0, <1>4 DEF DecideSet, Goto, TypeOK
  <2>2. dec' = dec /\ chain' = chain /\ used' = used /\ pc[o] = "decide"
    BY <1>4 DEF DecideSet
  <2>3. ASSUME dec[o].verdict = "approved" PROVE Recording(o, dec[o].req)'
    BY <2>1, <2>2, <2>3 DEF Recording
  <2>4. ASSUME NEW u \in Operators, NEW r, Recording(u, r) PROVE Recording(u, r)'
    BY <2>1, <2>2, <2>4 DEF Recording
  <2> QED BY <1>4, <2>2, <2>3, <2>4 DEF DecideSet, RecordInv
<1>5. ASSUME NEW o \in Operators, DecideReceipt(o)
      PROVE  RecordInv'
  <2>1. CASE Fault
    <3>1. used'.faults # 0
      BY <1>0, <2>1 DEF Fault, Counts
    <3> QED BY <3>1 DEF RecordInv
  <2>2. CASE chain' = chain \cup {<<dec[o].verdict, dec[o].req>>} /\ UNCHANGED used
    <3>1. \A u \in Operators : u # o => pc'[u] = pc[u] /\ dec'[u] = dec[u]
      BY <1>0, <1>5 DEF DecideReceipt, Goto, TypeOK
    <3>2. ASSUME NEW u \in Operators, NEW r, u # o, Recording(u, r) PROVE Recording(u, r)'
      BY <3>1, <3>2 DEF Recording
    <3>3. ASSUME NEW r, Recording(o, r) PROVE <<"approved", r>> \in chain'
      BY <2>2, <3>3 DEF Recording
    <3> QED BY <1>5, <2>2, <3>2, <3>3 DEF DecideReceipt, RecordInv
  <2> QED BY <1>5, <2>1, <2>2 DEF DecideReceipt
<1>6. CASE Restart
  <2>1. used'.crashes # 0
    BY <1>0, <1>6 DEF Restart, Counts
  <2> QED BY <2>1 DEF RecordInv
<1>7. CASE UNCHANGED vars \/ \E r \in Requests : Lapse(r)
  BY <1>1, <1>7 DEF vars, Lapse
<1> QED BY <1>2, <1>3, <1>4, <1>5, <1>6, <1>7 DEF Next

(* A thread that was at work, or the only one to begin, goes on alone. *)
LEMMA GoesAlone ==
    ASSUME TypeOK, NEW t \in Threads, NEW s, pc' = [pc EXCEPT ![t] = s],
           \/ OneAtWork /\ ~Idle(t)
           \/ \A u \in Threads : Idle(u)
    PROVE  OneAtWork' /\ \A u \in Threads : u # t => pc'[u] = pc[u] /\ Idle(u)
<1>1. \A u \in Threads : u # t => pc'[u] = pc[u] /\ Idle(u)
  BY DEF TypeOK, Threads, OneAtWork
<1> QED BY <1>1 DEF OneAtWork, Idle

(* A gate thread at work leaves the others idle, so only what it holds itself
   has to agree with the new status. *)
LEMMA CallerGoes ==
    ASSUME TypeOK, NEW t \in Callers, NEW s, NEW l,
           pc' = [pc EXCEPT ![t] = s], loc' = [loc EXCEPT ![t] = l],
           \/ OneAtWork /\ ~Idle(t)
           \/ \A u \in Threads : Idle(u),
           CallerAlone,
           s \in {"idle", "check", "consume"} => ~l.consumed,
           s = "consume" => status'[l.ref] = "approved",
           l.consumed => status'[l.ref] = "consumed" /\ paid'[l.ref] = 0
    PROVE  OneAtWork' /\ CallerAlone' /\ DeciderAlone'
<1>0. t \in Threads
  BY DEF Threads
<1>1. OneAtWork' /\ \A u \in Threads : u # t => pc'[u] = pc[u] /\ Idle(u)
  BY <1>0, GoesAlone
<1>2. ASSUME NEW u \in Callers, u # t
      PROVE  loc'[u] = loc[u] /\ pc'[u] = "idle" /\ ~loc[u].consumed
  BY <1>1, <1>2 DEF TypeOK, Threads, Idle, CallerAlone
<1>3. pc'[t] = s /\ loc'[t] = l
  BY DEF TypeOK
<1>4. CallerAlone'
  BY <1>2, <1>3 DEF CallerAlone
<1>5. \A o \in Operators : pc'[o] = "idle"
  BY <1>1, ApprovalsAssumption DEF Threads, Idle
<1> QED BY <1>1, <1>4, <1>5 DEF DeciderAlone

(* So does an operator thread. *)
LEMMA OperatorGoes ==
    ASSUME TypeOK, NEW o \in Operators, NEW s,
           pc' = [pc EXCEPT ![o] = s], loc' = loc,
           \/ OneAtWork /\ ~Idle(o)
           \/ \A u \in Threads : Idle(u),
           CallerAlone,
           s = "decide" => status'[dec'[o].req] = "pending"
    PROVE  OneAtWork' /\ CallerAlone' /\ DeciderAlone'
<1>0. o \in Threads
  BY DEF Threads
<1>1. OneAtWork' /\ \A u \in Threads : u # o => pc'[u] = pc[u] /\ Idle(u)
  BY <1>0, GoesAlone
<1>2. ASSUME NEW t \in Callers
      PROVE  loc'[t] = loc[t] /\ pc'[t] = "idle" /\ ~loc[t].consumed
  BY <1>1, <1>2, ApprovalsAssumption DEF TypeOK, Threads, Idle, CallerAlone
<1>3. CallerAlone'
  BY <1>2 DEF CallerAlone
<1>4. ASSUME NEW u \in Operators, u # o PROVE pc'[u] = "idle"
  BY <1>1, <1>4 DEF Threads, Idle
<1>5. pc'[o] = s
  BY DEF TypeOK
<1> QED BY <1>1, <1>3, <1>4, <1>5 DEF DeciderAlone

(* Every step keeps SerialInv and undoes no decision: one case per action. *)
LEMMA SerialPreserves ==
    ASSUME ApprovalInv, SerialInv, [Next]_vars, used'.overlaps = 0
    PROVE  OneAtWork' /\ CallerAlone' /\ DeciderAlone' /\ PaidOnce' /\ DecisionStep
<1>0. TypeOK /\ HolderInv /\ DeciderInv /\ CallerInv /\ used \in Counts
  BY DEF ApprovalInv, TypeOK, Counts
<1>a. ASSUME used.overlaps = 0 PROVE OneAtWork /\ CallerAlone /\ DeciderAlone /\ PaidOnce
  BY <1>a DEF SerialInv
<1>b. ASSUME NEW t \in Callers, loc' = loc PROVE loc' = [loc EXCEPT ![t] = loc[t]]
  BY <1>0, <1>b DEF TypeOK
<1>c. status \in [Requests -> Statuses] /\ paid \in [Requests -> Nat]
  BY <1>0 DEF TypeOK
<1>d. ASSUME Fault PROVE used.overlaps = 0
  BY <1>0, <1>d DEF Fault, Counts
<1>f. ASSUME status' = status PROVE DecisionStep
  BY <1>f DEF DecisionStep
<1>g. ASSUME status' = status, paid' = paid, PaidOnce PROVE PaidOnce'
  BY <1>g DEF PaidOnce
(* A pending request that has lapsed is expired. *)
<1>e. ASSUME NEW r \in Requests, PaidOnce, paid' = paid,
             status' = IF Lapsed(r) THEN [status EXCEPT ![r] = "expired"] ELSE status
      PROVE  PaidOnce' /\ DecisionStep
  BY <1>e, <1>c DEF Lapsed, PaidOnce, DecisionStep
<1>1. ASSUME NEW t \in Callers, NEW c \in Calls, NEW ref \in Requests \cup {None},
             NEW ok \in BOOLEAN, NEW needs \in BOOLEAN, Call(t, c, ref, ok, needs)
      PROVE  OneAtWork' /\ CallerAlone' /\ DeciderAlone' /\ PaidOnce' /\ DecisionStep
  <2>1. used.overlaps = 0 /\ \A u \in Threads : Idle(u)
    BY <1>0, <1>1, BeginIs DEF Call, Threads
  <2>2. status' = status /\ paid' = paid
    BY <1>1 DEF Call
  <2>3. OneAtWork' /\ CallerAlone' /\ DeciderAlone'
    <3> DEFINE l == [call |-> c, ref |-> ref, ok |-> ok, needs |-> needs,
                     consumed |-> FALSE, decision |-> "deny"]
               s == IF ref = None THEN "apply" ELSE "check"
    <3>1. pc' = [pc EXCEPT ![t] = s] /\ loc' = [loc EXCEPT ![t] = l]
      BY <1>1 DEF Call, Goto
    <3>2. ~l.consumed /\ s # "consume"
      OBVIOUS
    <3> HIDE DEF l, s
    <3> QED BY <1>0, <1>a, <2>1, <3>1, <3>2, CallerGoes
  <2> QED BY <1>a, <1>f, <1>g, <2>1, <2>2, <2>3
<1>2. ASSUME NEW t \in Callers, ConsumeRefused(t)
      PROVE  OneAtWork' /\ CallerAlone' /\ DeciderAlone' /\ PaidOnce' /\ DecisionStep
  <2>1. /\ used.overlaps = 0 /\ pc[t] = "check" /\ loc[t].ref \in Requests
        /\ paid' = paid /\ pc' = [pc EXCEPT ![t] = "refused"] /\ loc' = loc
    BY <1>0, <1>2 DEF ConsumeRefused, Goto, CallerInv
  <2>2. ~loc[t].consumed
    BY <1>a, <2>1 DEF CallerAlone
  <2>3. OneAtWork' /\ CallerAlone' /\ DeciderAlone'
    BY <1>0, <1>a, <1>b, <2>1, <2>2, CallerGoes DEF Idle
  <2>4. PaidOnce' /\ DecisionStep
    BY <1>a, <1>e, <1>2, <2>1 DEF ConsumeRefused
  <2> QED BY <2>3, <2>4
<1>3. ASSUME NEW t \in Callers, ConsumeChecked(t)
      PROVE  OneAtWork' /\ CallerAlone' /\ DeciderAlone' /\ PaidOnce' /\ DecisionStep
  <2>1. /\ used.overlaps = 0 /\ pc[t] = "check" /\ status[loc[t].ref] = "approved"
        /\ status' = status /\ paid' = paid
        /\ pc' = [pc EXCEPT ![t] = "consume"] /\ loc' = loc
    BY <1>3 DEF ConsumeChecked, Goto
  <2>2. ~loc[t].consumed
    BY <1>a, <2>1 DEF CallerAlone
  <2>3. OneAtWork' /\ CallerAlone' /\ DeciderAlone'
    BY <1>0, <1>a, <1>b, <2>1, <2>2, CallerGoes DEF Idle
  <2> QED BY <1>a, <1>f, <1>g, <2>1, <2>3
<1>4. ASSUME NEW t \in Callers, ConsumeSet(t)
      PROVE  OneAtWork' /\ CallerAlone' /\ DeciderAlone' /\ PaidOnce' /\ DecisionStep
  <2> DEFINE l == [loc[t] EXCEPT !.consumed = TRUE]
  <2>1. /\ used.overlaps = 0 /\ pc[t] = "consume" /\ paid' = paid
        /\ status' = [status EXCEPT ![loc[t].ref] = "consumed"]
        /\ pc' = [pc EXCEPT ![t] = "apply"] /\ loc' = [loc EXCEPT ![t] = l]
    BY <1>4 DEF ConsumeSet, Goto
  <2>2. loc[t].ref \in Requests /\ status[loc[t].ref] = "approved" /\ l.ref = loc[t].ref
    BY <1>0, <1>a, <2>1 DEF HolderInv, GrantedFor, CallerAlone, TypeOK
  <2> HIDE DEF l
  <2>3. paid'[l.ref] = 0 /\ status'[l.ref] = "consumed"
    <3>1. paid[loc[t].ref] = 0
      BY <1>a, <2>1, <2>2 DEF PaidOnce
    <3> QED BY <1>c, <2>1, <2>2, <3>1
  <2>4. OneAtWork' /\ CallerAlone' /\ DeciderAlone'
    BY <1>0, <1>a, <2>1, <2>3, CallerGoes DEF Idle
  <2>5. PaidOnce' /\ DecisionStep
    BY <1>a, <1>c, <2>1, <2>2 DEF PaidOnce, DecisionStep
  <2> QED BY <2>4, <2>5
<1>5. ASSUME NEW t \in Callers, Apply(t)
      PROVE  OneAtWork' /\ CallerAlone' /\ DeciderAlone' /\ PaidOnce' /\ DecisionStep
  <2> DEFINE l == [loc[t] EXCEPT !.decision = Decision(loc[t])]
  <2>1. /\ used.overlaps = 0 /\ pc[t] = "apply" /\ paid' = paid
        /\ pc' = [pc EXCEPT ![t] = "receipt"] /\ loc' = [loc EXCEPT ![t] = l]
    BY <1>5, <1>d DEF Apply, Goto
  <2>2. l.ref = loc[t].ref /\ l.consumed = loc[t].consumed
    BY <1>0 DEF TypeOK
  <2>3. \/ status' = status
        \/ \E r \in Requests : status[r] = "new" /\ status' = [status EXCEPT ![r] = "pending"]
    BY <1>5 DEF Apply
  <2> HIDE DEF l
  <2>4. l.consumed => status'[l.ref] = "consumed" /\ paid'[l.ref] = 0
    <3>1. ASSUME l.consumed
          PROVE  loc[t].ref \in Requests /\ status[loc[t].ref] = "consumed" /\ paid[loc[t].ref] = 0
      BY <1>0, <1>a, <2>1, <2>2, <3>1 DEF HolderInv, GrantedFor, CallerAlone, TypeOK
    <3> QED BY <1>c, <2>1, <2>2, <2>3, <3>1
  <2>5. OneAtWork' /\ CallerAlone' /\ DeciderAlone'
    BY <1>0, <1>a, <2>1, <2>4, CallerGoes DEF Idle
  <2>6. PaidOnce' /\ DecisionStep
    BY <1>a, <1>c, <2>1, <2>3 DEF PaidOnce, DecisionStep
  <2> QED BY <2>5, <2>6
<1>6. ASSUME NEW t \in Callers, Receipt(t)
      PROVE  OneAtWork' /\ CallerAlone' /\ DeciderAlone' /\ PaidOnce' /\ DecisionStep
  <2>1. /\ used.overlaps = 0 /\ pc[t] = "receipt" /\ status' = status
        /\ pc' = [pc EXCEPT ![t] = "idle"] /\ loc' = [loc EXCEPT ![t] = NoCall]
    BY <1>6 DEF Receipt, Goto
  <2>2. paid' = paid \/ (loc[t].consumed /\ paid' = [paid EXCEPT ![loc[t].ref] = @ + 1])
    BY <1>6 DEF Receipt
  <2>3. loc[t].consumed =>
           loc[t].ref \in Requests /\ status[loc[t].ref] = "consumed" /\ paid[loc[t].ref] = 0
    BY <1>0, <1>a, <2>1 DEF HolderInv, GrantedFor, CallerAlone, TypeOK
  <2>4. PaidOnce'
    BY <1>a, <1>c, <2>1, <2>2, <2>3 DEF PaidOnce
  <2>5. ~NoCall.consumed
    BY DEF NoCall
  <2>6. OneAtWork' /\ CallerAlone' /\ DeciderAlone'
    BY <1>0, <1>a, <2>1, <2>5, CallerGoes DEF Idle
  <2> QED BY <1>f, <2>1, <2>4, <2>6
<1>7. ASSUME NEW t \in Callers, ReceiptFails(t) \/ Deny(t)
      PROVE  OneAtWork' /\ CallerAlone' /\ DeciderAlone' /\ PaidOnce' /\ DecisionStep
  <2>1. /\ used.overlaps = 0 /\ pc[t] \in {"receipt", "refused"}
        /\ status' = status /\ paid' = paid
    BY <1>7, <1>d DEF ReceiptFails, Deny
  <2>2. OneAtWork' /\ CallerAlone' /\ DeciderAlone'
    <3>1. CASE Deny(t)
      <4>1. /\ pc' = [pc EXCEPT ![t] = "idle"] /\ loc' = [loc EXCEPT ![t] = NoCall]
            /\ ~NoCall.consumed
        BY <3>1 DEF Deny, Goto, NoCall
      <4> QED BY <1>0, <1>a, <2>1, <4>1, CallerGoes DEF Idle
    <3>2. CASE ReceiptFails(t)
      <4>1. pc' = [pc EXCEPT ![t] = "refused"] /\ loc' = loc
        BY <3>2 DEF ReceiptFails, Goto
      <4>2. loc[t].consumed => status'[loc[t].ref] = "consumed" /\ paid'[loc[t].ref] = 0
        BY <1>a, <2>1 DEF CallerAlone
      <4> QED BY <1>0, <1>a, <1>b, <2>1, <4>1, <4>2, CallerGoes DEF Idle
    <3> QED BY <1>7, <3>1, <3>2
  <2> QED BY <1>a, <1>f, <1>g, <2>1, <2>2
<1>8. ASSUME NEW o \in Operators, NEW r \in Requests, NEW verdict \in {"approved", "denied"},
             DecideRefused(o, r, verdict)
      PROVE  OneAtWork' /\ CallerAlone' /\ DeciderAlone' /\ PaidOnce' /\ DecisionStep
  <2>1. used.overlaps = 0 /\ \A u \in Threads : Idle(u)
    BY <1>0, <1>8, BeginIs DEF DecideRefused, Threads
  <2>2. /\ loc' = loc /\ paid' = paid /\ pc' = pc /\ pc' = [pc EXCEPT ![o] = "idle"]
        /\ status' = IF Lapsed(r) THEN [status EXCEPT ![r] = "expired"] ELSE status
    BY <1>0, <1>8 DEF DecideRefused, Idle, TypeOK
  <2>3. OneAtWork' /\ CallerAlone' /\ DeciderAlone'
    BY <1>0, <1>a, <2>1, <2>2, OperatorGoes
  <2> QED BY <1>a, <1>e, <2>1, <2>2, <2>3
<1>9. ASSUME NEW o \in Operators, NEW r \in Requests, NEW verdict \in {"approved", "denied"},
             DecideChecked(o, r, verdict)
      PROVE  OneAtWork' /\ CallerAlone' /\ DeciderAlone' /\ PaidOnce' /\ DecisionStep
  <2>1. used.overlaps = 0 /\ \A u \in Threads : Idle(u)
    BY <1>0, <1>9, BeginIs DEF DecideChecked, Threads
  <2>2. /\ loc' = loc /\ paid' = paid /\ status' = status
        /\ pc' = [pc EXCEPT ![o] = "decide"]
        /\ status[r] = "pending" /\ dec'[o].req = r
    BY <1>0, <1>9 DEF DecideChecked, Goto, TypeOK
  <2>3. OneAtWork' /\ CallerAlone' /\ DeciderAlone'
    BY <1>0, <1>a, <2>1, <2>2, OperatorGoes
  <2> QED BY <1>a, <1>f, <1>g, <2>1, <2>2, <2>3
<1>10. ASSUME NEW o \in Operators, DecideSet(o)
      PROVE  OneAtWork' /\ CallerAlone' /\ DeciderAlone' /\ PaidOnce' /\ DecisionStep
  <2>1. /\ used.overlaps = 0 /\ pc[o] = "decide" /\ loc' = loc /\ paid' = paid
        /\ pc' = [pc EXCEPT ![o] = "record"]
        /\ status' = [status EXCEPT ![dec[o].req] = dec[o].verdict]
    BY <1>10 DEF DecideSet, Goto
  <2>2. /\ dec[o].req \in Requests /\ status[dec[o].req] = "pending"
        /\ dec[o].verdict \in {"approved", "denied"}
    BY <1>0, <1>a, <2>1 DEF DeciderInv, DeciderAlone, TypeOK
  <2>3. OneAtWork' /\ CallerAlone' /\ DeciderAlone'
    BY <1>0, <1>a, <2>1, OperatorGoes DEF Idle
  <2>4. PaidOnce' /\ DecisionStep
    BY <1>a, <1>c, <2>1, <2>2 DEF PaidOnce, DecisionStep
  <2> QED BY <2>3, <2>4
<1>11. ASSUME NEW o \in Operators, DecideReceipt(o)
      PROVE  OneAtWork' /\ CallerAlone' /\ DeciderAlone' /\ PaidOnce' /\ DecisionStep
  <2>1. /\ used.overlaps = 0 /\ pc[o] = "record" /\ loc' = loc /\ paid' = paid
        /\ status' = status /\ pc' = [pc EXCEPT ![o] = "idle"]
    BY <1>11, <1>d DEF DecideReceipt, Goto
  <2>2. OneAtWork' /\ CallerAlone' /\ DeciderAlone'
    BY <1>0, <1>a, <2>1, OperatorGoes DEF Idle
  <2> QED BY <1>a, <1>f, <1>g, <2>1, <2>2
<1>12. CASE UNCHANGED vars \/ \E r \in Requests : Lapse(r)
  <2>1. UNCHANGED <<status, pc, loc, dec, paid, used>>
    BY <1>12 DEF vars, Lapse
  <2>2. (OneAtWork <=> OneAtWork') /\ (CallerAlone <=> CallerAlone') /\ (DeciderAlone <=> DeciderAlone')
    BY <2>1 DEF OneAtWork, CallerAlone, DeciderAlone, Idle
  <2> QED BY <1>a, <1>f, <1>g, <2>1, <2>2
<1>13. CASE Restart
  <2>1. /\ used.overlaps = 0 /\ paid' = paid
        /\ status' = [r \in Requests |-> IF status[r] = "new" THEN "new" ELSE "lost"]
        /\ \A u \in Threads : pc'[u] = "idle"
        /\ \A t \in Callers : ~loc'[t].consumed
    BY <1>0, <1>13 DEF Restart, Counts, Threads, NoCall
  <2>2. OneAtWork' /\ CallerAlone' /\ DeciderAlone'
    BY <2>1 DEF OneAtWork, CallerAlone, DeciderAlone, Threads, Idle
  <2>3. PaidOnce' /\ DecisionStep
    BY <1>a, <1>c, <2>1 DEF PaidOnce, DecisionStep
  <2> QED BY <2>2, <2>3
<1> QED
  BY <1>1, <1>2, <1>3, <1>4, <1>5, <1>6, <1>7, <1>8, <1>9, <1>10, <1>11, <1>12, <1>13 DEF Next

(* Where the operators are done, and nothing failed, the grant behind every
   allowed call has its receipt, also when the call overtook it; and until a
   call or decision begins beside another, no approval pays twice and no
   decision is undone. *)
THEOREM ApprovalsStandInTurn == Spec => ApprovalsStand
<1> DEFINE Inv == ApprovalInv /\ RecordInv /\ SerialInv
<1>1. Init => Inv
  BY InitEstablishes, InitRecordSerial
<1>2. Inv /\ [Next]_vars => Inv'
  BY StepPreserves, RecordPreserves, SerialPreserves DEF SerialInv
<1>3. ASSUME Inv, Inv', [Next]_vars
      PROVE  GrantReceipted' /\ (used'.overlaps = 0 => SingleShot' /\ DecisionStep)
  <2>1. GrantReceipted'
    BY <1>3 DEF ApprovalInv, AllowedOnApproval, RecordInv, Recording, GrantReceipted, Idle
  <2>2. ASSUME used'.overlaps = 0 PROVE SingleShot' /\ DecisionStep
    <3>1. PaidOnce' /\ DecisionStep
      BY <1>3, <2>2, SerialPreserves
    <3> QED BY <3>1 DEF PaidOnce, SingleShot
  <2> QED BY <2>1, <2>2
<1> HIDE DEF Inv
<1> QED BY <1>1, <1>2, <1>3, PTL DEF Spec, ApprovalsStand
=============================================================================
