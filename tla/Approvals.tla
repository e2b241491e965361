----------------------------- MODULE Approvals -----------------------------
(***************************************************************************)
(* Human approval of escalated tool calls: ApprovalManager                 *)
(* (raucle/approvals.py) as the gate uses it (gateway.py, from the verdict *)
(* of the capability gate in _decide_and_finish to the receipt) and as the *)
(* operators use it (decide_approval).                                     *)
(*                                                                         *)
(* Both endpoints are plain functions and run in parallel threads of one   *)
(* process.  The manager has no lock: consume and decide look at the       *)
(* status of a request and set it in a later statement.  Requests live in  *)
(* memory and are gone after a restart; the receipts stay.                 *)
(***************************************************************************)
EXTENDS Integers, FiniteSets

CONSTANTS
    Callers,       \* gate threads: calls in progress at once
    Operators,     \* operator threads: decisions in progress at once
    Calls,         \* a call: its tool, agent and arguments
    Requests,      \* approval request ids (bound: escalations)
    None,          \* no approval reference
    MaxActive,     \* bound: threads in the middle of a call or a decision
    MaxCalls,      \* bound: calls
    MaxDecisions,  \* bound: decisions
    MaxFaults,     \* bound: receipts that cannot be written
    MaxCrashes     \* bound: restarts

ASSUME ApprovalsAssumption ==
    /\ None \notin Requests
    /\ Calls # {}
    /\ Callers \cap Operators = {}
    /\ {MaxActive, MaxCalls, MaxDecisions, MaxFaults, MaxCrashes} \subseteq Nat

VARIABLES
    status,    \* status[r]: as in ApprovalRequest; "new" before it, "lost" after a restart
    bound,     \* bound[r]: the call r was made for
    late,      \* requests past expires_at
    pc,        \* pc[t]: next step of a thread
    loc,       \* loc[t]: what a gate thread holds
    dec,       \* dec[o]: the request and verdict an operator thread holds
    chain,     \* receipts of the workflow: <<verdict, request>>
    paid,      \* history: paid[r], calls allowed on approval r
    granted,   \* history: requests an operator was let through to approve
    allowed,   \* history: <<call, needed approval, reference>> of allow answers
    used       \* how much of each bound has been used; overlaps is 1 once a call
               \* or decision began while another was in progress

vars == <<status, bound, late, pc, loc, dec, chain, paid, granted, allowed, used>>

Statuses == {"new", "pending", "approved", "denied", "consumed", "expired", "lost"}

CallSteps == {"idle", "check", "consume", "apply", "receipt", "refused"}

DecideSteps == {"idle", "decide", "record"}

Idle(t) == pc[t] = "idle"

Goto(t, step) == pc' = [pc EXCEPT ![t] = step]

(* How many threads may be at work at once: 1 in the serial runs. *)
Room == Cardinality({t \in Callers \cup Operators : ~Idle(t)}) < MaxActive

(* The locals of a thread that has no call. *)
NoCall == [call |-> CHOOSE c \in Calls : TRUE, ref |-> None, ok |-> FALSE,
           needs |-> FALSE, consumed |-> FALSE, decision |-> "deny"]

NoDecision == [req |-> None, verdict |-> "denied"]

(* A call or a decision begins. *)
Begin(kind) ==
    used' = [used EXCEPT ![kind] = @ + 1,
                         !.overlaps = IF \A t \in Callers \cup Operators : Idle(t) THEN @ ELSE 1]

Fault ==
    /\ used.faults < MaxFaults
    /\ used' = [used EXCEPT !.faults = @ + 1]

Init ==
    /\ status = [r \in Requests |-> "new"]
    /\ bound = [r \in Requests |-> CHOOSE c \in Calls : TRUE]
    /\ late = {}
    /\ pc = [t \in Callers \cup Operators |-> "idle"]
    /\ loc = [t \in Callers |-> NoCall]
    /\ dec = [o \in Operators |-> NoDecision]
    /\ chain = {}
    /\ paid = [r \in Requests |-> 0]
    /\ granted = {}
    /\ allowed = {}
    /\ used = [calls |-> 0, decisions |-> 0, faults |-> 0, crashes |-> 0, overlaps |-> 0]

----------------------------------------------------------------------------
(* A call at the gate, from the verdict of the capability gate on. *)

(* ok: the gate allows the call; needs: its rule asks for approval. *)
Call(t, c, ref, ok, needs) ==
    /\ Idle(t) /\ Room
    /\ used.calls < MaxCalls
    /\ Begin("calls")
    /\ loc' = [loc EXCEPT ![t] = [call |-> c, ref |-> ref, ok |-> ok, needs |-> needs,
                                  consumed |-> FALSE, decision |-> "deny"]]
    /\ Goto(t, IF ref = None THEN "apply" ELSE "check")
    /\ UNCHANGED <<status, bound, late, dec, chain, paid, granted, allowed>>

(* _get: unknown ids raise, a pending request past its time is expired. *)
Unknown(r) == status[r] \in {"new", "lost"}

Lapsed(r) == status[r] = "pending" /\ r \in late

Binds_AnyArguments(r, c) == TRUE   \* wrong: the arguments are not compared

(* consume: same tool, same agent, same hash of the arguments. *)
Binds(r, c) == bound[r] = c

(* consume: the reference is refused, and the call with it. *)
ConsumeRefused(t) ==
    LET r == loc[t].ref IN
    /\ pc[t] = "check"
    /\ Unknown(r) \/ status[r] # "approved" \/ ~Binds(r, loc[t].call)
    /\ status' = IF Lapsed(r) THEN [status EXCEPT ![r] = "expired"] ELSE status
    /\ Goto(t, "refused")
    /\ UNCHANGED <<bound, late, loc, dec, chain, paid, granted, allowed, used>>

(* consume: the checks pass. *)
ConsumeChecked(t) ==
    LET r == loc[t].ref IN
    /\ pc[t] = "check"
    /\ status[r] = "approved"
    /\ Binds(r, loc[t].call)
    /\ Goto(t, "consume")
    /\ UNCHANGED <<status, bound, late, loc, dec, chain, paid, granted, allowed, used>>

ConsumeSet_Kept(t) ==   \* wrong: the request is left approved
    /\ pc[t] = "consume"
    /\ loc' = [loc EXCEPT ![t].consumed = TRUE]
    /\ Goto(t, "apply")
    /\ UNCHANGED <<status, bound, late, dec, chain, paid, granted, allowed, used>>

(* consume: the request is marked. *)
ConsumeSet(t) ==
    /\ pc[t] = "consume"
    /\ status' = [status EXCEPT ![loc[t].ref] = "consumed"]
    /\ loc' = [loc EXCEPT ![t].consumed = TRUE]
    /\ Goto(t, "apply")
    /\ UNCHANGED <<bound, late, dec, chain, paid, granted, allowed, used>>

(* _apply_decision. *)
Decision(l) ==
    IF ~l.ok THEN "deny"
    ELSE IF l.needs /\ ~l.consumed THEN "escalate"
    ELSE "allow"

(* _apply_decision, and _open_approval_request for an escalation: the new
   request is pending, its own receipt is best effort. *)
Apply(t) ==
    LET d == Decision(loc[t]) IN
    /\ pc[t] = "apply"
    /\ loc' = [loc EXCEPT ![t].decision = d]
    /\ Goto(t, "receipt")
    /\ IF d = "escalate"
       THEN \E r \in Requests :
                /\ status[r] = "new"
                /\ status' = [status EXCEPT ![r] = "pending"]
                /\ bound' = [bound EXCEPT ![r] = loc[t].call]
                /\ \/ chain' = chain \cup {<<"approval_requested", r>>} /\ UNCHANGED used
                   \/ Fault /\ UNCHANGED chain
       ELSE UNCHANGED <<status, bound, chain, used>>
    /\ UNCHANGED <<late, dec, paid, granted, allowed>>

(* The decision is receipted and answered. *)
Receipt(t) ==
    LET l == loc[t] IN
    /\ pc[t] = "receipt"
    /\ IF l.decision = "allow"
       THEN /\ allowed' = allowed \cup {<<l.call, l.needs, l.ref>>}
            /\ paid' = IF l.consumed THEN [paid EXCEPT ![l.ref] = @ + 1] ELSE paid
       ELSE UNCHANGED <<allowed, paid>>
    /\ loc' = [loc EXCEPT ![t] = NoCall]
    /\ Goto(t, "idle")
    /\ UNCHANGED <<status, bound, late, dec, chain, granted, used>>

(* The receipt cannot be written: the decision is downgraded to deny. *)
ReceiptFails(t) ==
    /\ pc[t] = "receipt"
    /\ Fault
    /\ Goto(t, "refused")
    /\ UNCHANGED <<status, bound, late, loc, dec, chain, paid, granted, allowed>>

(* _deny_result: the answer is deny whether or not its receipt is written. *)
Deny(t) ==
    /\ pc[t] = "refused"
    /\ loc' = [loc EXCEPT ![t] = NoCall]
    /\ Goto(t, "idle")
    /\ UNCHANGED <<status, bound, late, dec, chain, paid, granted, allowed, used>>

----------------------------------------------------------------------------
(* decide_approval *)

(* decide: unknown (404), expired (410) and not pending (409) are refused. *)
DecideRefused(o, r, verdict) ==
    /\ Idle(o) /\ Room
    /\ used.decisions < MaxDecisions
    /\ Begin("decisions")
    /\ Unknown(r) \/ Lapsed(r) \/ status[r] # "pending"
    /\ status' = IF Lapsed(r) THEN [status EXCEPT ![r] = "expired"] ELSE status
    /\ UNCHANGED <<bound, late, pc, loc, dec, chain, paid, granted, allowed>>

DecideChecked_Any(o, r, verdict) ==   \* wrong: a decided request is decided again
    /\ Idle(o) /\ Room
    /\ used.decisions < MaxDecisions
    /\ Begin("decisions")
    /\ ~Unknown(r) /\ ~Lapsed(r)
    /\ dec' = [dec EXCEPT ![o] = [req |-> r, verdict |-> verdict]]
    /\ Goto(o, "decide")
    /\ UNCHANGED <<status, bound, late, loc, chain, paid, granted, allowed>>

(* decide: the request is pending. *)
DecideChecked(o, r, verdict) ==
    /\ Idle(o) /\ Room
    /\ used.decisions < MaxDecisions
    /\ Begin("decisions")
    /\ status[r] = "pending" /\ ~Lapsed(r)
    /\ dec' = [dec EXCEPT ![o] = [req |-> r, verdict |-> verdict]]
    /\ Goto(o, "decide")
    /\ UNCHANGED <<status, bound, late, loc, chain, paid, granted, allowed>>

(* decide: the status is set. *)
DecideSet(o) ==
    LET r == dec[o].req IN
    /\ pc[o] = "decide"
    /\ status' = [status EXCEPT ![r] = dec[o].verdict]
    /\ granted' = IF dec[o].verdict = "approved" THEN granted \cup {r} ELSE granted
    /\ Goto(o, "record")
    /\ UNCHANGED <<bound, late, loc, dec, chain, paid, allowed, used>>

DecideReceipt_Status(o) ==   \* wrong: the status by now is receipted, not the verdict
    /\ pc[o] = "record"
    /\ \/ chain' = chain \cup {<<status[dec[o].req], dec[o].req>>} /\ UNCHANGED used
       \/ Fault /\ UNCHANGED chain
    /\ dec' = [dec EXCEPT ![o] = NoDecision]
    /\ Goto(o, "idle")
    /\ UNCHANGED <<status, bound, late, loc, paid, granted, allowed>>

(* The decision is receipted; a receipt that fails is only logged. *)
DecideReceipt(o) ==
    /\ pc[o] = "record"
    /\ \/ chain' = chain \cup {<<dec[o].verdict, dec[o].req>>} /\ UNCHANGED used
       \/ Fault /\ UNCHANGED chain
    /\ dec' = [dec EXCEPT ![o] = NoDecision]
    /\ Goto(o, "idle")
    /\ UNCHANGED <<status, bound, late, loc, paid, granted, allowed>>

----------------------------------------------------------------------------

(* Time passes: a request reaches expires_at. *)
Lapse(r) ==
    /\ status[r] \notin {"new", "lost"}
    /\ r \notin late
    /\ late' = late \cup {r}
    /\ UNCHANGED <<status, bound, pc, loc, dec, chain, paid, granted, allowed, used>>

(* The process dies and a new ApprovalManager starts empty. *)
Restart ==
    /\ used.crashes < MaxCrashes
    /\ used' = [used EXCEPT !.crashes = @ + 1]
    /\ status' = [r \in Requests |-> IF status[r] = "new" THEN "new" ELSE "lost"]
    /\ pc' = [t \in Callers \cup Operators |-> "idle"]
    /\ loc' = [t \in Callers |-> NoCall]
    /\ dec' = [o \in Operators |-> NoDecision]
    /\ UNCHANGED <<bound, late, chain, paid, granted, allowed>>

Next ==
    \/ \E t \in Callers :
        \/ \E c \in Calls, ref \in Requests \cup {None}, ok, needs \in BOOLEAN :
               Call(t, c, ref, ok, needs)
        \/ ConsumeRefused(t) \/ ConsumeChecked(t) \/ ConsumeSet(t)
        \/ Apply(t) \/ Receipt(t) \/ ReceiptFails(t) \/ Deny(t)
    \/ \E o \in Operators :
        \/ \E r \in Requests, verdict \in {"approved", "denied"} :
               DecideRefused(o, r, verdict) \/ DecideChecked(o, r, verdict)
        \/ DecideSet(o) \/ DecideReceipt(o)
    \/ \E r \in Requests : Lapse(r)
    \/ Restart

Spec == Init /\ [][Next]_vars

----------------------------------------------------------------------------
(* Properties *)

TypeOK ==
    /\ status \in [Requests -> Statuses]
    /\ bound \in [Requests -> Calls]
    /\ late \subseteq Requests
    /\ pc \in [Callers \cup Operators -> CallSteps \cup DecideSteps]
    /\ \A t \in Callers : pc[t] \in CallSteps
    /\ \A o \in Operators : pc[o] \in DecideSteps
    /\ loc \in [Callers -> [call : Calls, ref : Requests \cup {None}, ok : BOOLEAN,
                            needs : BOOLEAN, consumed : BOOLEAN,
                            decision : {"allow", "deny", "escalate"}]]
    /\ dec \in [Operators -> [req : Requests \cup {None}, verdict : {"approved", "denied"}]]
    /\ paid \in [Requests -> Nat]
    /\ granted \subseteq Requests
    /\ used \in [calls : Nat, decisions : Nat, faults : Nat, crashes : Nat, overlaps : Nat]

(* Whatever the threads do, a call that needed approval is allowed only on
   the reference of a request made for this very tool, agent and arguments
   that an operator approved (consume and _apply_decision). *)
AllowedOnApproval ==
    \A a \in allowed : a[2] => /\ a[3] \in granted
                               /\ bound[a[3]] = a[1]

(* Where no receipt failed and no process died, the grant behind every
   allowed call is in the chain once the operators are done, also when the
   call overtook the receipt of the grant (decide_approval writes it after
   the status is set). *)
GrantReceipted ==
    used.faults = 0 /\ used.crashes = 0 /\ (\A o \in Operators : Idle(o)) =>
       \A a \in allowed : a[2] => <<"approved", a[3]>> \in chain

(* A step that undoes no decision: a request moves from pending to approved,
   denied or expired, and from approved to consumed, never back. *)
DecisionStep ==
    \A r \in Requests : status'[r] # status[r] =>
       \/ status'[r] = "lost"
       \/ <<status[r], status'[r]>> \in
             {<<"new", "pending">>, <<"pending", "approved">>, <<"pending", "denied">>,
              <<"pending", "expired">>, <<"approved", "consumed">>}

(* "Consumption is single-shot": no approval pays for two actions
   (approvals.py, consume). *)
SingleShot == \A r \in Requests : paid[r] <= 1

(* Once the operators are done the grant behind every allowed call is in the
   chain.  And as long as no call and no decision began while another was in
   progress, with failing receipts, lapses and restarts, no approval pays for
   two actions and no decision is undone (decide's test for pending, consume's
   test for approved, _get's expiry); threads that overlap break both. *)
ApprovalsStand ==
    [][/\ GrantReceipted'
       /\ used'.overlaps = 0 => SingleShot' /\ DecisionStep]_vars
=============================================================================
