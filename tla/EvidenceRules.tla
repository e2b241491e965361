--------------------------- MODULE EvidenceRules ---------------------------
(***************************************************************************)
(* The rules of the gate that look at recorded state: evidence quality     *)
(* (eqr.py), data flow along a task chain (policy.py, ChainTaintDeny) and  *)
(* approval thresholds, as check_tool_call applies them to a call of one   *)
(* tool under one policy rule (gateway.py).                                *)
(*                                                                         *)
(* The harness records evidence events and the taint of tool outputs while *)
(* calls are being decided; a call reads the chain state first and the     *)
(* evidence later.                                                         *)
(***************************************************************************)
EXTENDS Integers, FiniteSets, Sequences, TLAPS

CONSTANTS
    Callers,      \* gate threads
    Args,         \* arguments: the integer value of one field
    Permits,      \* the arguments the token permits
    Rules,        \* policy rules as written: [eqr, flow, approve], see Load
    Traces,       \* task chains; NoTrace among them
    NoTrace,      \* a call with no trace id
    Classes,      \* destination classes
    Unknown,      \* a malformed tag, class or operator
    Tags,         \* taint tags; Unknown among them
    Evidences,    \* evidence events: [at, class, confidence]
    None,         \* no such part in a rule
    MaxNow,       \* bound: the clock
    MaxRecords,   \* bound: recorded events
    MaxCalls      \* bound: calls

VARIABLES
    rule,         \* the rule in force
    now,          \* the clock
    evidence,     \* the recorded evidence of the rule's kind
    outputs,      \* outputs[x]: the tags recorded for task chain x
    call,         \* call[t]: what a gate thread holds, or None
    before,       \* history: before[t], the tags of its chain when the call came
    answers,      \* history: the answers given
    used          \* how much of each bound has been used

vars == <<rule, now, evidence, outputs, call, before, answers, used>>

----------------------------------------------------------------------------
(* A rule as written, and as loaded *)

(* SOURCE_CLASSES and source_rank: an unknown class ranks below all. *)
Ladder == <<"unverified", "self-attested", "third-party", "certified">>

SourceRank(class) ==
    IF \E i \in DOMAIN Ladder : Ladder[i] = class
    THEN CHOOSE i \in DOMAIN Ladder : Ladder[i] = class
    ELSE 0

(* _validate_reduced_constraints: a reduced scope, exactly where it is used. *)
ReducedLoads(e) == (e.onDegraded = "reduce") = (e.reduced # None)

(* EQR.from_dict *)
EqrLoads(e) ==
    /\ e.maxAge \in Nat \ {0}
    /\ SourceRank(e.minClass) > 0
    /\ e.floor \in 0..100
    /\ e.onDegraded \in {"deny", "reduce"}
    /\ ReducedLoads(e)

(* _validate_allow_destination_classes *)
AllowLoads(f) == f.allow # None => f.allow # {} /\ Unknown \notin f.allow

(* ChainTaintDeny.from_dict: tags, and denied classes or an allow-list. *)
FlowLoads(f) ==
    /\ f.tags # {} /\ Unknown \notin f.tags
    /\ Unknown \notin f.denied
    /\ AllowLoads(f)
    /\ f.denied # {} \/ f.allow # None

(* PolicyFile.from_dict: a rule with a part that does not load is refused. *)
Loads(r) == (r.eqr # None => EqrLoads(r.eqr)) /\ (r.flow # None => FlowLoads(r.flow))

(* Evidence.from_dict: what EvidenceStore.record accepts. *)
EvidenceLoads(e) == e.at \in Nat /\ e.class # "" /\ e.confidence \in 0..100

----------------------------------------------------------------------------
(* Evidence quality *)

Severity == [passing |-> 0, stale |-> 1, below_floor |-> 2, unknown |-> 3]

(* Evidence._evaluate *)
Evaluate(q, e, t) ==
    IF e.at > t THEN "unknown"
    ELSE IF t - e.at > q.maxAge THEN "stale"
    ELSE IF SourceRank(e.class) < SourceRank(q.minClass) THEN "below_floor"
    ELSE IF e.confidence < q.floor THEN "below_floor"
    ELSE "passing"

EvaluateEqr_Latest(q, es, t) ==   \* wrong: the newest record decides
    IF es = {} THEN "unknown"
    ELSE LET newest == CHOOSE e \in es : \A f \in es : f.at <= e.at IN Evaluate(q, newest, t)

(* evaluate_eqr: the worst record decides; no record is unknown. *)
EvaluateEqr(q, es, t) ==
    IF es = {} THEN "unknown"
    ELSE LET verdicts == {Evaluate(q, e, t) : e \in es}
         IN  CHOOSE v \in verdicts : \A w \in verdicts : Severity[w] <= Severity[v]

ApplyEqr_Replaced(q, es, t) ==   \* wrong: the reduced scope replaces the token's
    IF EvaluateEqr(q, es, t) = "passing" THEN Permits
    ELSE IF q.onDegraded = "deny" THEN {}
    ELSE q.reduced

(* narrowed_reduced_constraints: the token's constraints meet the reduced. *)
Narrowed(q) == Permits \cap q.reduced

(* apply_eqr_to_token: the arguments left. *)
ApplyEqr(q, es, t) ==
    IF EvaluateEqr(q, es, t) = "passing" THEN Permits
    ELSE IF q.onDegraded = "deny" THEN {}
    ELSE Narrowed(q)

(* _evaluate_eqr_rule, _check_eqr_narrowed *)
Passes(r, es, t) == IF r.eqr = None THEN Permits ELSE ApplyEqr(r.eqr, es, t)

----------------------------------------------------------------------------
(* Data flow *)

(* _evaluate_dataflow_rule and evaluate_chain_taint_deny. *)
FlowDenies(f, trace, tags, class) ==
    /\ f # None
    /\ \/ trace = NoTrace
       \/ Unknown \in tags
       \/ /\ tags \cap f.tags # {}
          /\ \/ class = Unknown
             \/ IF f.allow # None THEN class \notin f.allow ELSE class \in f.denied

(* ApprovalThreshold.from_dict: a key with no known operator is passed over. *)
Thresholds(r) == {t \in r.approve : t.op \in {"gt", "gte", "lt", "lte", "eq"}}

(* ApprovalThreshold.matches *)
Meets(t, arg) ==
    CASE t.op = "gt"  -> arg > t.value
      [] t.op = "gte" -> arg >= t.value
      [] t.op = "lt"  -> arg < t.value
      [] t.op = "lte" -> arg <= t.value
      [] t.op = "eq"  -> arg = t.value

(* check_approval_needed *)
NeedsApproval(r, arg) == \E t \in Thresholds(r) : Meets(t, arg)

----------------------------------------------------------------------------
(* Calls and events *)

Uses(b, max) == used[b] < max /\ used' = [used EXCEPT ![b] = @ + 1]

(* check_tool_call: the chain state is read. *)
Call(t, trace, class, arg) ==
    /\ call[t] = None
    /\ Uses("calls", MaxCalls)
    /\ call' = [call EXCEPT ![t] = [trace |-> trace, class |-> class, arg |-> arg, step |-> "flow",
                                    denied |-> FALSE]]
    /\ before' = [before EXCEPT ![t] = IF trace = NoTrace THEN {} ELSE outputs[trace]]
    /\ UNCHANGED <<rule, now, evidence, outputs, answers>>

CheckFlow_Late(t) ==   \* wrong: the chain state is not replayed
    LET c == call[t] IN
    /\ c # None /\ c.step = "flow"
    /\ call' = [call EXCEPT ![t].step = "evidence",
                            ![t].denied = FlowDenies(rule.flow, c.trace, {}, c.class)]
    /\ UNCHANGED <<rule, now, evidence, outputs, before, answers, used>>

CheckFlow(t) ==
    LET c == call[t]
        tags == IF c.trace = NoTrace THEN {} ELSE outputs[c.trace]
    IN
    /\ c # None /\ c.step = "flow"
    /\ call' = [call EXCEPT ![t].step = "evidence",
                            ![t].denied = FlowDenies(rule.flow, c.trace, tags, c.class)]
    /\ UNCHANGED <<rule, now, evidence, outputs, before, answers, used>>

(* _decide_and_finish: the evidence is read, then _apply_decision. *)
Finish(t) ==
    LET c == call[t]
        ok == ~c.denied /\ c.arg \in Passes(rule, evidence, now)
    IN
    /\ c # None /\ c.step = "evidence"
    /\ answers' = answers \cup {[trace |-> c.trace, class |-> c.class, arg |-> c.arg,
                                 before |-> before[t], left |-> Passes(rule, evidence, now),
                                 verdict |-> IF ~ok THEN "deny"
                                             ELSE IF NeedsApproval(rule, c.arg) THEN "escalate"
                                             ELSE "allow"]}
    /\ call' = [call EXCEPT ![t] = None]
    /\ before' = [before EXCEPT ![t] = {}]
    /\ UNCHANGED <<rule, now, evidence, outputs, used>>

(* EvidenceStore.record *)
RecordEvidence(e) ==
    /\ Uses("records", MaxRecords)
    /\ EvidenceLoads(e)
    /\ evidence' = evidence \cup {e}
    /\ UNCHANGED <<rule, now, outputs, call, before, answers>>

(* EvidenceStore.clear: the explicit refresh. *)
ClearEvidence ==
    /\ evidence' = {}
    /\ UNCHANGED <<rule, now, outputs, call, before, answers, used>>

(* ChainTaintState.record *)
RecordOutput(x, tags) ==
    /\ Uses("records", MaxRecords)
    /\ outputs' = [outputs EXCEPT ![x] = @ \cup tags]
    /\ UNCHANGED <<rule, now, evidence, call, before, answers>>

(* ChainTaintState.clear *)
ClearChain(x) ==
    /\ outputs[x] # {}
    /\ outputs' = [outputs EXCEPT ![x] = {}]
    /\ before' = [t \in Callers |-> IF call[t] # None /\ call[t].trace = x THEN {} ELSE before[t]]
    /\ UNCHANGED <<rule, now, evidence, call, answers, used>>

Tick ==
    /\ now < MaxNow
    /\ now' = now + 1
    /\ UNCHANGED <<rule, evidence, outputs, call, before, answers, used>>

Init ==
    /\ rule \in {r \in Rules : Loads(r)}
    /\ now = 1
    /\ evidence = {}
    /\ outputs = [x \in Traces \ {NoTrace} |-> {}]
    /\ call = [t \in Callers |-> None]
    /\ before = [t \in Callers |-> {}]
    /\ answers = {}
    /\ used = [calls |-> 0, records |-> 0]

Next ==
    \/ \E t \in Callers :
        \/ \E x \in Traces, d \in Classes \cup {Unknown}, a \in Args : Call(t, x, d, a)
        \/ CheckFlow(t) \/ Finish(t)
    \/ \E e \in Evidences : RecordEvidence(e)
    \/ \E x \in DOMAIN outputs : ClearChain(x) \/ \E g \in Tags : RecordOutput(x, {g})
    \/ ClearEvidence \/ Tick

Spec == Init /\ [][Next]_vars

----------------------------------------------------------------------------
(* Properties *)

(* Once there is evidence, and none of it is dated in the future, nothing but
   the explicit refresh widens what the gate lets through: no later event,
   however good, and no passing of time (evaluate_eqr, apply_eqr_to_token).
   Evidence dated in the future narrows until its time comes, and then lets
   go. *)
NarrowsUntilRefresh ==
    evidence # {} /\ evidence' # {} /\ (\A e \in evidence : e.at <= now) =>
        Passes(rule, evidence', now') \subseteq Passes(rule, evidence, now)

(* No call is let through, not even to an approver, to a destination its rule
   closes to a taint that was in its chain when it came, and every answer is
   within the token and what the evidence left of it: whatever is recorded
   while the call is decided. *)
FlowHolds ==
    \A a \in answers : a.verdict # "deny" =>
       /\ ~FlowDenies(rule.flow, a.trace, a.before, a.class)
       /\ a.arg \in Permits \cap a.left

----------------------------------------------------------------------------
(* Proofs *)

(* Evidence passes when there is some and every record of it does. *)
LEMMA PassingIs ==
  ASSUME NEW q, NEW es, NEW t
  PROVE  EvaluateEqr(q, es, t) = "passing" <=> es # {} /\ \A e \in es : Evaluate(q, e, t) = "passing"
<1> DEFINE verdicts == {Evaluate(q, e, t) : e \in es}
<1>1. CASE es = {}
  BY <1>1 DEF EvaluateEqr
<1>2. CASE es # {}
  <2> DEFINE W(v) == \A w \in verdicts : Severity[w] <= Severity[v]
             worst == CHOOSE v \in verdicts : W(v)
  <2>1. verdicts # {} /\ verdicts \subseteq {"passing", "stale", "below_floor", "unknown"}
    BY <1>2 DEF Evaluate
  <2>2. EvaluateEqr(q, es, t) = worst
    BY <1>2 DEF EvaluateEqr
  <2> HIDE DEF verdicts
  <2>3. \E v \in verdicts : W(v)
    <3>1. CASE "unknown" \in verdicts
      BY <2>1, <3>1 DEF Severity
    <3>2. CASE "unknown" \notin verdicts /\ "below_floor" \in verdicts
      BY <2>1, <3>2 DEF Severity
    <3>3. CASE verdicts \cap {"unknown", "below_floor"} = {} /\ "stale" \in verdicts
      BY <2>1, <3>3 DEF Severity
    <3>4. CASE verdicts = {"passing"}
      BY <3>4 DEF Severity
    <3> QED BY <2>1, <3>1, <3>2, <3>3, <3>4
  <2>4. worst \in verdicts /\ W(worst)
    <3> HIDE DEF W
    <3> QED BY <2>3
  <2> HIDE DEF worst
  <2>5. worst = "passing" => verdicts = {"passing"}
    <3>1. \A w \in {"stale", "below_floor", "unknown"} : ~(Severity[w] <= Severity["passing"])
      BY DEF Severity
    <3>2. \A w \in verdicts : Severity[w] <= Severity[worst]
      BY <2>4
    <3> QED BY <2>1, <2>4, <3>1, <3>2
  <2>6. verdicts = {"passing"} => worst = "passing"
    BY <2>4
  <2>7. verdicts = {"passing"} <=> \A e \in es : Evaluate(q, e, t) = "passing"
    BY <1>2 DEF verdicts
  <2> QED BY <1>2, <2>2, <2>5, <2>6, <2>7
<1> QED BY <1>1, <1>2

(* Evidence that passes later, or with more beside it, passes now, unless it is
   dated in the future. *)
LEMMA PassingBefore ==
  ASSUME NEW q, EqrLoads(q), NEW t \in Nat, NEW u \in Nat, t <= u,
         NEW es, NEW fs, es # {}, es \subseteq fs, \A e \in es : e.at \in Nat /\ e.at <= t,
         EvaluateEqr(q, fs, u) = "passing"
  PROVE  EvaluateEqr(q, es, t) = "passing"
<1>1. ASSUME NEW e \in es PROVE Evaluate(q, e, t) = "passing"
  <2>1. Evaluate(q, e, u) = "passing"
    BY PassingIs
  <2>2. e.at \in Nat /\ e.at <= t /\ q.maxAge \in Nat
    BY DEF EqrLoads
  <2>3. ~(u - e.at > q.maxAge) /\ ~(SourceRank(e.class) < SourceRank(q.minClass)) /\ ~(e.confidence < q.floor)
    BY <2>1 DEF Evaluate
  <2>4. ~(e.at > t) /\ ~(t - e.at > q.maxAge)
    BY <2>2, <2>3
  <2> QED BY <2>3, <2>4 DEF Evaluate
<1> QED BY <1>1, PassingIs

(* A taint that closes no destination closes none with fewer tags. *)
LEMMA FewerTags ==
  ASSUME NEW f, NEW trace, NEW tags, NEW fewer, NEW class, fewer \subseteq tags,
         FlowDenies(f, trace, fewer, class)
  PROVE  FlowDenies(f, trace, tags, class)
BY DEF FlowDenies

(* The tags recorded for a chain. *)
ChainTags(x) == IF x = NoTrace THEN {} ELSE outputs[x]

(* The evidence and the rule are as they load. *)
LoadedInv ==
    /\ Loads(rule)
    /\ now \in Nat
    /\ \A e \in evidence : e.at \in Nat
    /\ DOMAIN outputs = Traces \ {NoTrace}
    /\ DOMAIN call = Callers /\ DOMAIN before = Callers

(* A call under way: the tags it came with are still recorded, and past the
   check of its flow none of them closes its destination. *)
CallInv ==
    \A t \in Callers : call[t] # None =>
        LET c == call[t] IN
        /\ c.trace \in Traces
        /\ c.step \in {"flow", "evidence"}
        /\ before[t] \subseteq ChainTags(c.trace)
        /\ c.step = "evidence" /\ ~c.denied => ~FlowDenies(rule.flow, c.trace, before[t], c.class)

EvidenceInv == LoadedInv /\ CallInv /\ FlowHolds

(* The steps. *)
LEMMA InitEvidence == Init => EvidenceInv
BY DEF Init, EvidenceInv, LoadedInv, CallInv, FlowHolds

LEMMA NextLoaded == LoadedInv /\ [Next]_vars => LoadedInv' /\ rule' = rule
<1> SUFFICES ASSUME LoadedInv, [Next]_vars PROVE LoadedInv' /\ rule' = rule
  OBVIOUS
<1>1. ASSUME NEW t \in Callers, NEW x \in Traces, NEW d \in Classes \cup {Unknown}, NEW a \in Args, Call(t, x, d, a)
      PROVE  LoadedInv' /\ rule' = rule
  BY <1>1 DEF Call, LoadedInv
<1>2. ASSUME NEW t \in Callers, CheckFlow(t) PROVE LoadedInv' /\ rule' = rule
  BY <1>2 DEF CheckFlow, LoadedInv
<1>3. ASSUME NEW t \in Callers, Finish(t) PROVE LoadedInv' /\ rule' = rule
  BY <1>3 DEF Finish, LoadedInv
<1>4. ASSUME NEW e \in Evidences, RecordEvidence(e) PROVE LoadedInv' /\ rule' = rule
  BY <1>4 DEF RecordEvidence, EvidenceLoads, LoadedInv
<1>5. ASSUME NEW x \in DOMAIN outputs, ClearChain(x) PROVE LoadedInv' /\ rule' = rule
  BY <1>5 DEF ClearChain, LoadedInv
<1>6. ASSUME NEW x \in DOMAIN outputs, NEW g \in Tags, RecordOutput(x, {g}) PROVE LoadedInv' /\ rule' = rule
  BY <1>6 DEF RecordOutput, LoadedInv
<1>7. CASE ClearEvidence \/ Tick
  BY <1>7 DEF ClearEvidence, Tick, LoadedInv
<1>8. CASE UNCHANGED vars
  BY <1>8 DEF vars, LoadedInv
<1> QED BY <1>1, <1>2, <1>3, <1>4, <1>5, <1>6, <1>7, <1>8 DEF Next

LEMMA NextCalls == EvidenceInv /\ [Next]_vars => CallInv' /\ FlowHolds'
<1> SUFFICES ASSUME EvidenceInv, [Next]_vars PROVE CallInv' /\ FlowHolds'
  OBVIOUS
<1>0. LoadedInv /\ CallInv /\ FlowHolds /\ rule' = rule
  BY NextLoaded DEF EvidenceInv
<1>1. ASSUME NEW t \in Callers, NEW x \in Traces, NEW d \in Classes \cup {Unknown}, NEW a \in Args, Call(t, x, d, a)
      PROVE  CallInv' /\ FlowHolds'
  BY <1>0, <1>1 DEF Call, LoadedInv, CallInv, FlowHolds, ChainTags
<1>2. ASSUME NEW t \in Callers, CheckFlow(t) PROVE CallInv' /\ FlowHolds'
  <2> DEFINE c == call[t]
             tags == ChainTags(c.trace)
  <2>1. /\ c # None /\ c.trace \in Traces /\ before[t] \subseteq tags
        /\ call' = [call EXCEPT ![t].step = "evidence",
                                ![t].denied = FlowDenies(rule.flow, c.trace, tags, c.class)]
        /\ UNCHANGED <<outputs, before, answers>>
    BY <1>0, <1>2 DEF CheckFlow, CallInv, ChainTags
  <2>2. /\ call'[t].trace = c.trace /\ call'[t].class = c.class /\ call'[t].step = "evidence"
        /\ call'[t].denied = FlowDenies(rule.flow, c.trace, tags, c.class)
    BY <1>0, <2>1 DEF LoadedInv
  <2>3. ~call'[t].denied => ~FlowDenies(rule.flow, c.trace, before[t], c.class)
    BY <2>1, <2>2, FewerTags
  <2>4. \A u \in Callers \ {t} : call'[u] = call[u]
    BY <1>0, <2>1 DEF LoadedInv
  <2>5. FlowHolds'
    BY <1>0, <2>1 DEF FlowHolds
  <2>6. CallInv'
    BY <1>0, <2>1, <2>2, <2>3, <2>4 DEF CallInv, ChainTags
  <2> QED BY <2>5, <2>6
<1>3. ASSUME NEW t \in Callers, Finish(t) PROVE CallInv' /\ FlowHolds'
  <2> DEFINE c == call[t]
             left == Passes(rule, evidence, now)
             ok == ~c.denied /\ c.arg \in left
             verdict == IF ~ok THEN "deny" ELSE IF NeedsApproval(rule, c.arg) THEN "escalate" ELSE "allow"
             answer == [trace |-> c.trace, class |-> c.class, arg |-> c.arg, before |-> before[t],
                        left |-> left, verdict |-> verdict]
  <2>1. /\ c # None /\ c.step = "evidence"
        /\ answers' = answers \cup {answer}
        /\ call' = [call EXCEPT ![t] = None] /\ before' = [before EXCEPT ![t] = {}]
        /\ outputs' = outputs
    BY <1>3 DEF Finish
  <2>2. left \subseteq Permits
    BY DEF Passes, ApplyEqr, Narrowed
  <2>3. ok => ~FlowDenies(rule.flow, c.trace, before[t], c.class)
    BY <1>0, <2>1 DEF CallInv
  <2>4. verdict # "deny" => ok
    OBVIOUS
  <2>5. answer.verdict # "deny" =>
           /\ ~FlowDenies(rule.flow, answer.trace, answer.before, answer.class)
           /\ answer.arg \in Permits \cap answer.left
    BY <2>2, <2>3, <2>4
  <2> HIDE DEF answer
  <2>6. FlowHolds'
    BY <1>0, <2>1, <2>5 DEF FlowHolds
  <2>7. call'[t] = None /\ \A u \in Callers \ {t} : call'[u] = call[u] /\ before'[u] = before[u]
    BY <1>0, <2>1 DEF LoadedInv
  <2>8. CallInv'
    BY <1>0, <2>1, <2>7 DEF CallInv, ChainTags
  <2> QED BY <2>6, <2>8
<1>4. CASE (\E e \in Evidences : RecordEvidence(e)) \/ ClearEvidence \/ Tick \/ UNCHANGED vars
  <2>1. UNCHANGED <<outputs, call, before, answers>>
    BY <1>4 DEF RecordEvidence, ClearEvidence, Tick, vars
  <2> QED BY <1>0, <2>1 DEF CallInv, FlowHolds, ChainTags
<1>5. ASSUME NEW x \in DOMAIN outputs, ClearChain(x) PROVE CallInv' /\ FlowHolds'
  <2>1. /\ outputs' = [outputs EXCEPT ![x] = {}]
        /\ before' = [t \in Callers |-> IF call[t] # None /\ call[t].trace = x THEN {} ELSE before[t]]
        /\ UNCHANGED <<call, answers>>
    BY <1>5 DEF ClearChain
  <2>2. FlowHolds'
    BY <1>0, <2>1 DEF FlowHolds
  <2>3. ASSUME NEW t \in Callers, call[t] # None
        PROVE  /\ before'[t] \subseteq ChainTags(call[t].trace)'
               /\ before'[t] \subseteq before[t]
    <3>1. CASE call[t].trace = x
      BY <2>1, <2>3, <3>1
    <3>2. CASE call[t].trace # x
      BY <1>0, <2>1, <2>3, <3>2 DEF CallInv, ChainTags, LoadedInv
    <3> QED BY <3>1, <3>2
  <2>4. CallInv'
    BY <1>0, <2>1, <2>3, FewerTags DEF CallInv
  <2> QED BY <2>2, <2>4
<1>6. ASSUME NEW x \in DOMAIN outputs, NEW g \in Tags, RecordOutput(x, {g}) PROVE CallInv' /\ FlowHolds'
  <2>1. outputs' = [outputs EXCEPT ![x] = @ \cup {g}] /\ UNCHANGED <<call, before, answers>>
    BY <1>6 DEF RecordOutput
  <2>2. \A y \in Traces : ChainTags(y) \subseteq ChainTags(y)'
    BY <1>0, <2>1 DEF ChainTags, LoadedInv
  <2>3. FlowHolds'
    BY <1>0, <2>1 DEF FlowHolds
  <2>4. CallInv'
    BY <1>0, <2>1, <2>2 DEF CallInv
  <2> QED BY <2>3, <2>4
<1> QED BY <1>1, <1>2, <1>3, <1>4, <1>5, <1>6 DEF Next

(* A step that is no refresh widens nothing. *)
LEMMA NextNarrows == LoadedInv /\ [Next]_vars => NarrowsUntilRefresh
<1> SUFFICES ASSUME LoadedInv, [Next]_vars, evidence # {}, evidence' # {},
                    \A e \in evidence : e.at <= now
             PROVE  Passes(rule, evidence', now') \subseteq Passes(rule, evidence, now)
  BY DEF NarrowsUntilRefresh
<1>1. /\ evidence \subseteq evidence'
      /\ now' \in Nat /\ now <= now'
  <2>1. \/ evidence' = evidence \/ evidence' = {}
        \/ \E e \in Evidences : evidence' = evidence \cup {e}
    BY DEF Next, Call, CheckFlow, Finish, RecordEvidence, ClearEvidence, RecordOutput, ClearChain, Tick, vars
  <2>2. now' = now \/ now' = now + 1
    BY DEF Next, Call, CheckFlow, Finish, RecordEvidence, ClearEvidence, RecordOutput, ClearChain, Tick, vars
  <2> QED BY <2>1, <2>2 DEF LoadedInv
<1>2. CASE rule.eqr = None
  BY <1>2 DEF Passes
<1>3. CASE rule.eqr # None
  <2>1. EqrLoads(rule.eqr) /\ now \in Nat
    BY <1>3 DEF LoadedInv, Loads
  <2>2. EvaluateEqr(rule.eqr, evidence', now') = "passing" => EvaluateEqr(rule.eqr, evidence, now) = "passing"
    BY <1>1, <2>1, PassingBefore DEF LoadedInv
  <2> QED BY <1>3, <2>2 DEF Passes, ApplyEqr, Narrowed
<1> QED BY <1>2, <1>3

(* For every rule that loads, however many calls and records come: nothing but
   the refresh widens what evidence has narrowed, and no call is let through to
   a destination its rule closes to a taint of its chain. *)
THEOREM EvidenceNarrows == Spec => [][NarrowsUntilRefresh /\ FlowHolds']_vars
<1>1. EvidenceInv /\ [Next]_vars => EvidenceInv'
  BY NextLoaded, NextCalls DEF EvidenceInv
<1>2. EvidenceInv /\ [Next]_vars => [NarrowsUntilRefresh /\ FlowHolds']_vars
  BY <1>1, NextNarrows DEF EvidenceInv
<1> QED BY InitEvidence, <1>1, <1>2, PTL DEF Spec
=============================================================================
