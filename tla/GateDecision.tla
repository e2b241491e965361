--------------------------- MODULE GateDecision ---------------------------
(***************************************************************************)
(* The decision of the gate on a call of one tool (gateway.py,             *)
(* check_tool_call), against the policy in memory, the capability token    *)
(* minted for the tool, the containment registries and the seal over the   *)
(* policy file (policy_bytes.py), while operators save, edit, reload and   *)
(* seal policies.                                                          *)
(*                                                                         *)
(* Calls and operator requests run in parallel threads without a lock.     *)
(* What a call may be told by state this module leaves out (delegated      *)
(* authority, admission, data flow, evidence quality) is an input of the   *)
(* step that asks; a call held for approval continues in Approvals and     *)
(* counts as allowed here.                                                 *)
(***************************************************************************)
EXTENDS Integers, Sequences, FiniteSets, SequencesExt

CONSTANTS
    Callers,       \* gate threads
    Operators,     \* threads of the policy endpoints
    Sources,       \* sources a caller may declare
    Blank,         \* no source declared
    Args,          \* arguments
    RuleIds,       \* policy rules of the tool
    Matches,       \* Matches[r]: the sources rule r matches
    Permits,       \* Permits[r]: the arguments its constraints permit
    Reduced,       \* Reduced[r]: the arguments its evidence rule leaves when reduced
    Policies,      \* policy files
    RulesOf,       \* RulesOf[p]: the rules of p, in order
    First,         \* the policy file at the start
    None,          \* no rule, no token, no seal
    MaxActive,     \* bound: threads in the middle of a request
    MaxCalls,      \* bound: calls
    MaxChanges,    \* bound: operator requests and edits
    MaxFaults,     \* bound: receipts that cannot be written
    MaxRestarts    \* bound: restarts of the gate

ASSUME GateAssumption ==
    /\ Callers \cap Operators = {} /\ IsFiniteSet(Callers \cup Operators)
    /\ Blank \in Sources
    /\ Args # {}
    /\ Matches \in [RuleIds -> SUBSET Sources]
    /\ Permits \in [RuleIds -> SUBSET Args]
    /\ Reduced \in [RuleIds -> SUBSET Args]
    /\ RulesOf \in [Policies -> Seq(RuleIds)]
    /\ First \in Policies
    /\ None \notin RuleIds \cup Policies
    /\ None \notin [rule : RuleIds, live : BOOLEAN]
    /\ {MaxActive, MaxCalls, MaxChanges, MaxFaults, MaxRestarts} \subseteq Nat

VARIABLES
    file,      \* the policy file
    seal,      \* the policy the seal file pins, or None
    sealed,    \* history: policies with a receipted seal
    rules,     \* _policy_rules[tool], in order
    token,     \* _tokens[tool]: the rule it was minted under and whether it is live, or None
    held,      \* the call's trace is quarantined or its lease suspended
    pc,        \* pc[t]: next step of a thread
    loc,       \* loc[t]: what a gate thread holds
    op,        \* op[o]: the policy an operator thread holds, its rules indexed so far
    loaded,    \* history: the policies whose rules are in the index
    inForce,   \* history: inForce[t], policies loaded at some time during t's call
    answers,   \* history: the allow answers
    used       \* how much of each bound has been used; overlaps is 1 once a request
               \* began while another was in progress

vars == <<file, seal, sealed, rules, token, held, pc, loc, op, loaded, inForce, answers,
          used>>

Threads == Callers \cup Operators

Idle(t) == pc[t] = "idle"

Room == Cardinality({t \in Threads : ~Idle(t)}) < MaxActive

Goto(t, step) == pc' = [pc EXCEPT ![t] = step]

Uses(bound, max) ==
    /\ used[bound] < max
    /\ used' = [used EXCEPT ![bound] = @ + 1]

(* A request begins. *)
Begin(t, bound, max) ==
    /\ Idle(t) /\ Room
    /\ used[bound] < max
    /\ used' = [used EXCEPT ![bound] = @ + 1,
                            !.overlaps = IF \A u \in Threads : Idle(u) THEN @ ELSE 1]

Token(r) == [rule |-> r, live |-> TRUE]

(* _index_rules: one token per tool, under the first rule. *)
TokenOf(rs) == IF rs = <<>> THEN None ELSE Token(rs[1])

NoCall == [src |-> Blank, arg |-> CHOOSE a \in Args : TRUE, held |-> FALSE,
           rule |-> None, token |-> None]

NoPolicy == [policy |-> None, n |-> 0]

(* _find_rule: the first rule that matches. *)
FirstMatch(rs, src) ==
    LET i == SelectInSeq(rs, LAMBDA r : src \in Matches[r])
    IN  IF i = 0 THEN None ELSE rs[i]

Init ==
    /\ file = First
    /\ seal \in {First, None}
    /\ sealed = {seal} \ {None}
    /\ rules = RulesOf[First]
    /\ token = TokenOf(RulesOf[First])
    /\ held = FALSE
    /\ pc = [t \in Threads |-> "idle"]
    /\ loc = [t \in Callers |-> NoCall]
    /\ op = [o \in Operators |-> NoPolicy]
    /\ loaded = {First}
    /\ inForce = [t \in Callers |-> {}]
    /\ answers = {}
    /\ used = [calls |-> 0, changes |-> 0, faults |-> 0, restarts |-> 0, overlaps |-> 0]

----------------------------------------------------------------------------
(* check_tool_call *)

Call(t, src, arg) ==
    /\ Begin(t, "calls", MaxCalls)
    /\ loc' = [loc EXCEPT ![t] = [NoCall EXCEPT !.src = src, !.arg = arg, !.held = held]]
    /\ inForce' = [inForce EXCEPT ![t] = loaded]
    /\ Goto(t, "contain")
    /\ UNCHANGED <<file, seal, sealed, rules, token, held, op, loaded, answers>>

(* _deny_result: the answer is deny whether or not its receipt is written. *)
Deny(t) ==
    /\ loc' = [loc EXCEPT ![t] = NoCall]
    /\ inForce' = [inForce EXCEPT ![t] = {}]
    /\ Goto(t, "idle")
    /\ UNCHANGED <<file, seal, sealed, rules, token, held, op, loaded, answers, used>>

On(t, next) ==
    /\ Goto(t, next)
    /\ UNCHANGED <<file, seal, sealed, rules, held, op, loaded, inForce, answers, used>>

CheckContained_Skipped(t) ==   \* wrong: the registries are not read
    /\ pc[t] = "contain"
    /\ On(t, "tamper")
    /\ UNCHANGED <<loc, token>>

(* _trace_quarantine_refusal, _lease_suspension_refusal. *)
CheckContained(t) ==
    /\ pc[t] = "contain"
    /\ \/ held /\ Deny(t)
       \/ ~held /\ On(t, "tamper") /\ UNCHANGED <<loc, token>>

(* verify: the bytes on disk against the seal. *)
Tampered == seal # None /\ seal # file

(* _policy_tampered_reason. *)
CheckTampered(t) ==
    /\ pc[t] = "tamper"
    /\ \/ Tampered /\ Deny(t)
       \/ ~Tampered /\ On(t, "lookup") /\ UNCHANGED <<loc, token>>

(* Refused by the delegated authority or by admission. *)
RefusedByAuthority(t) == pc[t] = "lookup" /\ Deny(t)

(* "tool not in self._policy_rules or tool not in self._tokens". *)
LookUp(t) ==
    /\ pc[t] = "lookup"
    /\ \/ (rules = <<>> \/ token = None) /\ Deny(t)
       \/ rules # <<>> /\ token # None /\ On(t, "match") /\ UNCHANGED <<loc, token>>

Match_LastWins(t) ==   \* wrong: the last rule that matches
    LET r == FirstMatch(Reverse(rules), loc[t].src) IN
    /\ pc[t] = "match"
    /\ \/ r = None /\ Deny(t)
       \/ /\ r # None
          /\ loc' = [loc EXCEPT ![t].rule = r]
          /\ On(t, "token")
          /\ UNCHANGED token

Match(t) ==
    LET r == FirstMatch(rules, loc[t].src) IN
    /\ pc[t] = "match"
    /\ \/ r = None /\ Deny(t)
       \/ /\ r # None
          /\ loc' = [loc EXCEPT ![t].rule = r]
          /\ On(t, "token")
          /\ UNCHANGED token

(* self._tokens[tool]: a reload since LookUp leaves no token, and the
   KeyError ends the call without an answer of the gate. *)
TakeToken(t) ==
    /\ pc[t] = "token"
    /\ \/ token = None /\ Deny(t)
       \/ /\ token # None
          /\ loc' = [loc EXCEPT ![t].token = token]
          /\ On(t, "fresh")
          /\ UNCHANGED token

(* _ensure_fresh_token: an expired token is minted again, under the rule
   that matched, and takes the place of the tool's token. *)
EnsureFresh(t) ==
    /\ pc[t] = "fresh"
    /\ IF loc[t].token.live
       THEN UNCHANGED <<loc, token>>
       ELSE /\ token' = Token(loc[t].rule)
            /\ loc' = [loc EXCEPT ![t].token = Token(loc[t].rule)]
    /\ On(t, "decide")

MintFails(t) == pc[t] = "fresh" /\ ~loc[t].token.live /\ Deny(t)

(* CapabilityGate.check, and the re-check under the narrowed token when the
   evidence the rule asks for is degraded. *)
GateAllows(l, narrowed) ==
    /\ l.token.live
    /\ l.arg \in Permits[l.token.rule]
    /\ narrowed => l.arg \in Reduced[l.rule]

(* The data-flow and evidence rules may refuse, whatever the token says. *)
RefusedByRule(t) == pc[t] = "decide" /\ Deny(t)

Decide(t) ==
    /\ pc[t] = "decide"
    /\ \E narrowed \in BOOLEAN :
        \/ ~GateAllows(loc[t], narrowed) /\ Deny(t)
        \/ GateAllows(loc[t], narrowed) /\ On(t, "receipt") /\ UNCHANGED <<loc, token>>

(* The receipt and the answer. *)
Receipt(t) ==
    LET l == loc[t] IN
    /\ pc[t] = "receipt"
    /\ answers' = answers \cup
         {[src |-> l.src, arg |-> l.arg, cited |-> l.rule, under |-> l.token.rule,
           held |-> l.held, inForce |-> inForce[t]]}
    /\ loc' = [loc EXCEPT ![t] = NoCall]
    /\ inForce' = [inForce EXCEPT ![t] = {}]
    /\ Goto(t, "idle")
    /\ UNCHANGED <<file, seal, sealed, rules, token, held, op, loaded, used>>

(* Without a receipt the decision is downgraded to deny. *)
ReceiptFails(t) ==
    /\ pc[t] = "receipt"
    /\ Uses("faults", MaxFaults)
    /\ loc' = [loc EXCEPT ![t] = NoCall]
    /\ inForce' = [inForce EXCEPT ![t] = {}]
    /\ Goto(t, "idle")
    /\ UNCHANGED <<file, seal, sealed, rules, token, held, op, loaded, answers>>

----------------------------------------------------------------------------
(* Policy changes *)

Callers_Unchanged == UNCHANGED <<held, loc, inForce, answers>>

(* PUT /api/policies writes the file and reloads it. *)
Save(o, p) ==
    /\ Begin(o, "changes", MaxChanges)
    /\ file' = p
    /\ Goto(o, "read")
    /\ UNCHANGED <<seal, sealed, rules, token, op, loaded>> /\ Callers_Unchanged

(* POST /api/policies/reload. *)
Reload(o) ==
    /\ Begin(o, "changes", MaxChanges)
    /\ Goto(o, "read")
    /\ UNCHANGED <<file, seal, sealed, rules, token, op, loaded>> /\ Callers_Unchanged

(* _load_rules. *)
ReadFile(o) ==
    /\ pc[o] = "read"
    /\ op' = [op EXCEPT ![o] = [policy |-> file, n |-> 0]]
    /\ Goto(o, "clear")
    /\ UNCHANGED <<file, seal, sealed, rules, token, loaded, used>> /\ Callers_Unchanged

ClearIndex_KeepsToken(o) ==   \* wrong: the map of tokens is not replaced
    /\ pc[o] = "clear"
    /\ rules' = <<>>
    /\ loaded' = {}
    /\ Goto(o, "fill")
    /\ UNCHANGED <<file, seal, sealed, token, op, used>> /\ Callers_Unchanged

(* _index_rules: both maps are replaced by empty ones, ... *)
ClearIndex(o) ==
    /\ pc[o] = "clear"
    /\ rules' = <<>>
    /\ token' = None
    /\ loaded' = {}
    /\ Goto(o, "fill")
    /\ UNCHANGED <<file, seal, sealed, op, used>> /\ Callers_Unchanged

Pending(o) == SubSeq(RulesOf[op[o].policy], op[o].n + 1, Len(RulesOf[op[o].policy]))

(* ... the rules are added one by one, to the map that is there now, ... *)
FillRule(o) ==
    /\ pc[o] = "fill"
    /\ Pending(o) # <<>>
    /\ rules' = Append(rules, Head(Pending(o)))
    /\ op' = [op EXCEPT ![o].n = @ + 1]
    /\ loaded' = loaded \cup {op[o].policy}
    /\ inForce' = [t \in Callers |-> IF Idle(t) THEN {} ELSE inForce[t] \cup {op[o].policy}]
    /\ UNCHANGED <<file, seal, sealed, token, held, pc, loc, answers, used>>

MintToken_Skipped(o) ==   \* wrong: no token is minted
    /\ pc[o] = "fill"
    /\ Pending(o) = <<>>
    /\ Goto(o, "idle")
    /\ op' = [op EXCEPT ![o] = NoPolicy]
    /\ UNCHANGED <<file, seal, sealed, rules, token, loaded, used>> /\ Callers_Unchanged

(* ... and the token is minted unless there is one by now. *)
MintToken(o) ==
    /\ pc[o] = "fill"
    /\ Pending(o) = <<>>
    /\ token' = IF token = None THEN TokenOf(RulesOf[op[o].policy]) ELSE token
    /\ Goto(o, "idle")
    /\ op' = [op EXCEPT ![o] = NoPolicy]
    /\ UNCHANGED <<file, seal, sealed, rules, loaded, used>> /\ Callers_Unchanged

(* An edit of the file that does not go through the gate. *)
Edit(p) ==
    /\ Uses("changes", MaxChanges)
    /\ file' = p
    /\ UNCHANGED <<seal, sealed, rules, token, pc, op, loaded>> /\ Callers_Unchanged

(* seal, and reactivate, which wants bytes that differ from the seal: the
   digest of the file is taken and receipted, ... *)
SealDigest(o) ==
    /\ Begin(o, "changes", MaxChanges)
    /\ op' = [op EXCEPT ![o] = [policy |-> file, n |-> 0]]
    /\ Goto(o, "seal")
    /\ UNCHANGED <<file, seal, sealed, rules, token, loaded>> /\ Callers_Unchanged

SealReceipt(o) ==
    /\ pc[o] = "seal"
    /\ sealed' = sealed \cup {op[o].policy}
    /\ Goto(o, "persist")
    /\ UNCHANGED <<file, seal, rules, token, op, loaded, used>> /\ Callers_Unchanged

(* ... refused when the receipt fails, ... *)
SealRefused(o) ==
    /\ pc[o] = "seal"
    /\ Uses("faults", MaxFaults)
    /\ op' = [op EXCEPT ![o] = NoPolicy]
    /\ Goto(o, "idle")
    /\ UNCHANGED <<file, seal, sealed, rules, token, loaded>> /\ Callers_Unchanged

SealPersist_Rehashed(o) ==   \* wrong: the file is hashed again when the seal is written
    /\ pc[o] = "persist"
    /\ seal' = file
    /\ op' = [op EXCEPT ![o] = NoPolicy]
    /\ Goto(o, "idle")
    /\ UNCHANGED <<file, sealed, rules, token, loaded, used>> /\ Callers_Unchanged

(* ... and persisted. *)
SealPersist(o) ==
    /\ pc[o] = "persist"
    /\ seal' = op[o].policy
    /\ op' = [op EXCEPT ![o] = NoPolicy]
    /\ Goto(o, "idle")
    /\ UNCHANGED <<file, sealed, rules, token, loaded, used>> /\ Callers_Unchanged

----------------------------------------------------------------------------

(* A containment command quarantines the trace or suspends the lease. *)
Hold ==
    /\ ~held
    /\ held' = TRUE
    /\ UNCHANGED <<file, seal, sealed, rules, token, pc, loc, op, loaded, inForce, answers, used>>

(* The hold is lifted: from now on no call in progress started under it. *)
Release ==
    /\ held
    /\ held' = FALSE
    /\ loc' = [t \in Callers |-> [loc[t] EXCEPT !.held = FALSE]]
    /\ UNCHANGED <<file, seal, sealed, rules, token, pc, op, loaded, inForce, answers, used>>

(* ttl_seconds pass: the tokens minted so far expire. *)
Expire ==
    LET old(tk) == IF tk = None THEN None ELSE [tk EXCEPT !.live = FALSE] IN
    /\ token # None
    /\ token.live
    /\ token' = old(token)
    /\ loc' = [t \in Callers |-> [loc[t] EXCEPT !.token = old(@)]]
    /\ UNCHANGED <<file, seal, sealed, rules, held, pc, op, loaded, inForce, answers, used>>

(* The gate starts again from the files. *)
Restart ==
    /\ Uses("restarts", MaxRestarts)
    /\ rules' = RulesOf[file]
    /\ token' = TokenOf(RulesOf[file])
    /\ pc' = [t \in Threads |-> "idle"]
    /\ loc' = [t \in Callers |-> NoCall]
    /\ op' = [o \in Operators |-> NoPolicy]
    /\ loaded' = {file}
    /\ inForce' = [t \in Callers |-> {}]
    /\ UNCHANGED <<file, seal, sealed, held, answers>>

CallStep(t) ==
    \/ \E src \in Sources, arg \in Args : Call(t, src, arg)
    \/ CheckContained(t) \/ CheckTampered(t) \/ RefusedByAuthority(t) \/ LookUp(t)
    \/ Match(t) \/ TakeToken(t) \/ EnsureFresh(t) \/ MintFails(t)
    \/ RefusedByRule(t) \/ Decide(t) \/ Receipt(t) \/ ReceiptFails(t)

OperatorStep(o) ==
    \/ \E p \in Policies : Save(o, p)
    \/ Reload(o) \/ ReadFile(o) \/ ClearIndex(o) \/ FillRule(o) \/ MintToken(o)
    \/ SealDigest(o) \/ SealReceipt(o) \/ SealRefused(o) \/ SealPersist(o)

Next ==
    \/ \E t \in Callers : CallStep(t)
    \/ \E o \in Operators : OperatorStep(o)
    \/ \E p \in Policies : Edit(p)
    \/ Hold \/ Release \/ Expire \/ Restart

Spec == Init /\ [][Next]_vars

----------------------------------------------------------------------------
(* Properties *)

CallSteps == {"idle", "contain", "tamper", "lookup", "match", "token", "fresh", "decide",
              "receipt"}
OperatorSteps == {"idle", "read", "clear", "fill", "seal", "persist"}
Tokens == [rule : RuleIds, live : BOOLEAN] \cup {None}

TypeOK ==
    /\ file \in Policies
    /\ seal \in Policies \cup {None}
    /\ sealed \subseteq Policies
    /\ rules \in Seq(RuleIds)
    /\ token \in Tokens
    /\ held \in BOOLEAN
    /\ pc \in [Threads -> CallSteps \cup OperatorSteps]
    /\ \A t \in Callers : pc[t] \in CallSteps
    /\ \A o \in Operators : pc[o] \in OperatorSteps
    /\ loc \in [Callers -> [src : Sources, arg : Args, held : BOOLEAN,
                            rule : RuleIds \cup {None}, token : Tokens]]
    /\ op \in [Operators -> [policy : Policies \cup {None}, n : Nat]]
    /\ loaded \subseteq Policies
    /\ inForce \in [Callers -> SUBSET Policies]
    /\ used \in [calls : Nat, changes : Nat, faults : Nat, restarts : Nat, overlaps : Nat]

(* Whatever reload overlaps the call, the rule an allowed call cites is the
   first match in a policy that was in force at some time during the call:
   a half-filled index never lets a later rule speak for an earlier one
   (check_tool_call, _find_rule, _index_rules).  Two overlapping reloads
   break it: one clears the index while the other is filling it. *)
FirstMatchInForce ==
    \A a \in answers : \E p \in a.inForce : FirstMatch(RulesOf[p], a.src) = a.cited

(* A call that starts under a quarantine or a lease suspension that is not
   lifted while it runs is not allowed (check_tool_call: consulted first). *)
HeldIsDenied == \A a \in answers : ~a.held

(* The seal pins only what a receipt binds (PolicyBytesVerifier.seal: a
   seal without its receipt is a bug), file edits in between included. *)
SealIsReceipted == seal # None => seal \in sealed

(* Between requests the index is whole: the rules are those of one policy,
   with a token for the tool under one of these rules exactly when there is
   a rule (reload_policies, _ensure_fresh_token). *)
IndexCoherent ==
    (\A t \in Threads : Idle(t)) =>
        /\ \E p \in Policies : rules = RulesOf[p]
        /\ IF rules = <<>> THEN token = None
           ELSE token # None /\ token.rule \in Range(rules)

(* The arguments of an allowed call were checked under a rule of a policy
   that was in force at some time during the call (_tokens, the token of the
   tool, follows _policy_rules).  Which rule: the first of the tool, or the
   one that matched when the token was last minted again. *)
CheckedInForce ==
    \A a \in answers : \E p \in a.inForce : a.under \in Range(RulesOf[p])

(* THE GATE.  Whatever overlaps a call, it cites the first rule that matches in
   a policy in force during it, it is refused under a hold, and the policy it
   answers for is sealed only with a receipt (check_tool_call, seal). *)
GateHolds == FirstMatchInForce /\ HeldIsDenied /\ SealIsReceipted

(* IN TURN.  Until a request begins beside another, the index is whole between
   requests, and no call is checked under a policy replaced before it began; a
   call that overlaps a reload may leave a token of the old policy behind, and
   later calls use it until it expires (reload_policies, _ensure_fresh_token). *)
SerialHolds == used.overlaps = 0 => IndexCoherent /\ CheckedInForce
=============================================================================
