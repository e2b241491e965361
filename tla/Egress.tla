------------------------------- MODULE Egress -------------------------------
(***************************************************************************)
(* The enforcement points that stand between an agent and what it acts on: *)
(* the URL-switch proxy (urlgate.py), the AWS custody broker and the MCP   *)
(* server in front of it (broker/), and the framework adapters that wrap a *)
(* tool call (integrations/).  They share one obligation, in five orders:  *)
(* resolve the token in force, ask the gate, write the receipt, act.       *)
(*                                                                         *)
(* A context is a proxy thread or an asyncio task; the in-force token is a *)
(* ContextVar, so it is private to the context.  A call is Enter, then the *)
(* steps of its plan one at a time, so that other contexts, sink failures  *)
(* and crashes come between any two of them.                               *)
(***************************************************************************)
EXTENDS Naturals, Sequences, FiniteSets

CONSTANTS
    Contexts,   \* threads and tasks that make calls
    Agents,     \* caller identities a framework may surface
    Tokens,     \* capability tokens
    Bound,      \* [Tokens -> Agents]: the token's agent_id
    Actions,    \* what may be asked for
    Permits,    \* [Tokens -> SUBSET Actions]
    UrlAllows,  \* SUBSET Actions: the proxy's service policy lets these through
    UrlGated,   \* SUBSET Actions: paths with a gated suffix
    Harmful,    \* SUBSET Actions: texts the scanner's action is BLOCK for
    Custody,    \* SUBSET {"writer", "sink"}: where the broker records
    MaxCalls,   \* bound on calls
    MaxFaults,  \* bound on sink failures and crashes
    MaxClock    \* bound on the broker's clock

Nothing == "none"

(***************************************************************************)
(* The doors, each with the order of its steps and what it does when the   *)
(* sink raises.  "shadow" is raise_on_deny=False, which langchain and      *)
(* autogen offer.                                                          *)
(***************************************************************************)
Doors == {"url", "aws", "langchain", "langchain_shadow", "crewai", "autogen",
          "autogen_shadow", "framework", "agents", "agt"}

Shadow == {"langchain_shadow", "autogen_shadow"}

\* Doors that promise a receipt before the act.  The Agent Framework
\* middleware writes after the call and drops a failing write; the AGT
\* provider writes nothing.
Strict == Doors \ {"framework", "agt"}

VARIABLES
    door,     \* the enforcement point this process embeds
    inForce,  \* [Contexts -> Tokens \cup {Nothing}]
    run,      \* [Contexts -> call record or Idle]
    sink,     \* durable receipts, oldest first
    effects,  \* requests that reached the tool, the upstream or AWS
    answers,  \* what callers were told
    calls, faults, clock

vars == <<door, inForce, run, sink, effects, answers, calls, faults, clock>>

Idle == [todo |-> <<>>, id |-> 0]

Init ==
    /\ door \in Doors
    /\ inForce = [c \in Contexts |-> Nothing]
    /\ run = [c \in Contexts |-> Idle]
    /\ sink = <<>>
    /\ effects = {}
    /\ answers = {}
    /\ calls = 0
    /\ faults = 0
    /\ clock = 0

-----------------------------------------------------------------------------
(* The decision.                                                           *)

\* CapabilityGate.check as the doors see it: the agent scope is only checked
\* when the door passes an identity.
GateCheck(tok, agent, act) ==
    /\ agent = Nothing \/ agent = Bound[tok]
    /\ act \in Permits[tok]

\* RaucleCallbackHandler._make_decision, require_agent_id left at its default.
LangchainDecision(tok, agent, act) ==
    tok # Nothing /\ agent # Nothing /\ GateCheck(tok, agent, act)

\* guard_tool: the agent_id is an optional parameter of the wrapper.
CrewaiDecision(tok, agent, act) ==
    tok # Nothing /\ GateCheck(tok, agent, act)

\* gated_tools: an empty agent_id is refused before the gate is asked.
AutogenDecision(tok, agent, act) ==
    agent # Nothing /\ tok # Nothing /\ GateCheck(tok, agent, act)

\* The identity the middleware hands to the gate: the framework's when it
\* surfaces one, else the token's own.
FrameworkAgent_TokenOnly(tok, agent) == IF tok = Nothing THEN Nothing ELSE Bound[tok]

FrameworkAgent(tok, agent) ==
    IF agent # Nothing THEN agent
    ELSE IF tok # Nothing THEN Bound[tok]
    ELSE Nothing

FrameworkDecision(tok, agent, act) ==
    tok # Nothing /\ GateCheck(tok, FrameworkAgent(tok, agent), act)

\* RauclePolicyBackend.evaluate and RauclePolicyProvider: the pair is matched
\* before the gate is asked, and a missing identity matches no token.
AgtDecision(tok, agent, act) ==
    tok # Nothing /\ agent = Bound[tok] /\ GateCheck(tok, agent, act)

\* The AWS broker passes agent_id on as it got it.
AwsDecision(tok, agent, act) ==
    tok # Nothing /\ GateCheck(tok, agent, act)

\* _scan_and_receipt: the tripwire is the action BLOCK.
AgentsDecision(act) == act \notin Harmful

Decision(tok, agent, act) ==
    CASE door = "url"       -> act \in UrlAllows
      [] door = "aws"       -> AwsDecision(tok, agent, act)
      [] door \in {"langchain", "langchain_shadow"} -> LangchainDecision(tok, agent, act)
      [] door = "crewai"    -> CrewaiDecision(tok, agent, act)
      [] door \in {"autogen", "autogen_shadow"} -> AutogenDecision(tok, agent, act)
      [] door = "framework" -> FrameworkDecision(tok, agent, act)
      [] door = "agents"    -> AgentsDecision(act)
      [] door = "agt"       -> AgtDecision(tok, agent, act)

-----------------------------------------------------------------------------
(* The order of the steps.                                                 *)

\* _dispatch and _emit: the request is signed, the decision receipt goes to
\* the provenance chain, then the call's receipt, then the hash chain, and
\* only then does the transport run.
AwsPlan_ActFirst(allowed) ==
    (IF allowed THEN <<"sign", "act">> ELSE <<>>) \o
    (IF "writer" \in Custody THEN <<"scan">> \o (IF allowed THEN <<"record">> ELSE <<>>) ELSE <<>>) \o
    (IF "sink" \in Custody THEN <<"append">> ELSE <<>>) \o
    (IF allowed THEN <<"answer">> ELSE <<"deny">>)

AwsPlan(allowed) ==
    (IF allowed THEN <<"sign">> ELSE <<>>) \o
    (IF "writer" \in Custody THEN <<"scan">> \o (IF allowed THEN <<"record">> ELSE <<>>) ELSE <<>>) \o
    (IF "sink" \in Custody THEN <<"append">> ELSE <<>>) \o
    (IF allowed THEN <<"act", "answer">> ELSE <<"deny">>)

\* on_tool_start, guard_tool, gated_tools and the guardrails: the receipt is
\* written first; a denial raises unless the door runs in shadow mode.
AdapterPlan(allowed) ==
    IF allowed \/ door \in Shadow THEN <<"append", "act", "answer">> ELSE <<"append", "deny">>

\* RaucleFunctionMiddleware.process: the ALLOW receipt is written in the
\* finally clause of the call.
FrameworkPlan(allowed) ==
    IF allowed THEN <<"act", "append", "answer">> ELSE <<"append", "deny">>

\* The AGT provider only decides; AGT runs the tool.
AgtPlan(allowed) == IF allowed THEN <<"act", "answer">> ELSE <<"deny">>

\* UrlGate.gate_call receipts inside check_tool_call; a path without a gated
\* suffix and a HEAD or OPTIONS request are forwarded without either.
UrlPlan(gated, allowed) ==
    IF ~gated THEN <<"act", "answer">>
    ELSE IF allowed THEN <<"append", "act", "answer">>
    ELSE <<"append", "deny">>

Plan(gated, allowed) ==
    CASE door = "url"       -> UrlPlan(gated, allowed)
      [] door = "aws"       -> AwsPlan(allowed)
      [] door = "framework" -> FrameworkPlan(allowed)
      [] door = "agt"       -> AgtPlan(allowed)
      [] OTHER              -> AdapterPlan(allowed)

-----------------------------------------------------------------------------
(* Actions.                                                                *)

SetInForceToken(c, t) ==
    /\ run[c] = Idle
    /\ inForce[c] # t
    /\ door \notin {"url", "agents"}  \* these read none
    /\ calls < MaxCalls               \* no later call would read it
    /\ inForce' = [inForce EXCEPT ![c] = t]
    /\ UNCHANGED <<door, run, sink, effects, answers, calls, faults, clock>>

\* A call arrives.  exempt is a HEAD or OPTIONS request at the proxy.
Enter(c, act, agent, exempt) ==
    /\ run[c] = Idle
    /\ calls < MaxCalls
    /\ door # "url" => ~exempt
    /\ door \in {"url", "agents"} => agent = Nothing
    /\ LET gated   == door = "url" => (act \in UrlGated /\ ~exempt)
           allowed == ~gated \/ Decision(inForce[c], agent, act)
       IN  run' = [run EXCEPT ![c] =
               [todo |-> Plan(gated, allowed), id |-> calls + 1,
                act |-> act, agent |-> agent, token |-> inForce[c], gated |-> gated,
                allowed |-> allowed, signed |-> {}, receipt |-> 0]]
    /\ calls' = calls + 1
    /\ UNCHANGED <<door, inForce, sink, effects, answers, faults, clock>>

\* UrlGate._proxy refuses a target that is not in origin form; the MCP server
\* answers an unknown method or tool, a missing argument or bad base64 with an
\* error.  None of them asks the gate.
Refuse(c) ==
    /\ run[c] = Idle
    /\ calls < MaxCalls
    /\ door \in {"url", "aws"}
    /\ calls' = calls + 1
    /\ answers' = answers \cup {[id |-> calls + 1, what |-> "invalid", receipt |-> 0]}
    /\ UNCHANGED <<door, inForce, run, sink, effects, faults, clock>>

Step(c, name) == run[c] # Idle /\ Head(run[c].todo) = name

Proceed(c, r) == run' = [run EXCEPT ![c] = [r EXCEPT !.todo = Tail(@)]]

\* time.gmtime(self._clock()) is read once, for the header and the binding.
Sign(c) ==
    /\ Step(c, "sign")
    /\ Proceed(c, [run[c] EXCEPT !.signed = {clock}])
    /\ UNCHANGED <<door, inForce, sink, effects, answers, calls, faults, clock>>

\* A receipt reaches the disk.  "scan" is the decision alone; "record" and
\* "append" carry the signed request's binding.
Write(c) ==
    /\ \E k \in {"scan", "record", "append"} :
         /\ Step(c, k)
         /\ sink' = Append(sink, [id |-> run[c].id, kind |-> k, act |-> run[c].act,
                                  allow |-> run[c].allowed,
                                  binding |-> IF k = "scan" THEN {} ELSE run[c].signed])
    /\ Proceed(c, [run[c] EXCEPT !.receipt = Len(sink) + 1])
    /\ UNCHANGED <<door, inForce, effects, answers, calls, faults, clock>>

\* A receipt cannot be written.  Only the Agent Framework middleware swallows
\* the error; everywhere else it propagates and the call never runs.
WriteFails_Swallowed(c) ==
    /\ \E k \in {"scan", "record", "append"} : Step(c, k)
    /\ faults < MaxFaults
    /\ faults' = faults + 1
    /\ Proceed(c, run[c])
    /\ UNCHANGED <<door, inForce, sink, effects, answers, calls, clock>>

WriteFails(c) ==
    /\ \E k \in {"scan", "record", "append"} : Step(c, k)
    /\ faults < MaxFaults
    /\ faults' = faults + 1
    /\ IF door = "framework"
       THEN Proceed(c, run[c]) /\ UNCHANGED answers
       ELSE /\ run' = [run EXCEPT ![c] = Idle]
            /\ answers' = answers \cup {[id |-> run[c].id, what |-> "error", receipt |-> 0]}
    /\ UNCHANGED <<door, inForce, sink, effects, calls, clock>>

\* What a transport can do: get through or not, and say so or not.  A timeout
\* after the request was received looks like one before.
Transport == {o \in [reached : BOOLEAN, told : BOOLEAN] : o.told => o.reached}

\* The tool runs, or the request is sent; a transport failure is a fault, and
\* the caller is then told of the failure.
Act(c) ==
    /\ Step(c, "act")
    /\ \E o \in Transport :
         /\ ~o.told => (door \in {"url", "aws"} /\ faults < MaxFaults)
         /\ faults' = IF o.told THEN faults ELSE faults + 1
         /\ effects' = IF o.reached
                       THEN effects \cup {[id |-> run[c].id, act |-> run[c].act,
                                agent |-> run[c].agent, token |-> run[c].token,
                                gated |-> run[c].gated, signed |-> run[c].signed]}
                       ELSE effects
    /\ Proceed(c, run[c])
    /\ UNCHANGED <<door, inForce, sink, answers, calls, clock>>

\* The caller is answered, with the receipt the call minted.
Answer(c) ==
    /\ Step(c, "answer") \/ Step(c, "deny")
    /\ answers' = answers \cup {[id |-> run[c].id, what |-> Head(run[c].todo),
                                 receipt |-> run[c].receipt]}
    /\ run' = [run EXCEPT ![c] = Idle]
    /\ UNCHANGED <<door, inForce, sink, effects, calls, faults, clock>>

Tick ==
    /\ door = "aws"  \* the only door that reads it
    /\ clock < MaxClock
    /\ clock' = clock + 1
    /\ UNCHANGED <<door, inForce, run, sink, effects, answers, calls, faults>>

\* The process dies: calls in flight and the tokens in force are gone.
Crash ==
    /\ faults < MaxFaults
    /\ \E c \in Contexts : run[c] # Idle
    /\ faults' = faults + 1
    /\ run' = [c \in Contexts |-> Idle]
    /\ inForce' = [c \in Contexts |-> Nothing]
    /\ UNCHANGED <<door, sink, effects, answers, calls, clock>>

Next ==
    \/ \E c \in Contexts :
         \/ \E t \in Tokens \cup {Nothing} : SetInForceToken(c, t)
         \/ \E act \in Actions, agent \in Agents \cup {Nothing}, exempt \in BOOLEAN :
              Enter(c, act, agent, exempt)
         \/ Refuse(c)
         \/ Sign(c) \/ Write(c) \/ WriteFails(c) \/ Act(c) \/ Answer(c)
    \/ Tick
    \/ Crash

Spec == Init /\ [][Next]_vars

-----------------------------------------------------------------------------
(* Retry guidance (integrations/retry_guidance.py).  A constraint is a      *)
(* record of partial functions from fields: allowed and forbidden values,   *)
(* the values with the prefix asked for, lower and upper bounds; and of the *)
(* set of required fields and the combinations of fields that are           *)
(* forbidden.                                                               *)

\* The gate's reading of the kinds that make guidance: a field that one of them
\* names must be there.
MeetsCriteria(args, c) ==
    /\ \A f \in DOMAIN c.allowed : f \in DOMAIN args /\ args[f] \in c.allowed[f]
    /\ c.required \subseteq DOMAIN args
    /\ \A f \in DOMAIN c.lo : f \in DOMAIN args /\ args[f] >= c.lo[f]
    /\ \A f \in DOMAIN c.hi : f \in DOMAIN args /\ args[f] <= c.hi[f]

\* And of the kinds that make none.
MeetsRest(args, c) ==
    /\ \A f \in DOMAIN c.forbidden \cap DOMAIN args : args[f] \notin c.forbidden[f]
    /\ \A f \in DOMAIN c.prefix : f \in DOMAIN args /\ args[f] \in c.prefix[f]
    /\ \A combo \in c.combos : ~(combo \subseteq DOMAIN args)

Satisfies(args, c) == MeetsCriteria(args, c) /\ MeetsRest(args, c)

\* Field by field, with both(f) where the two overlap.
Overlay(f, g, both) ==
    [x \in DOMAIN f \cup DOMAIN g |->
        IF x \notin DOMAIN g THEN f[x] ELSE IF x \notin DOMAIN f THEN g[x] ELSE both[x]]

\* _merge: the intersection of the lists, the union of the required fields, the
\* tighter of the bounds; of every other kind what the base has.
Merge_Override(base, extra) ==
    [base EXCEPT
        !.allowed  = Overlay(@, extra.allowed, extra.allowed),
        !.required = @ \cup extra.required,
        !.lo = Overlay(@, extra.lo, extra.lo),
        !.hi = Overlay(@, extra.hi, extra.hi)]

Merge(base, extra) ==
    LET Tighter(x, y, up) == IF (x < y) = up THEN y ELSE x
        Both(k) == DOMAIN base[k] \cap DOMAIN extra[k]
    IN  [base EXCEPT
            !.allowed  = Overlay(@, extra.allowed,
                             [f \in Both("allowed") |-> base.allowed[f] \cap extra.allowed[f]]),
            !.required = @ \cup extra.required,
            !.lo = Overlay(@, extra.lo,
                       [f \in Both("lo") |-> Tighter(base.lo[f], extra.lo[f], TRUE)]),
            !.hi = Overlay(@, extra.hi,
                       [f \in Both("hi") |-> Tighter(base.hi[f], extra.hi[f], FALSE)])]

\* What guidance says: the criteria, and nothing of the other kinds.
Criteria(c) == [k \in {"allowed", "required", "lo", "hi"} |-> c[k]]

NoCriteria == [allowed |-> <<>>, required |-> {}, lo |-> <<>>, hi |-> <<>>]

\* retry_guidance: the criteria, or None when nothing can be said.  An intent is
\* {} or {[tools, constraints]}; an empty tools list names no tool to exclude.
RetryGuidance(tool, c, intent) ==
    LET merged == IF intent = {} THEN c
                  ELSE Merge(c, (CHOOSE i \in intent : TRUE).constraints)
        excluded == \E i \in intent : i.tools # {} /\ tool \notin i.tools
        empty == \E f \in DOMAIN merged.allowed : merged.allowed[f] = {}
    IN  IF excluded \/ empty \/ Criteria(merged) = NoCriteria THEN {} ELSE {Criteria(merged)}

\* attach_retry_guidance: only a denial carries it.
AttachRetryGuidance(decision, tool, c, intent) ==
    IF decision = "deny" THEN RetryGuidance(tool, c, intent) ELSE {}

-----------------------------------------------------------------------------
(* Properties.                                                             *)

Receipts(id) == {i \in 1..Len(sink) : sink[i].id = id}

\* "No receipt, no action": whatever reached AWS, the model provider or a
\* tool through a gated door that promises it has a receipt on disk for that
\* very call; for AWS the receipt binds the exact signed request, and every
\* configured store has it, whichever writes failed or crashed on the way.
NoReceiptNoAction ==
    \A e \in effects :
        /\ door \in Strict /\ e.gated /\ (door = "aws" => Custody # {})
             => \E i \in Receipts(e.id) :
                  /\ sink[i].act = e.act
                  /\ sink[i].allow \/ door \in Shadow
                  /\ sink[i].binding = e.signed
        /\ door = "aws" /\ Custody = {"writer", "sink"}
             => {"record", "append"} \subseteq {sink[i].kind : i \in Receipts(e.id)}

\* What runs outside shadow mode was within the token in force in its own
\* context, and where the caller's identity is known the token is that
\* caller's; a scan receipt that says DENY is never followed by an act.
ActsAreAuthorised ==
    \A e \in effects :
        /\ door \notin Shadow \cup {"url", "agents"}
             => /\ e.token # Nothing
                /\ e.act \in Permits[e.token]
                /\ e.agent # Nothing => e.agent = Bound[e.token]
        /\ door = "url" /\ e.gated => e.act \in UrlAllows
        /\ door = "agents" => e.act \notin Harmful
        /\ door \notin Shadow => \A i \in Receipts(e.id) : sink[i].allow

\* The receipt a caller is handed is the one its own call minted.
AnswersOwnReceipt ==
    \A a \in answers : a.receipt # 0 => sink[a.receipt].id = a.id

\* The guidance on a denial rules out no retry that the token and the intent
\* together permit, and a retry that follows it is refused exactly when it
\* breaks a forbidden value, a prefix or a forbidden combination of one of them,
\* of which it says nothing (against the specification of the guidance, where
\* such a retry is within the authority).  It is withheld only when no retry
\* would pass, the intent is for other tools, or there is nothing to say.
RetryExact(tool, c, intent, calls_) ==
    LET guidance == AttachRetryGuidance("deny", tool, c, intent)
        both == {c} \cup {i.constraints : i \in intent}
        Permitted(args) == \A k \in both : Satisfies(args, k)
        Untold(args) == \E k \in both : ~MeetsRest(args, k)
    IN  /\ \A g \in guidance, args \in calls_ :
              /\ Permitted(args) => MeetsCriteria(args, g)
              /\ MeetsCriteria(args, g) => (Permitted(args) <=> ~Untold(args))
        /\ guidance = {} =>
              \/ \A args \in calls_ : ~Permitted(args)
              \/ \E i \in intent : i.tools # {} /\ tool \notin i.tools
              \/ \A k \in both : Criteria(k) = NoCriteria
        /\ AttachRetryGuidance("allow", tool, c, intent) = {}

TypeOK ==
    /\ inForce \in [Contexts -> Tokens \cup {Nothing}]
    /\ \A e \in effects : e.id \in 1..calls
    /\ \A i \in 1..Len(sink) : sink[i].id \in 1..calls
    /\ calls \in 0..MaxCalls /\ faults \in 0..MaxFaults /\ clock \in 0..MaxClock
=============================================================================
