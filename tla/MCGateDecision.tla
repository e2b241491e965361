--------------------------- MODULE MCGateDecision ---------------------------
(***************************************************************************)
(* Small instances for TLC of the gate's decision, of the change of its    *)
(* policy that an approver is shown, and of its evidence and data-flow     *)
(* rules.                                                                  *)
(***************************************************************************)
EXTENDS GateDecision

VARIABLE scene
VARIABLES request, late, doing, contended, trail, faults
VARIABLES rule, now, evidence, outputs, call, tainted, given, spent

gateVars == <<file, seal, sealed, rules, token, held, pc, loc, op, loaded, inForce, answers, used>>
changeVars == <<request, late, doing, contended, trail, faults>>
evidenceVars == <<rule, now, evidence, outputs, call, tainted, given, spent>>
allVars == <<scene, gateVars, changeVars, evidenceVars>>

----------------------------------------------------------------------------
(* The gate *)

CONSTANTS narrow, wide, other, before, after, t1

(* wide speaks for every source, the others for "ci" only. *)
MCMatches == [r \in RuleIds |-> IF r = wide THEN {"", "ci"} ELSE {"ci"}]

MCPermits == [r \in RuleIds |-> CASE r = narrow -> {1} [] r = wide -> {1, 2} [] r = other -> {2}]

MCReduced == [r \in RuleIds |-> {1}]

(* The first rule of before is the narrow one; after has a rule of its own. *)
MCRulesOf == [p \in Policies |-> IF p = before THEN <<narrow, wide>> ELSE <<other>>]

(* Two calls, one of them with the argument the narrow rule refuses, and one
   operator at a sealed gate, interleaved; or one request at a time, with a
   failing receipt and a restart, at a gate without a seal. *)
Limits == [parallel |-> [calls |-> 2, changes |-> 2, faults |-> 0, restarts |-> 0, overlaps |-> 1],
           serial   |-> [calls |-> 3, changes |-> 2, faults |-> 1, restarts |-> 1, overlaps |-> 0]]

InScene ==
    /\ \A b \in DOMAIN used : used[b] <= Limits[scene][b]
    /\ scene = "parallel" => \A t \in Callers \ {t1} : Idle(t) \/ loc[t].arg = 2
    /\ scene = "serial" => \A t \in Callers \ {t1} : Idle(t)

GateScenes == DOMAIN Limits

----------------------------------------------------------------------------
(* The change of a policy: bounds and forbidden values that are there or not,
   one rule or two, two agents. *)

Con(min, max, deny) == [min |-> min, max |-> max, deny |-> deny]
Bounds == {Con(min, max, deny) : min \in {None, 0, 1}, max \in {None, 1, 2},
                                 deny \in {None, {0}, {0, 2}}}
RuleOf(id, agent, place, c) == [id |-> id, agent |-> agent, place |-> place, c |-> c]
Written ==
    {<<>>} \cup {<<RuleOf("x", "g", "*", c)>> : c \in Bounds} \cup
    {<<RuleOf("x", "g", "*", Con(None, 1, None)), RuleOf("y", "g", "s", Con(1, None, {0}))>>,
     <<RuleOf("y", "g", "s", Con(0, 2, {0})), RuleOf("x", "h", "*", Con(None, 2, None))>>,
     <<RuleOf("x", "g", "*", Con(None, 2, None)), RuleOf("x", "g", "*", Con(0, 1, {2}))>>}

C == INSTANCE PolicyChange WITH
        Values <- {0, 1, 2}, Policies <- Written, Requests <- {"q1"}, Operators <- {"o1", "o2"},
        Flips <- {{}, {<<1, "ALLOW", "BLOCK">>, <<2, "ALLOW", "ALLOW">>}},
        Graphs <- [x \in {1} |-> [tokens |-> {"t", "u"}, rules |-> {"x"}]],
        Absent <- None, MaxFaults <- 1

ChangeOff == /\ request = None /\ late = None /\ doing = None /\ contended = None
             /\ trail = None /\ faults = None

(* The second operator decides on changes of an empty policy. *)
InChange == doing["o2"] = None \/ request["q1"].base = <<>>

----------------------------------------------------------------------------
(* Evidence and flow rules *)

Quality(degraded, reduced) == [maxAge |-> 1, minClass |-> "third-party", floor |-> 50,
                               onDegraded |-> degraded, reduced |-> reduced]
Flow(denied, allow) == [tags |-> {"pii"}, denied |-> denied, allow |-> allow]
Approve == {[op |-> "gt", value |-> 1], [op |-> "?", value |-> 0]}
RulesInForce ==
    {[eqr |-> Quality("reduce", {0, 2}), flow |-> None, approve |-> {}],
     [eqr |-> Quality("deny", None), flow |-> Flow({"ext"}, None), approve |-> Approve],
     [eqr |-> None, flow |-> Flow({}, {"int"}), approve |-> Approve],
     [eqr |-> None, flow |-> Flow({}, None), approve |-> {}],
     [eqr |-> Quality("reduce", None), flow |-> None, approve |-> {}]}
Event(at, class, confidence) == [at |-> at, class |-> class, confidence |-> confidence]
Events == {Event(1, "certified", 90), Event(1, "certified", 10), Event(2, "certified", 90),
           Event(3, "gossip", 90), Event(-1, "certified", 90)}

E == INSTANCE EvidenceRules WITH
        Callers <- {"t1"}, Args <- {0, 1, 2}, Permits <- {0, 1}, Rules <- RulesInForce,
        Traces <- {"x", ""}, NoTrace <- "", Classes <- {"ext", "int"}, Unknown <- "?",
        Tags <- {"pii", "ok", "?"}, Evidences <- Events, MaxNow <- 3, MaxRecords <- 3,
        MaxCalls <- 1, before <- tainted, answers <- given, used <- spent

EvidenceOff ==
    /\ rule = None /\ now = None /\ evidence = None /\ outputs = None /\ call = None
    /\ tainted = None /\ given = None /\ spent = None

----------------------------------------------------------------------------
SceneInit ==
    /\ scene \in GateScenes \cup {"change", "evidence"}
    /\ Init
    /\ seal = IF scene = "parallel" THEN First ELSE None
    /\ IF scene = "change" THEN C!Init ELSE ChangeOff
    /\ IF scene = "evidence" THEN E!Init ELSE EvidenceOff

SceneNext ==
    /\ UNCHANGED scene
    /\ \/ scene \in GateScenes /\ Next /\ InScene' /\ UNCHANGED <<changeVars, evidenceVars>>
       \/ scene = "change" /\ C!Next /\ InChange' /\ UNCHANGED <<gateVars, evidenceVars>>
       \/ scene = "evidence" /\ E!Next /\ UNCHANGED <<gateVars, changeVars>>

SceneSpec == SceneInit /\ [][SceneNext]_allVars

----------------------------------------------------------------------------
(* Properties *)

(* What the approver of a policy change is shown names every rule that lets
   more through, where every kind of constraint is kept; and no request has two
   verdicts in the receipts but one that two operators found pending at once
   (delta_report, ActivationApprovalManager.decide, decide_activation). *)
ChangeShown == scene = "change" => C!ShownIsRight /\ C!OneVerdict

(* Nothing but a refresh widens what evidence has narrowed, and no call reaches
   a destination closed to a taint of its chain, whatever is recorded while it
   is decided (evaluate_eqr, apply_eqr_to_token, check_flow). *)
EvidenceStands ==
    [][(scene = "evidence") => E!NarrowsUntilRefresh /\ E!FlowHolds']_allVars
=============================================================================
