---------------------------- MODULE PolicyChange ----------------------------
(***************************************************************************)
(* A change of policy on its way to approval: the delta between a baseline *)
(* and a candidate (delta_report.py), and the activation request that      *)
(* carries it to an operator (activation.py, gateway.py                    *)
(* request_policy_activation and decide_activation).                       *)
(*                                                                         *)
(* A policy is the rules of one tool.  A rule has an id, the key its grant *)
(* is known by (agent, source and destination) and compiled constraints    *)
(* on one field: bounds and forbidden values, each of which may be absent. *)
(***************************************************************************)
EXTENDS Integers, Sequences, FiniteSets, SequencesExt

CONSTANTS
    Values,       \* values of the field: integers
    Policies,     \* policies: sequences of [id, agent, place, c]
    Flips,        \* how a batch replayed: sets of <<receipt, original, counterfactual>>
    Graphs,       \* Graphs[x]: the delegation tokens and rules on the path of receipt x
    Requests,     \* activation request ids
    Operators,    \* threads of decide_activation
    Absent,       \* a constraint the rule does not have
    MaxFaults     \* bound: receipts that cannot be written

VARIABLES
    request,      \* request[r]: an ActivationRequest, or Absent
    late,         \* requests past expires_at
    doing,        \* doing[o]: the request and verdict an operator thread holds
    contended,    \* requests a thread found pending while another was deciding them
    trail,        \* authority receipts: <<verdict, request, digest>>
    faults        \* receipts that could not be written

vars == <<request, late, doing, contended, trail, faults>>

----------------------------------------------------------------------------
(* delta_report *)

(* _rule_key *)
Key(r) == <<r.agent, r.place>>

Keys(p) == {Key(p[i]) : i \in DOMAIN p}

(* base_by_key: of two rules with one key the last stands. *)
ByKey(p, k) == p[SelectLastInSeq(p, LAMBDA r : Key(r) = k)]

(* diff_policy_rules *)
Opened(b, c) == {ByKey(c, k) : k \in Keys(c) \ Keys(b)}

Closed(b, c) == {ByKey(b, k) : k \in Keys(b) \ Keys(c)}

Changed(b, c) == {ByKey(c, k) : k \in {x \in Keys(b) \cap Keys(c) :
                                          ByKey(b, x).c # ByKey(c, x).c}}

Forbids(con) == IF con.deny = Absent THEN {} ELSE con.deny

(* _threshold_widenings: bounds that both have, moved outwards. *)
BoundMovesOut(bc, cc) ==
    \/ bc.max # Absent /\ cc.max # Absent /\ cc.max > bc.max
    \/ bc.min # Absent /\ cc.min # Absent /\ cc.min < bc.min

ConstraintWidens_BoundsOnly(bc, cc) == BoundMovesOut(bc, cc)   \* wrong: forbidden values are forgotten

(* _constraint_widens, over the fields that changed. *)
ConstraintWidens(bc, cc) ==
    \/ Forbids(bc) \ Forbids(cc) # {}
    \/ BoundMovesOut(bc, cc)

Unconstrained == [max |-> Absent, min |-> Absent, deny |-> Absent]

(* baseline_constraint_for: the first rule of the tool for the agent, at
   whatever place. *)
ConstraintFor(p, agent) ==
    LET i == SelectInSeq(p, LAMBDA r : r.agent = agent)
    IN  IF i = 0 THEN Unconstrained ELSE p[i].c

(* _widened_tools *)
Widened(b, c) ==
    {r \in Changed(b, c) : ConstraintWidens(ConstraintFor(b, r.agent), ConstraintFor(c, r.agent))}

(* _pair_rule_rows: by id; a candidate's own rule is its partner where the
   baseline has none of that id. *)
Pairs(b, c) ==
    LET byId(i) == c[SelectLastInSeq(c, LAMBDA r : r.id = i)]
        ids(p) == {p[i].id : i \in DOMAIN p}
    IN  {<<b[i], byId(b[i].id)>> : i \in {j \in DOMAIN b : b[j].id \in ids(c)}}
        \cup {<<c[i], c[i]>> : i \in {j \in DOMAIN c : c[j].id \notin ids(b)}}

ThresholdTightens_Max(bc, cc) ==   \* wrong: the lower bound is not looked at
    ~(bc.max # Absent /\ cc.max # Absent /\ cc.max > bc.max)

(* _check_threshold_invariant_z3, and the comparison that stands in for it:
   the solver is given the same pairs of constants. *)
ThresholdTightens(bc, cc) == ~BoundMovesOut(bc, cc)

(* _check_denylist_invariant_z3: lists that both have; the terms the solver is
   given are always empty. *)
DenylistKept(bc, cc) ==
    bc.deny # Absent /\ cc.deny # Absent => bc.deny \subseteq cc.deny

(* invariant_diff: rules with no constraints are passed over. *)
Rows(b, c) ==
    IF b = <<>> \/ c = <<>>
    THEN {[name |-> IF b = <<>> THEN "path-opened" ELSE "path-closed-conservatively",
           base |-> r, cand |-> r, holds |-> b # <<>>] : r \in Range(b) \cup Range(c)}
    ELSE UNION { { [name |-> "threshold-tightening", base |-> x[1], cand |-> x[2],
                    holds |-> ThresholdTightens(x[1].c, x[2].c)],
                   [name |-> "deny-list-superset", base |-> x[1], cand |-> x[2],
                    holds |-> DenylistKept(x[1].c, x[2].c)] } :
                 x \in {y \in Pairs(b, c) : y[1].c # Unconstrained /\ y[2].c # Unconstrained} }

(* delegation_hop_impact: the flipped receipts whose graph was resolved; the
   hops are the tokens on the graph. *)
HopImpact(flipped, changed) ==
    {[receipt |-> x, hops |-> Cardinality(Graphs[x].tokens), rules |-> Graphs[x].rules \cap changed] :
        x \in {f[1] : f \in flipped} \cap DOMAIN Graphs}

(* activation_artefact, of build_delta_report: what the approver is shown. *)
Artefact(b, c, flips) ==
    [ flipped   |-> {f \in flips : f[2] # f[3]},
      denied    |-> {f \in flips : f[2] # f[3] /\ f[3] = "BLOCK"},
      opened    |-> Opened(b, c),
      closed    |-> Closed(b, c),
      changed   |-> {r.id : r \in Changed(b, c)},
      hops      |-> HopImpact({f \in flips : f[2] # f[3]}, {r.id : r \in Changed(b, c)}),
      widened   |-> {r.id : r \in Widened(b, c)},
      preserved |-> {row.name : row \in {x \in Rows(b, c) : x.holds}} ]

----------------------------------------------------------------------------
(* ActivationApprovalManager and the receipts around it *)

Emit(verdict, r, digest) ==
    \/ trail' = Append(trail, <<verdict, r, digest>>) /\ UNCHANGED faults
    \/ faults < MaxFaults /\ faults' = faults + 1 /\ UNCHANGED trail

(* request_policy_activation: the delta is computed now. *)
RequestActivation(r, b, c, flips) ==
    LET a == Artefact(b, c, flips) IN
    /\ request[r] = Absent
    /\ request' = [request EXCEPT ![r] = [base |-> b, cand |-> c, artefact |-> a,
                                          status |-> "pending"]]
    /\ Emit("activation_requested", r, a)
    /\ UNCHANGED <<late, doing, contended>>

(* _get: a pending request past its time is expired, and the call refused. *)
Lapsed(r) == request[r].status = "pending" /\ r \in late

Idle(o) == doing[o] = Absent

(* decide: unknown, expired, or no longer pending. *)
DecideRefused(o, r) ==
    /\ Idle(o)
    /\ request[r] # Absent
    /\ request[r].status # "pending" \/ Lapsed(r)
    /\ request' = IF Lapsed(r) THEN [request EXCEPT ![r].status = "expired"] ELSE request
    /\ UNCHANGED <<late, doing, contended, trail, faults>>

Contend(r) ==
    contended' = IF \E p \in Operators : ~Idle(p) /\ doing[p].req = r
                 THEN contended \cup {r} ELSE contended

DecideChecked_Any(o, r, verdict) ==   \* wrong: decided requests are decided again
    /\ Idle(o)
    /\ request[r] # Absent
    /\ ~Lapsed(r)
    /\ doing' = [doing EXCEPT ![o] = [req |-> r, verdict |-> verdict, set |-> FALSE]]
    /\ Contend(r)
    /\ UNCHANGED <<request, late, trail, faults>>

(* decide up to its assignment: nothing is locked between the two. *)
DecideChecked(o, r, verdict) ==
    /\ Idle(o)
    /\ request[r] # Absent
    /\ request[r].status = "pending" /\ ~Lapsed(r)
    /\ doing' = [doing EXCEPT ![o] = [req |-> r, verdict |-> verdict, set |-> FALSE]]
    /\ Contend(r)
    /\ UNCHANGED <<request, late, trail, faults>>

DecideSet(o) ==
    /\ ~Idle(o) /\ ~doing[o].set
    /\ request' = [request EXCEPT ![doing[o].req].status = doing[o].verdict]
    /\ doing' = [doing EXCEPT ![o].set = TRUE]
    /\ UNCHANGED <<late, contended, trail, faults>>

(* decide_activation: the receipt names the verdict and the artefact. *)
DecideReceipt(o) ==
    /\ ~Idle(o) /\ doing[o].set
    /\ Emit(doing[o].verdict, doing[o].req, request[doing[o].req].artefact)
    /\ doing' = [doing EXCEPT ![o] = Absent]
    /\ UNCHANGED <<request, late, contended>>

(* consume: one activation. *)
Consume(r) ==
    /\ request[r] # Absent
    /\ request[r].status = "approved"
    /\ request' = [request EXCEPT ![r].status = "consumed"]
    /\ UNCHANGED <<late, doing, contended, trail, faults>>

(* pending: what the queue shows; nothing is marked. *)
Pending == {r \in Requests : request[r] # Absent /\ request[r].status = "pending" /\ r \notin late}

Lapse(r) ==
    /\ request[r] # Absent /\ r \notin late
    /\ late' = late \cup {r}
    /\ UNCHANGED <<request, doing, contended, trail, faults>>

Init ==
    /\ request = [r \in Requests |-> Absent]
    /\ late = {}
    /\ doing = [o \in Operators |-> Absent]
    /\ contended = {}
    /\ trail = <<>>
    /\ faults = 0

Next ==
    \/ \E r \in Requests, b, c \in Policies, f \in Flips : RequestActivation(r, b, c, f)
    \/ \E o \in Operators :
        \/ \E r \in Requests : DecideRefused(o, r)
        \/ \E r \in Requests, v \in {"approved", "denied"} : DecideChecked(o, r, v)
        \/ DecideSet(o) \/ DecideReceipt(o)
    \/ \E r \in Requests : Consume(r) \/ Lapse(r)

Spec == Init /\ [][Next]_vars

----------------------------------------------------------------------------
(* Properties *)

Permitted(con) ==
    {v \in Values : /\ con.max # Absent => v <= con.max
                    /\ con.min # Absent => v >= con.min
                    /\ v \notin Forbids(con)}

(* Every kind of constraint the baseline has, the candidate has too. *)
NothingDropped(bc, cc) == \A k \in DOMAIN bc : bc[k] # Absent => cc[k] # Absent

(* The candidate's grant lets through a value the baseline's held back. *)
LetsMoreThrough(bc, cc) == Permitted(cc) \ Permitted(bc) # {}

(* What the approver of a pending change is shown is right about the rules
   whose kinds of constraint are all kept: a rule that lets more through is
   among the widened ones (where its agent has one rule), and two rules whose
   invariants are reported as held do not let more through.  A bound that is
   dropped altogether, the widest change, is reported by neither. *)
ShownIsRight ==
    \A q \in {r \in Requests : request[r] # Absent /\ request[r].status = "pending"} :
       LET b == request[q].base  c == request[q].cand
           single(p, agent) == Cardinality({i \in DOMAIN p : p[i].agent = agent}) = 1
       IN
       /\ \A r \in Changed(b, c) :
             LET bc == ByKey(b, Key(r)).c IN
             single(b, r.agent) /\ single(c, r.agent) /\ NothingDropped(bc, r.c)
                /\ LetsMoreThrough(bc, r.c) => r.id \in request[q].artefact.widened
       /\ \A x \in Pairs(b, c) :
             (\A row \in Rows(b, c) : row.base = x[1] /\ row.cand = x[2] => row.holds)
             /\ x[1].c # Unconstrained /\ b # <<>> /\ NothingDropped(x[1].c, x[2].c)
                => ~LetsMoreThrough(x[1].c, x[2].c)

(* Several operators decide, and whatever they do every receipt of a request
   is about the artefact that was requested.  A request has one verdict: no
   second one is in the receipts and none that was denied there is approved,
   used or expired afterwards, unless two of them found it pending before
   either had written its verdict, the one way around decide's test
   (ActivationApprovalManager.decide and consume, decide_activation). *)
OneVerdict ==
    \A i, j \in DOMAIN trail :
       trail[i][2] = trail[j][2] =>
          /\ trail[i][3] = trail[j][3]
          /\ trail[i][2] \notin contended =>
                /\ i # j => "activation_requested" \in {trail[i][1], trail[j][1]}
                /\ trail[i][1] = "denied" => request[trail[i][2]].status = "denied"
=============================================================================
