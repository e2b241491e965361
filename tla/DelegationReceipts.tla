------------------------- MODULE DelegationReceipts -------------------------
(***************************************************************************)
(* Delegation receipts of other profiles that raucle verifies: the DRP     *)
(* chain (nelson14.py) with its revocation registry and its consumption    *)
(* store, and the authorisation evidence chain (epaec.py) with its         *)
(* requirement language.                                                   *)
(*                                                                         *)
(* A receipt is signed bytes and its id is their hash, so a receipt cannot *)
(* cite itself or a later one; what it cites may still be missing.         *)
(***************************************************************************)
EXTENDS Naturals, Sequences, FiniteSets, SequencesExt

CONSTANTS
    Bodies,       \* bodies a receipt may be issued with, parent apart
    Unknown,      \* an id nothing is stored under
    MaxReceipts,  \* bound: receipts
    MaxDepth,     \* verify's max_depth
    Verifiers,    \* callers that verify and then consume
    MaxVerified,  \* bound: verifications
    MaxRevoked    \* bound: revocations

VARIABLES
    store,     \* receipts, by id: what parent_lookup finds
    attached,  \* [id -> bindings <<parent, child, key>>]: orchestrator signatures
    revoked,   \* ids the registry reports as revoked
    registry,  \* "none", "unchecked" or "checked"
    pending,   \* [Verifiers -> verdict still to be consumed, or <<>>]
    consumed,  \* keys in the consumption store
    accepted,  \* receipts acted on, each with what was known when it was verified
    count      \* verifications so far

vars == <<store, attached, revoked, registry, pending, consumed, accepted, count>>

Ids == DOMAIN store

Init ==
    /\ store = <<>>
    /\ attached = <<>>
    /\ revoked = {}
    /\ registry \in {"none", "unchecked", "checked"}
    /\ pending = [v \in Verifiers |-> <<>>]
    /\ consumed = {}
    /\ accepted = {}
    /\ count = 0

-----------------------------------------------------------------------------
(* nelson14.verify *)

(* verify_jws and check_instructions: the header, the exact body fields, the
   canonical form, the signature under key_for, the instructions' digest. *)
JwsHolds(r) == r.signed /\ r.instructions

(* _child_window_in_parent *)
WindowIn(c, p) == p.from <= c.from /\ p.to >= c.to

(* check_attenuation: scope is compared only when it is machine-readable. *)
Attenuates_AnySubset(p, c) ==   \* wrong: the denied actions may be dropped
    /\ (p.scope = {}) = (c.scope = {})
    /\ p.scope # {} => c.scope \subseteq p.scope /\ Cardinality(c.scope) < Cardinality(p.scope)

Attenuates(p, c) ==
    /\ (p.scope = {}) = (c.scope = {})
    /\ p.scope # {} =>
          /\ p.denied \subseteq c.denied
          /\ c.scope \subseteq p.scope
          /\ Cardinality(c.scope) < Cardinality(p.scope)

(* verify_orchestrator_binding: over this parent and this child, by the key
   the child's body names; the child's attachment is looked for first. *)
BindingHolds(i) ==
    LET found == IF attached[i] # {} THEN attached[i]
                 ELSE IF store[i].parent \in Ids THEN attached[store[i].parent] ELSE {}
    IN  \E b \in found : b = <<store[i].parent, i, store[i].key>>

(* One turn of the walk from receipt i to its parent. *)
LinkHolds(i) ==
    LET p == store[i].parent IN
    /\ p \in Ids
    /\ JwsHolds(store[p])
    /\ WindowIn(store[i], store[p])
    /\ Attenuates(store[p], store[i])
    /\ BindingHolds(i)

(* The ids from i up to its root, or <<>> when the walk stops short: a link
   fails, or a receipt with a parent is the max_depth-th. *)
Walk(i) ==
    LET Upward(path) == IF path = <<>> \/ store[Last(path)].parent = 0 THEN path
                        ELSE IF Len(path) >= MaxDepth \/ ~LinkHolds(Last(path)) THEN <<>>
                        ELSE Append(path, store[Last(path)].parent)
        at[n \in 0 .. MaxDepth] == IF n = 0 THEN <<i>> ELSE Upward(at[n - 1])
    IN  IF JwsHolds(store[i]) THEN at[MaxDepth] ELSE <<>>

(* Cascade revocation, fail-closed where a receipt requires the check. *)
RevocationClear(chain) ==
    \A i \in Range(chain) :
        /\ registry = "none" => ~store[i].revocationRequired
        /\ registry # "none" =>
              /\ i \notin revoked
              /\ store[i].revocationRequired => registry = "checked"

(* consume_key *)
ConsumeKey(i) == <<i, store[i].nonce>>

-----------------------------------------------------------------------------
(* Actions *)

(* issue_receipt, or another issuer's signature over any body. *)
Issue(b, parent) ==
    /\ Len(store) < MaxReceipts
    /\ store' = Append(store, [b EXCEPT !.parent = parent])
    /\ attached' = Append(attached, {})
    /\ UNCHANGED <<revoked, registry, pending, consumed, accepted, count>>

(* sign_orchestrator_binding, for the receipt's own parent or another one. *)
SignBinding(i, parent, key) ==
    /\ attached[i] = {}
    /\ attached' = [attached EXCEPT ![i] = {<<parent, i, key>>}]
    /\ UNCHANGED <<store, revoked, registry, pending, consumed, accepted, count>>

Revoke(i) ==
    /\ registry # "none"
    /\ i \notin revoked
    /\ Cardinality(revoked) < MaxRevoked
    /\ revoked' = revoked \cup {i}
    /\ UNCHANGED <<store, attached, registry, pending, consumed, accepted, count>>

(* verify: a one-time receipt is checked against the store here and consumed
   by the caller later; any other is good at once. *)
Verify(v, i) ==
    LET chain == Walk(i)
        passed == [by |-> v, chain |-> chain, revoked |-> revoked, n |-> count + 1]
    IN
    /\ pending[v] = <<>>
    /\ count < MaxVerified
    /\ chain # <<>>
    /\ RevocationClear(chain)
    /\ store[i].oneTime => ConsumeKey(i) \notin consumed
    /\ count' = count + 1
    /\ IF store[i].oneTime
       THEN pending' = [pending EXCEPT ![v] = <<passed>>] /\ UNCHANGED accepted
       ELSE accepted' = accepted \cup {passed} /\ UNCHANGED pending
    /\ UNCHANGED <<store, attached, revoked, registry, consumed>>

(* ConsumptionStore.consume: atomic, and the caller acts only on True. *)
Consume_Again(v) ==   \* wrong: the answer of the store is not looked at
    LET key == ConsumeKey(pending[v][1].chain[1]) IN
    /\ pending[v] # <<>>
    /\ consumed' = consumed \cup {key}
    /\ accepted' = accepted \cup {pending[v][1]}
    /\ pending' = [pending EXCEPT ![v] = <<>>]
    /\ UNCHANGED <<store, attached, revoked, registry, count>>

Consume(v) ==
    LET key == ConsumeKey(pending[v][1].chain[1]) IN
    /\ pending[v] # <<>>
    /\ consumed' = consumed \cup {key}
    /\ accepted' = IF key \in consumed THEN accepted ELSE accepted \cup {pending[v][1]}
    /\ pending' = [pending EXCEPT ![v] = <<>>]
    /\ UNCHANGED <<store, attached, revoked, registry, count>>

(* Receipts come parents first, each under the one before it or an id nothing
   is stored under, and a binding is signed, by the right key or another,
   before the next receipt: neither is read until Verify. *)
Next ==
    \/ \E b \in Bodies, p \in {Len(store), Unknown} : Issue(b, p)
    \/ \E i \in Ids, key \in {"k", "other"} :
         /\ i = Len(store) /\ store[i].parent # 0
         /\ SignBinding(i, store[i].parent, key)
    \/ \E i \in Ids : Revoke(i)
    \/ \E i \in Ids, v \in Verifiers : Verify(v, i)
    \/ \E v \in Verifiers : Consume(v)

Spec == Init /\ [][Next]_vars

-----------------------------------------------------------------------------
(* epaec: the requirement language over verified components. *)

RECURSIVE ParseRequirement(_, _, _, _), ParseTerm(_, _, _, _), MoreTerms(_, _, _, _)

(* _parse_term: position and value, or an error. *)
ParseTerm(tokens, pos, depth, sat) ==
    IF pos > Len(tokens) THEN [ok |-> FALSE]
    ELSE IF tokens[pos] = "(" THEN
        LET inner == ParseRequirement(tokens, pos + 1, depth + 1, sat) IN
        IF ~inner.ok \/ inner.pos > Len(tokens) THEN [ok |-> FALSE]
        ELSE IF tokens[inner.pos] # ")" THEN [ok |-> FALSE]
        ELSE [ok |-> TRUE, pos |-> inner.pos + 1, value |-> inner.value]
    ELSE IF tokens[pos] \in {"AND", "OR", ")"} THEN [ok |-> FALSE]
    ELSE [ok |-> TRUE, pos |-> pos + 1, value |-> tokens[pos] \in sat]

(* The loop of _parse_requirement: AND and OR bind alike, from the left. *)
MoreTerms(tokens, left, depth, sat) ==
    IF ~left.ok \/ left.pos > Len(tokens) THEN left
    ELSE IF tokens[left.pos] \notin {"AND", "OR"} THEN left
    ELSE LET right == ParseTerm(tokens, left.pos + 1, depth, sat) IN
         IF ~right.ok THEN right
         ELSE MoreTerms(tokens,
                [ok |-> TRUE, pos |-> right.pos,
                 value |-> IF tokens[left.pos] = "AND" THEN left.value /\ right.value
                           ELSE left.value \/ right.value], depth, sat)

(* _parse_requirement *)
ParseRequirement(tokens, pos, depth, sat) ==
    IF depth > MaxDepth THEN [ok |-> FALSE]
    ELSE MoreTerms(tokens, ParseTerm(tokens, pos, depth, sat), depth, sat)

(* evaluate_requirement: the empty requirement and trailing tokens are errors. *)
EvaluateRequirement_Prefix(tokens, sat) ==   \* wrong: trailing tokens are ignored
    LET r == ParseRequirement(tokens, 1, 0, sat) IN
    IF r.ok THEN [ok |-> TRUE, value |-> r.value] ELSE [ok |-> FALSE, value |-> FALSE]

EvaluateRequirement(tokens, sat) ==
    LET r == ParseRequirement(tokens, 1, 0, sat) IN
    IF r.ok /\ r.pos = Len(tokens) + 1 THEN [ok |-> TRUE, value |-> r.value]
    ELSE [ok |-> FALSE, value |-> FALSE]

(* _verify_component: a component counts when its verifier accepts it and it
   is bound to this very action. *)
ComponentHolds(comp, registered, digest) ==
    comp.type \in registered /\ comp.valid /\ comp.bound = digest

(* _walk_components: a component that counts satisfies its type and its label. *)
Satisfied(comps, registered, digest) ==
    LET good == {c \in Range(comps) : ComponentHolds(c, registered, digest)}
    IN  {c.type : c \in good} \cup ({c.label : c \in good} \ {""})

(* validate_chain and _check_declared_digest; declared "" is left out. *)
ChainWellFormed(comps, declared, digest) ==
    /\ comps # <<>>
    /\ IsInjective([k \in DOMAIN comps |-> comps[k].type])
    /\ declared \in {"", digest}

(* verify_chain *)
VerifyEvidence(comps, registered, declared, digest, tokens) ==
    LET r == EvaluateRequirement(tokens, Satisfied(comps, registered, digest))
        allow == ChainWellFormed(comps, declared, digest) /\ r.ok /\ r.value
    IN  [decision |-> IF allow THEN "ALLOW" ELSE "DENY",
         overall |-> IF allow /\ \A c \in Range(comps) :
                             c.type \in registered => ComponentHolds(c, registered, digest)
                     THEN "PASS" ELSE "FAIL"]

-----------------------------------------------------------------------------
(* Properties *)

TypeOK ==
    /\ Len(store) = Len(attached)
    /\ Len(store) <= MaxReceipts
    /\ revoked \subseteq Ids
    /\ \A a \in accepted : Range(a.chain) \subseteq Ids
    /\ count \in 0 .. MaxVerified

(* Whatever chain was accepted, the receipt acted on is inside every ancestor:
   narrower in scope than each, denying all they deny, within their windows,
   each signed, bound to its parent, none revoked when it was verified, and no
   longer than max_depth (nelson14.verify checks neighbours only). *)
ChainNarrows ==
    \A a \in accepted :
        LET leaf == store[a.chain[1]] IN
        /\ Len(a.chain) <= MaxDepth
        /\ store[Last(a.chain)].parent = 0
        /\ \A i \in Range(a.chain) : store[i].signed /\ i \notin a.revoked
        /\ \A k \in 2 .. Len(a.chain) :
              LET up == store[a.chain[k]] IN
              /\ up.from <= leaf.from /\ leaf.to <= up.to
              /\ up.scope # {} => /\ leaf.scope \subseteq up.scope /\ leaf.scope # up.scope
                                  /\ up.denied \subseteq leaf.denied

(* A one-time receipt is acted on once, however many callers passed the
   check of the store before the first of them consumed it. *)
ConsumedOnce ==
    \A a, b \in accepted :
        /\ store[a.chain[1]].oneTime /\ store[b.chain[1]].oneTime
        /\ ConsumeKey(a.chain[1]) = ConsumeKey(b.chain[1])
        => a = b

(* The requirement language, against its grammar: the token strings that are
   not errors are exactly the flattenings of trees no deeper than the limit,
   and the value is the tree's.  Trees are generated level by level. *)
Combine(l, op, r) == IF op = "AND" THEN l /\ r ELSE l \/ r

Paired(terms, len) ==
    LET Grow(S) == S \cup {e \in {[tokens |-> x.tokens \o <<op>> \o t.tokens,
                                  value |-> Combine(x.value, op, t.value)] :
                                     x \in S, op \in {"AND", "OR"}, t \in terms} :
                              Len(e.tokens) <= len}
        at[n \in 0 .. len] == IF n = 0 THEN terms ELSE Grow(at[n - 1])
    IN  at[len \div 2]

Wrapped(exprs, len) ==
    {e \in {[tokens |-> <<"(">> \o x.tokens \o <<")">>, value |-> x.value] : x \in exprs} :
        Len(e.tokens) <= len}

RequirementExact(idents, sat, len) ==
    LET words == {[tokens |-> <<w>>, value |-> w \in sat] : w \in idents}
        level[d \in 0 .. MaxDepth] ==
            IF d = 0 THEN Paired(words, len)
            ELSE Paired(words \cup Wrapped(level[d - 1], len), len)
        meant == level[MaxDepth]
    IN  \A tokens \in UNION {[1 .. n -> idents \cup {"AND", "OR", "(", ")"}] : n \in 0 .. len} :
            LET r == EvaluateRequirement(tokens, sat) IN
            /\ r.ok <=> \E m \in meant : m.tokens = tokens
            /\ \A m \in meant : m.tokens = tokens => r.value = m.value

(* Evidence can only help: a chain that is allowed stays allowed when one more
   component verifies, and what is allowed names, by type or by label, only
   components that verified for this action. *)
EvidenceMonotone(comps, registered, digest, tokens) ==
    LET d(cs) == VerifyEvidence(cs, registered, "", digest, tokens).decision
        better(k) == [comps EXCEPT ![k].valid = TRUE, ![k].bound = digest]
    IN  /\ \A k \in DOMAIN comps : d(comps) = "ALLOW" => d(better(k)) = "ALLOW"
        /\ d(comps) = "ALLOW" => \E c \in Range(comps) : c.valid /\ c.bound = digest
        /\ VerifyEvidence(comps, registered, "other", digest, tokens).decision = "DENY"
=============================================================================
