----------------------------- MODULE Verifiers -----------------------------
(***************************************************************************)
(* The verifiers that stand apart from the gate and must come to its       *)
(* conclusions: standards/cap-verifier, the independent reading of a       *)
(* cap:v1 token, and conformance.py, which re-checks a receipt's           *)
(* constraints against the arguments an operator discloses from a Merkle   *)
(* commitment.  Tokens, constraints, calls and the gate are Capability's.  *)
(***************************************************************************)
EXTENDS Capability

(* A text is a file URI or it is not and has parts, and no value list names
   the Word. *)
Text(text) == text.file \in BOOLEAN /\ text.path \in Seq(Range(text.path))

Shaped(c) ==
    /\ \A x \in DOMAIN c.starts : Text(c.starts[x])
    /\ \A x \in DOMAIN c.allowed : Word \notin DOMAIN c.allowed[x]

ASSUME ShapeAssumption ==
    /\ \A g \in Grants : Shaped(g.cons)
    /\ \A a \in Asks : Shaped(a.extra)
    /\ \A call \in Calls : \A x \in DOMAIN call.args.texts : Text(call.args.texts[x])

----------------------------------------------------------------------------
(* cap-verifier *)

(* _check_constraints: prefixes are compared as they stand. *)
LiteralConstraints(c, args) ==
    /\ \A x \in DOMAIN c.forbidden \cap Present(args) :
           Scalars(args, x) \cap DOMAIN c.forbidden[x] = {}
    /\ \A x \in DOMAIN c.allowed : HasNumbers(args, x) /\ Scalars(args, x) \subseteq DOMAIN c.allowed[x]
    /\ \A x \in DOMAIN c.starts : x \in DOMAIN args.texts /\ Begins(args.texts[x], c.starts[x])
    /\ \A x \in DOMAIN c.max : HasNumbers(args, x) /\ \A v \in Scalars(args, x) : v <= c.max[x]
    /\ \A x \in DOMAIN c.min : HasNumbers(args, x) /\ \A v \in Scalars(args, x) : v >= c.min[x]
    /\ Listed(c.required) \subseteq Present(args)
    /\ \A combo \in Listed(c.combos) : ~(DOMAIN combo \subseteq Present(args))

(* token_body: the signed bytes it rebuilds have no intent and no acting_for,
   so that the signature of a token that has one does not verify. *)
BodyMatches(t) == t.intent = {} /\ t.actingFor = None

(* _verify_token_impl, the eight checks; a token with a parent is refused. *)
CapVerifierAccepts_Descendants(t, call) ==   \* wrong: the chain check is left out
    /\ t.trusted /\ BodyMatches(t)
    /\ t.nbf <= now /\ now < t.exp
    /\ t.tool = call.tool
    /\ call.agent # None => Covers(t.agent, call.agent)
    /\ LiteralConstraints(t.cons, call.args)

CapVerifierAccepts(t, call) ==
    /\ t.trusted /\ BodyMatches(t)
    /\ t.nbf <= now /\ now < t.exp
    /\ t.tool = call.tool
    /\ call.agent # None => Covers(t.agent, call.agent)
    /\ t.parent = 0
    /\ LiteralConstraints(t.cons, call.args)

----------------------------------------------------------------------------
(* conformance.recheck_constraints *)

Verdict(states) ==
    IF "raises" \in states THEN "RAISES"
    ELSE IF "fails" \in states THEN "VIOLATED"
    ELSE IF "undisclosed" \in states THEN "UNKNOWN"
    ELSE "SATISFIED"

Outcome(holds) == IF holds THEN "passes" ELSE "fails"

(* The one value of a disclosed field. *)
Disclosed(args, x) == CHOOSE v \in Scalars(args, x) : TRUE

(* _starts_with_any takes the prefix for a list of prefixes: one character of
   it at the front of the value is enough. *)
StartsWithAny(text, prefix) ==
    IF text.file THEN prefix.file ELSE text.path # <<>> /\ text.path[1] \in Range(prefix.path)

(* The evaluators' state for one field.  A bound compared with a text raises. *)
FieldState(c, args, kind, x) ==
    LET v == Disclosed(args, x) IN
    IF x \notin Present(args) THEN "undisclosed"
    ELSE IF kind \in {"max", "min"} /\ v = Word THEN "raises"
    ELSE CASE kind = "allowed" -> Outcome(v \in DOMAIN c.allowed[x])
      [] kind = "forbidden" -> Outcome(v \notin DOMAIN c.forbidden[x])
      [] kind = "max"       -> Outcome(v <= c.max[x])
      [] kind = "min"       -> Outcome(v >= c.min[x])
      [] kind = "starts"    -> Outcome(x \in DOMAIN args.texts /\ StartsWithAny(args.texts[x], c.starts[x]))

(* _recheck_evaluated_kinds *)
RecheckKind_Lenient(c, args, kind) ==   \* wrong: what is not disclosed is passed over
    Verdict({FieldState(c, args, kind, x) : x \in DOMAIN c[kind] \cap Present(args)})

RecheckKind(c, args, kind) ==
    Verdict({FieldState(c, args, kind, x) : x \in DOMAIN c[kind]})

(* _recheck_required_present *)
RecheckRequired(c, args) ==
    IF Listed(c.required) \subseteq Present(args) THEN "SATISFIED" ELSE "UNKNOWN"

(* _recheck_forbidden_combinations: a combination counts only when the values
   are truthy, which 0 and an empty list are not. *)
Truthy(args, x) == x \in DOMAIN args.texts \/ args.lists[x] \notin {{}, {0}}

RecheckCombos(c, args) ==
    LET Combo(k) == IF ~(DOMAIN k \subseteq Present(args)) THEN "UNKNOWN"
                    ELSE IF \A x \in DOMAIN k : Truthy(args, x) THEN "VIOLATED" ELSE "SATISFIED"
        all == {Combo(k) : k \in Listed(c.combos)}
    IN  IF "VIOLATED" \in all THEN "VIOLATED" ELSE IF all \subseteq {"SATISFIED"} THEN "SATISFIED" ELSE "UNKNOWN"

(* recheck_constraints: every kind's result. *)
Recheck(c, args) ==
    {RecheckKind(c, args, kind) : kind \in {"allowed", "forbidden", "max", "min", "starts"}}
    \cup {RecheckRequired(c, args), RecheckCombos(c, args)}

(* A disclosure shows some of the fields of the call. *)
Restricted(args, fields) ==
    [lists |-> [x \in DOMAIN args.lists \cap fields |-> args.lists[x]],
     texts |-> [x \in DOMAIN args.texts \cap fields |-> args.texts[x]]]

----------------------------------------------------------------------------
(* conformance.commit_args and verify_disclosure.  A digest is the term it is
   the hash of; leaves and nodes are domain-separated. *)

Leaf(entry) == [leaf |-> entry]
Node(l, r) == [left |-> l, right |-> r]

(* _fold_level: the odd node out is paired with itself. *)
FoldLevel(level) ==
    [i \in 1 .. ((Len(level) + 1) \div 2) |->
        Node(level[2 * i - 1], IF 2 * i <= Len(level) THEN level[2 * i] ELSE level[2 * i - 1])]

Leaves(entries) == [i \in 1 .. Len(entries) |-> Leaf(entries[i])]

(* Levels(entries)[k]: the tree's k-th level, leaves first. *)
Levels(entries) ==
    LET depth == CHOOSE d \in 0 .. Len(entries) : 2 ^ d >= Len(entries) /\ (d = 0 \/ 2 ^ (d - 1) < Len(entries))
        up[k \in 1 .. depth + 1] == IF k = 1 THEN Leaves(entries) ELSE FoldLevel(up[k - 1])
    IN  up

(* commit_args *)
Commit(entries) ==
    IF entries = <<>> THEN Leaf("empty") ELSE LET up == Levels(entries) IN up[Len(up)][1]

(* disclosure_path of the i-th field: the siblings on the way up, and on which
   side they are. *)
DisclosurePath_NoPairing(entries, i) ==   \* wrong: the odd node out goes up without a sibling
    LET up == Levels(entries)
        at(k) == (i - 1) \div (2 ^ (k - 1))
        Sibling(k) == IF at(k) % 2 = 1 THEN <<[left |-> TRUE, digest |-> up[k][at(k)]]>>
                      ELSE IF at(k) + 2 <= Len(up[k]) THEN <<[left |-> FALSE, digest |-> up[k][at(k) + 2]]>>
                      ELSE <<>>
    IN  FlattenSeq([k \in 1 .. Len(up) - 1 |-> Sibling(k)])

DisclosurePath(entries, i) ==
    LET up == Levels(entries)
        at(k) == (i - 1) \div (2 ^ (k - 1))
        Sibling(k) == IF at(k) % 2 = 1 THEN [left |-> TRUE, digest |-> up[k][at(k)]]
                      ELSE [left |-> FALSE,
                            digest |-> IF at(k) + 2 <= Len(up[k]) THEN up[k][at(k) + 2] ELSE up[k][at(k) + 1]]
    IN  [k \in 1 .. Len(up) - 1 |-> Sibling(k)]

(* _assert_leaf_reaches_root *)
ReachesRoot(entry, path, root) ==
    LET Up_(d, s) == IF s.left THEN Node(s.digest, d) ELSE Node(d, s.digest)
    IN  FoldLeft(Up_, Leaf(entry), path) = root

----------------------------------------------------------------------------
(* Properties *)

(* Nothing in the call's texts or the token's prefixes has a dot segment to
   resolve: there the gate and the verifier read a prefix differently. *)
NoDotSegments(t, call) ==
    Plain(t.cons) /\ \A x \in DOMAIN call.args.texts : Up \notin Range(call.args.texts[x].path)

(* cap-verifier, "cross-validating the main implementation by an independent
   code path", accepts a root token for a call exactly when the gate's own
   checks of identity, time, binding and constraints do, where neither
   revocation nor proofs come in; it never accepts a token that has a parent,
   a user or an intent (_verify_token_impl against CapabilityGate.check). *)
VerifierAgrees(i) ==
    \A call \in Calls :
        LET t == toks[i]
            gate == t.trusted /\ t.nbf <= now /\ now < t.exp /\ Bound(t, call) /\ InIntent(t, call)
        IN  /\ CapVerifierAccepts(t, call) => t.parent = 0 /\ BodyMatches(t)
            /\ t.parent = 0 /\ BodyMatches(t) /\ NoDotSegments(t, call)
                 => (CapVerifierAccepts(t, call) <=> gate)

(* Arguments that are one value each. *)
AllSingle(args) == \A x \in DOMAIN args.lists : \E v \in {0, 1, 2, 3, Word} : args.lists[x] = {v}

(* A prefix has a character to be compared with. *)
NoEmptyPrefix(c) == \A x \in DOMAIN c.starts : c.starts[x].file \/ c.starts[x].path # <<>>

(* recheck_constraints against what the gate decided on the whole call, for
   arguments of one value: a VIOLATED is only reported on a call the gate
   refuses, whatever was disclosed, where no prefix is empty (every text
   starts with the empty one, and with no character of it); and when
   everything was disclosed and every kind is SATISFIED, the gate accepts,
   prefixes and combinations of fields with falsy values apart. *)
RecheckFair(i) ==
    \A call \in Calls :
        LET c == toks[i].cons IN
        AllSingle(call.args) =>
            /\ \A fields \in SUBSET Present(call.args) :
                  "VIOLATED" \in Recheck(c, Restricted(call.args, fields))
                      /\ NoDotSegments(toks[i], call) /\ NoEmptyPrefix(c)
                      => ~CheckConstraints(c, call.args)
            /\ Recheck(c, call.args) = {"SATISFIED"} /\ c.starts = <<>>
                 /\ (\A x \in Present(call.args) : Truthy(call.args, x))
                 => CheckConstraints(c, call.args)

(* On the newest token, where the gate is not told more than the verifiers
   are: cap-verifier accepts a root token for a call exactly when the gate's
   own checks do, and no token with a parent, a user or an intent; a re-check
   of disclosed arguments reports VIOLATED only for calls the gate refuses,
   and SATISFIED throughout only for calls it accepts. *)
VerifiersConcur ==
    /\ toks # <<>> /\ registered = {} /\ revoked = {} => VerifierAgrees(Len(toks))
    /\ Len(toks) = 1 /\ registered = {} /\ now = 0 => RecheckFair(1)

(* What an operator discloses verifies against the commitment, and nothing
   else does: a field and value that reach the root along any field's path
   are in the call (disclosure_path, verify_disclosure), for every number of
   fields, powers of two or not. *)
DisclosureBinds(entries, others) ==
    \A i \in 1 .. Len(entries) :
        /\ ReachesRoot(entries[i], DisclosurePath(entries, i), Commit(entries))
        /\ \A e \in others :
              ReachesRoot(e, DisclosurePath(entries, i), Commit(entries)) => e \in Range(entries)
=============================================================================
