----------------------------- MODULE Capability -----------------------------
(***************************************************************************)
(* Capability tokens (raucle/capability.py): minting, attenuation and the  *)
(* check of the gate, which re-verifies the chain a token presents.        *)
(*                                                                         *)
(* A token is its place in toks.  Besides mint and attenuate a child may   *)
(* be signed by an issuer the gate trusts that does not go through         *)
(* attenuate, or by a key it does not trust: the chain check is there for  *)
(* these.  The gate's check changes nothing, so it is an operator, and the *)
(* properties speak of every call in every state.                          *)
(*                                                                         *)
(* Constraints are partial functions from field names, as the JSON objects *)
(* are, but that an object without entries counts as one left out.  A list *)
(* is the bag of its elements: it is sorted before it is compared, so only *)
(* how often each occurs is told apart.  The list of required fields and   *)
(* the list of field combinations, themselves lists of fields, are sets of *)
(* at most one such bag, none when the key is left out.  A text is a       *)
(* sequence of parts, Up is a parent-directory part.  An agent id is the   *)
(* sequence of its dot-separated parts.  An intent, the constraints of an  *)
(* intent (empty ones count as none) and the policy a token is bound to    *)
(* may be left out: each is a set of at most one.                          *)
(***************************************************************************)
EXTENDS Integers, Sequences, SequencesExt

CONSTANTS
    Grants,     \* what a token may be minted with
    Asks,       \* what an attenuation may be asked for
    Calls,      \* calls: tool, agent, acting-for user, arguments
    Proofs,     \* Proofs[p]: status of a proof and the constraints it is about
    Known,      \* proofs in the gate's trusted_proofs
    Up,         \* ".."
    None,       \* nothing supplied
    Word,       \* a scalar that is not a number and that no value list names
    MaxTokens,  \* bound: tokens
    MaxTime     \* bound: the clock

(* The bounds of a constraint are numbers. *)
NumericBounds(c) == \A f \in {c.max, c.min} : \A x \in DOMAIN f : f[x] \in Int

NumericIntents(intents) == \A n \in intents : \A c \in n.cons : NumericBounds(c)

ASSUME CapabilityAssumption ==
    /\ Known \subseteq DOMAIN Proofs
    /\ {MaxTokens, MaxTime} \subseteq Nat
    /\ \A g \in Grants : {g.ttl, g.delay} \subseteq Int /\ NumericBounds(g.cons)
    /\ \A a \in Asks : (a.ttl = None \/ a.ttl \in Int) /\ NumericBounds(a.extra)
    /\ \A x \in Grants \cup Asks : NumericIntents(x.intent)
    /\ \A call \in Calls : \A x \in DOMAIN call.args.lists : call.args.lists[x] \subseteq Int \cup {Word}

VARIABLES
    toks,        \* tokens issued, oldest first
    registered,  \* tokens the parent_resolver finds
    revoked,     \* the gate's denylist
    now,         \* the clock
    config       \* proof mode of the gate, require_proof of the issuer

vars == <<toks, registered, revoked, now, config>>

----------------------------------------------------------------------------
(* Constraints *)

Lower(a, b) == IF a < b THEN a ELSE b
Higher(a, b) == IF a > b THEN a ELSE b
Later(a, b) == b

(* Two partial functions as one, Both where they overlap. *)
Merged(f, g, Both(_, _)) ==
    [x \in DOMAIN f \cup DOMAIN g |->
        IF x \notin DOMAIN g THEN f[x] ELSE IF x \notin DOMAIN f THEN g[x] ELSE Both(f[x], g[x])]

(* The list with every value of S once.  A list nobody merged keeps its
   duplicates when it is normalised; union and intersection drop them. *)
Once(S) == [v \in S |-> 1]
UnionValues(a, b) == Once(DOMAIN a \cup DOMAIN b)
IntersectValues(a, b) == Once(DOMAIN a \cap DOMAIN b)
Deduplicated(f) == [x \in DOMAIN f |-> Once(DOMAIN f[x])]

(* Lists of field names or of combinations: the parent's is kept as it is,
   duplicates too, unless the child has the key. *)
Listed(ls) == UNION {DOMAIN l : l \in ls}
MergedLists(p, e) == IF e = {} THEN p ELSE {Once(Listed(p) \cup Listed(e))}

(* s is a prefix of t. *)
Leads(s, t) == \A i \in DOMAIN s : i \in DOMAIN t /\ t[i] = s[i]

(* str.startswith *)
Begins(text, prefix) == text.file = prefix.file /\ Leads(prefix.path, text.path)

(* _merge_starts_with: refused unless the child's prefix extends the parent's. *)
PrefixesMerge(p, e) == \A x \in DOMAIN p.starts \cap DOMAIN e.starts : Begins(e.starts[x], p.starts[x])

MergeNarrowing_Looser(p, e) ==   \* wrong: the larger of two upper bounds
    [forbidden |-> Merged(p.forbidden, Deduplicated(e.forbidden), UnionValues),
     allowed   |-> Merged(p.allowed, Deduplicated(e.allowed), IntersectValues),
     starts    |-> Merged(p.starts, e.starts, Later),
     max       |-> Merged(p.max, e.max, Higher),
     min       |-> Merged(p.min, e.min, Higher),
     required  |-> MergedLists(p.required, e.required),
     combos    |-> MergedLists(p.combos, e.combos)]

(* _merge_narrowing, where PrefixesMerge holds. *)
MergeNarrowing(p, e) ==
    [forbidden |-> Merged(p.forbidden, Deduplicated(e.forbidden), UnionValues),
     allowed   |-> Merged(p.allowed, Deduplicated(e.allowed), IntersectValues),
     starts    |-> Merged(p.starts, e.starts, Later),
     max       |-> Merged(p.max, e.max, Lower),
     min       |-> Merged(p.min, e.min, Higher),
     required  |-> MergedLists(p.required, e.required),
     combos    |-> MergedLists(p.combos, e.combos)]

(* _assert_narrowing *)
AssertNarrowing(p, c) ==
    /\ \A x \in DOMAIN p.allowed \cap DOMAIN c.allowed : DOMAIN c.allowed[x] \subseteq DOMAIN p.allowed[x]
    /\ \A x \in DOMAIN p.forbidden \cap DOMAIN c.forbidden : DOMAIN p.forbidden[x] \subseteq DOMAIN c.forbidden[x]
    /\ \A x \in DOMAIN p.max \cap DOMAIN c.max : c.max[x] <= p.max[x]
    /\ \A x \in DOMAIN p.min \cap DOMAIN c.min : c.min[x] >= p.min[x]

(* _canonical_file_uri: dot segments are resolved, never above the root. *)
Resolved(path) ==
    LET Step(done, part) == IF part # Up THEN Append(done, part)
                            ELSE IF done = <<>> THEN done ELSE Front(done)
    IN  FoldLeft(Step, <<>>, path)

Canonical(path) == IF Up \in Range(path) THEN Resolved(path) ELSE path

(* _check_starts_with on one text. *)
StartsWith(text, prefix) ==
    IF text.file /\ prefix.file
    THEN Leads(Canonical(prefix.path), Canonical(text.path))
    ELSE Begins(text, prefix)

Present(args) == DOMAIN args.lists \cup DOMAIN args.texts

(* _flatten_scalars *)
Scalars(args, x) == IF x \in DOMAIN args.texts THEN {Word} ELSE args.lists[x]

(* The field is there and has some value, and no scalar in it is a word. *)
HasNumbers(args, x) ==
    /\ x \in Present(args)
    /\ Scalars(args, x) # {}
    /\ Word \notin Scalars(args, x)

(* _check_constraints: positive and bound constraints fail closed. *)
CheckConstraints(c, args) ==
    /\ \A x \in DOMAIN c.forbidden \cap Present(args) :
           Scalars(args, x) \cap DOMAIN c.forbidden[x] = {}
    /\ \A x \in DOMAIN c.allowed : HasNumbers(args, x) /\ Scalars(args, x) \subseteq DOMAIN c.allowed[x]
    /\ \A x \in DOMAIN c.starts : x \in DOMAIN args.texts /\ StartsWith(args.texts[x], c.starts[x])
    /\ \A x \in DOMAIN c.max : HasNumbers(args, x) /\ \A v \in Scalars(args, x) : v <= c.max[x]
    /\ \A x \in DOMAIN c.min : HasNumbers(args, x) /\ \A v \in Scalars(args, x) : v >= c.min[x]
    /\ Listed(c.required) \subseteq Present(args)
    /\ \A combo \in Listed(c.combos) : ~(DOMAIN combo \subseteq Present(args))

----------------------------------------------------------------------------
(* Tokens.  made tells how a token came to be, line is the set of tokens it
   descends from. *)

Ids == DOMAIN toks

Line(p) == IF p = 0 THEN {} ELSE toks[p].line \cup {p}

(* An id or one below it. *)
Covers(agent, sub) == Leads(agent, sub)

Init ==
    /\ toks = <<>>
    /\ registered = {}
    /\ revoked = {}
    /\ now = 0
    /\ config \in [proofs : {"off", "lenient", "strict"}, strictIssuer : BOOLEAN]

(* mint, its proof requirements and _bind_proof_hashes. *)
Mint(g) ==
    /\ Len(toks) < MaxTokens
    /\ g.ttl > 0
    /\ config.strictIssuer => g.proof # None
    /\ g.proof # None => Proofs[g.proof].status = "PROVEN"
    /\ toks' = Append(toks,
          [made |-> "mint", parent |-> 0, line |-> {}, trusted |-> g.trusted,
           agent |-> g.agent, tool |-> g.tool, cons |-> g.cons,
           nbf |-> now + g.delay, exp |-> now + g.ttl, actingFor |-> g.actingFor,
           intent |-> g.intent, proof |-> g.proof,
           policy |-> {Proofs[q].about : q \in {g.proof} \ {None}}])
    /\ UNCHANGED <<registered, revoked, now, config>>

(* _narrow_agent_id *)
ChildAgent(p, a) == IF a.agent = None THEN p.agent ELSE a.agent

ChildActingFor_Asked(p, a) == a.actingFor   \* wrong: the pair is not inherited

(* _narrow_acting_for *)
ChildActingFor(p, a) == IF a.actingFor = None THEN p.actingFor ELSE a.actingFor

(* _narrow_intent: parts the child's own intent leaves out are not inherited. *)
IntentNarrows(p, a) ==
    \A m \in p.intent, n \in a.intent :
        /\ m.tools # None /\ n.tools # None => n.tools \subseteq m.tools
        /\ \A l \in m.cons, k \in n.cons :
              PrefixesMerge(l, k) /\ AssertNarrowing(l, MergeNarrowing(l, k))

Narrowed(n, above) ==
    [tools |-> n.tools,
     cons  |-> IF above = {} THEN n.cons
               ELSE {MergeNarrowing(l, k) : l \in above, k \in n.cons}]

ChildIntent(p, a) ==
    LET above == UNION {m.cons : m \in p.intent}
    IN  IF a.intent = {} THEN p.intent ELSE {Narrowed(n, above) : n \in a.intent}

(* _narrow_expiry *)
ChildExpiry(p, a) == IF a.ttl = None THEN p.exp ELSE now + a.ttl

ChildNotBefore_Now(p) == now   \* wrong: the child may be used before its parent

ChildNotBefore(p) == Higher(now, p.nbf)

ChildPolicy_Inherited(p) == p.policy   \* wrong: the parent's hashes are taken over

(* The parent's proof is cited, its hashes are not taken over. *)
ChildPolicy(p) == {}

(* attenuate: what the child would be, when no check refuses it. *)
Attenuate(i, a) ==
    LET p == toks[i] IN
    /\ Len(toks) < MaxTokens
    /\ now < p.exp
    /\ Covers(p.agent, ChildAgent(p, a))
    /\ PrefixesMerge(p.cons, a.extra)
    /\ AssertNarrowing(p.cons, MergeNarrowing(p.cons, a.extra))
    /\ p.actingFor = None \/ a.actingFor \in {None, p.actingFor}
    /\ IntentNarrows(p, a)
    /\ ChildExpiry(p, a) <= p.exp
    /\ toks' = Append(toks,
          [made |-> "attenuate", parent |-> i, line |-> Line(i), trusted |-> TRUE,
           agent |-> ChildAgent(p, a), tool |-> p.tool,
           cons |-> MergeNarrowing(p.cons, a.extra),
           nbf |-> ChildNotBefore(p), exp |-> ChildExpiry(p, a),
           actingFor |-> ChildActingFor(p, a), intent |-> ChildIntent(p, a),
           proof |-> p.proof, policy |-> ChildPolicy(p)])
    /\ UNCHANGED <<registered, revoked, now, config>>

(* A child signed elsewhere, that cites a parent it need not be narrower than. *)
SignedElsewhere(i, g) ==
    /\ Len(toks) < MaxTokens
    /\ toks' = Append(toks,
          [made |-> "elsewhere", parent |-> i, line |-> Line(i), trusted |-> g.trusted,
           agent |-> g.agent, tool |-> g.tool, cons |-> g.cons,
           nbf |-> now + g.delay, exp |-> now + g.ttl, actingFor |-> g.actingFor,
           intent |-> g.intent, proof |-> g.proof,
           policy |-> {Proofs[q].about : q \in {g.proof} \ {None}}])
    /\ UNCHANGED <<registered, revoked, now, config>>

(* The token becomes one the parent_resolver finds. *)
Register(i) ==
    /\ i \notin registered
    /\ registered' = registered \cup {i}
    /\ UNCHANGED <<toks, revoked, now, config>>

(* CapabilityGate.revoke *)
Revoke(i) ==
    /\ i \notin revoked
    /\ revoked' = revoked \cup {i}
    /\ UNCHANGED <<toks, registered, now, config>>

Tick ==
    /\ now < MaxTime
    /\ now' = now + 1
    /\ UNCHANGED <<toks, registered, revoked, config>>

Next ==
    \/ \E g \in Grants : Mint(g)
    \/ \E i \in Ids, a \in Asks : Attenuate(i, a)
    \/ \E i \in Ids, g \in Grants : SignedElsewhere(i, g)
    \/ \E i \in Ids : Register(i) \/ Revoke(i)
    \/ Tick

Spec == Init /\ [][Next]_vars

----------------------------------------------------------------------------
(* CapabilityGate.check *)

(* _check_token_identity; _check_revocation looks one link up. *)
Identified(t, i) ==
    /\ t.trusted
    /\ {i, t.parent} \cap revoked = {}
    /\ t.nbf <= now /\ now < t.exp

(* _check_tool_binding, _check_caller_identity, _check_call_args. *)
Bound(t, call) ==
    /\ t.tool = call.tool
    /\ call.agent # None => Covers(t.agent, call.agent)
    /\ t.actingFor # None => call.actingFor = t.actingFor
    /\ CheckConstraints(t.cons, call.args)

(* _check_intent_scope *)
InIntent(t, call) ==
    \A n \in t.intent :
        /\ n.tools # None => t.tool \in n.tools
        /\ \A k \in n.cons : CheckConstraints(k, call.args)

(* _check_proof_binding *)
ProofBinds(t) ==
    IF config.proofs = "off" THEN TRUE
    ELSE IF t.proof = None \/ t.proof \notin Known THEN config.proofs = "lenient"
    ELSE
           /\ Proofs[t.proof].status = "PROVEN"
           /\ t.policy \subseteq {Proofs[t.proof].about}
           /\ config.proofs = "strict" => t.policy = {t.cons}

(* _attenuation_violation returns None. *)
AttenuationHolds(c, p) ==
    /\ c.tool = p.tool
    /\ Covers(p.agent, c.agent)
    /\ c.exp <= p.exp
    /\ c.nbf >= p.nbf
    /\ PrefixesMerge(p.cons, c.cons)
    /\ MergeNarrowing(p.cons, c.cons) = c.cons

(* _verify_ancestor_chain, every link of it. *)
ChainVerifies(i) ==
    \A c \in toks[i].line \cup {i} :
        LET u == toks[c].parent IN
        u # 0 => /\ u \in registered
                 /\ toks[u].trusted
                 /\ u \notin revoked
                 /\ AttenuationHolds(toks[c], toks[u])

(* The calls that token i is good for. *)
GateAllows(i) ==
    IF Identified(toks[i], i) /\ ProofBinds(toks[i]) /\ ChainVerifies(i)
    THEN {call \in Calls : Bound(toks[i], call) /\ InIntent(toks[i], call)}
    ELSE {}

----------------------------------------------------------------------------
(* Properties *)

(* The tokens with their places, lines, windows and bounds, and the sets of ids. *)
TypeOK ==
    /\ toks \in Seq(Range(toks))
    /\ \A i \in Ids :
          /\ toks[i].made \in {"mint", "attenuate", "elsewhere"}
          /\ toks[i].parent \in 0 .. (i - 1)
          /\ toks[i].line \subseteq 1 .. (i - 1)
          /\ {toks[i].nbf, toks[i].exp} \subseteq Int
          /\ NumericBounds(toks[i].cons) /\ NumericIntents(toks[i].intent)
    /\ registered \subseteq Ids
    /\ revoked \subseteq Ids
    /\ now \in 0 .. MaxTime

(* A prefix without dot segments means the same to _merge_starts_with, which
   compares it as it stands, and to _check_starts_with, which resolves it. *)
Plain(c) == \A x \in DOMAIN c.starts : c.starts[x].file => Up \notin Range(c.starts[x].path)

(* "the chain stays no broader than its root": whoever signed the links, a
   call the gate allows is one that every token of the chain would allow
   alone: in its time, for its tool, from its agent scope, with arguments
   its constraints accept, and none of them revoked (check,
   _verify_ancestor_chain, _attenuation_violation).  The token's own prefixes
   are plain. *)
NeverBroader ==
    \A i \in Ids :
        toks[i].parent # 0 /\ Plain(toks[i].cons) =>
            \A call \in GateAllows(i), u \in toks[i].line :
                /\ toks[u].trusted /\ u \notin revoked
                /\ toks[u].nbf <= now /\ now < toks[u].exp
                /\ toks[u].tool = call.tool
                /\ call.agent # None => Covers(toks[u].agent, call.agent)
                /\ CheckConstraints(toks[u].cons, call.args)

Attenuated(i) == \A c \in toks[i].line \cup {i} : toks[c].made # "elsewhere"

(* No list has an element twice. *)
NoDuplicates(c) ==
    /\ \A f \in {c.allowed, c.forbidden} : \A x \in DOMAIN f : f[x] = Once(DOMAIN f[x])
    /\ \A l \in c.required : c.required = {Once(DOMAIN l)}
    /\ \A l \in c.combos : c.combos = {Once(DOMAIN l)}

(* What attenuate makes, the gate's own chain check accepts, however often a
   token is attenuated and whatever of the constraints is narrowed, as long as
   its ancestors are found, trusted and not revoked, unless a child has still
   a list of its root's with an element twice: attenuate keeps such a list and
   the check drops the second occurrence, so that it refuses the honest child,
   always (attenuate against _attenuation_violation). *)
AttenuatedVerifies ==
    \A i \in Ids :
        /\ Attenuated(i)
        /\ \A u \in toks[i].line : u \in registered \ revoked /\ toks[u].trusted
        => (ChainVerifies(i) <=>
              \A c \in toks[i].line \cup {i} : toks[c].parent # 0 => NoDuplicates(toks[c].cons))

(* An intent that names no less than its parent's does. *)
WholeIntent(c, p) ==
    \A m \in p.intent, n \in c.intent :
        /\ m.tools # None => n.tools # None
        /\ m.cons # {} => n.cons # {} /\ \A k \in n.cons : Plain(k)

(* Along attenuations a call the gate allows declares the user of every
   paired ancestor and stays inside every ancestor's intent, when no child's
   own intent leaves out a part its parent's has (_narrow_acting_for,
   _narrow_intent; the gate looks at the last token only). *)
PurposeKept ==
    \A i \in Ids :
        /\ toks[i].parent # 0
        /\ Attenuated(i)
        /\ \A c \in toks[i].line \cup {i} :
              toks[c].parent # 0 => WholeIntent(toks[c], toks[toks[c].parent])
        => \A call \in GateAllows(i), u \in toks[i].line :
              /\ toks[u].actingFor # None => call.actingFor = toks[u].actingFor
              /\ InIntent(toks[u], call)

(* What a strict gate allows is under constraints a trusted proof is about,
   and no attenuated token is ("will therefore DENY an attenuated child"). *)
StrictMeansProven ==
    config.proofs = "strict" =>
        \A i \in Ids :
            GateAllows(i) # {} =>
                /\ toks[i].made # "attenuate"
                /\ \E p \in Known : /\ Proofs[p].status = "PROVEN"
                                    /\ Proofs[p].about = toks[i].cons

(* A token that was attenuated verifies and speaks for the purpose of its
   parent, and a strict gate accepts only what was proven about the constraint
   it enforces. *)
AttenuationKeeps == AttenuatedVerifies /\ PurposeKept /\ StrictMeansProven
=============================================================================
