---------------------------- MODULE ProofEngine ----------------------------
(***************************************************************************)
(* The provers of prove.py and the registry of what they model             *)
(* (registry.py): tool-call objects under a JSON schema, URLs under a      *)
(* grammar, SQL templates.  A verdict is PROVEN, REFUTED, UNDECIDED, or    *)
(* Unsupported where the prover refuses the question.                      *)
(*                                                                         *)
(* Each prover answers from an encoding.  What the encoding leaves out is  *)
(* here as well: fields a keyword admits that it does not model, keywords  *)
(* of a property it ignores, query keys and path segments an agent may     *)
(* append, tables inside a subquery.  The solver is taken to be exact, or  *)
(* to give up.                                                             *)
(***************************************************************************)
EXTENDS Integers, Sequences, FiniteSets

CONSTANTS
    Fields,       \* argument names
    Values,       \* argument values: [t, v]
    Unsupported   \* UnsupportedGrammar

----------------------------------------------------------------------------
(* The registry: constraint kinds and schema keywords *)

KnownKinds == {"forbidden", "allowed", "starts", "max", "min", "required", "combos"}

(* The column prover_encodable. *)
ProverEncodable == KnownKinds \ {"allowed", "starts"}

(* A policy p has one entry per kind; an entry that is empty is not there. *)
Carries(p, kind) == IF kind \in {"required", "combos"} THEN p[kind] # {} ELSE DOMAIN p[kind] # {}

UnmodelledPolicyKeys_None(p) == {}   \* wrong: a key the prover ignores does not count

(* unmodelled_policy_keys *)
UnmodelledPolicyKeys(p) == {k \in KnownKinds : Carries(p, k)} \ ProverEncodable

(* JSON_SCHEMA_OBJECT_KEYS: patternProperties and the like are not among them.
   Such a keyword is here as the fields it admits. *)
UnmodelledKeywords(s) == s.pattern

----------------------------------------------------------------------------
(* JSON schemas.  A schema s has props (for each declared field its type, its
   values as the prover reads them and as its other keywords leave them),
   required, extra (additionalProperties is not false) and pattern. *)

(* The objects: partial functions from fields to values. *)
Objects == UNION {[D -> Values] : D \in SUBSET Fields}

Declared(s) == DOMAIN s.props

(* What the schema says. *)
ValidObject(s, o) ==
    /\ s.required \cap Declared(s) \subseteq DOMAIN o
    /\ \A f \in DOMAIN o :
          IF f \in Declared(s) THEN o[f] \in s.props[f].meant
          ELSE s.extra \/ f \in s.pattern

(* _build_z3_var: the types that can be modelled. *)
SupportedTypes == {"string", "number", "integer", "boolean"}

(* _encode_forbidden_values: a field that is not declared, but may be there,
   becomes a free text field. *)
FreeFields_None(s, p) == {}   \* wrong: a field the schema does not declare is skipped

FreeFields(s, p) == IF s.extra THEN DOMAIN p.forbidden \ Declared(s) ELSE {}

Assignments_Optional(s, p) ==   \* wrong: every field may be left out
    {o \in UNION {[D -> Values] : D \in SUBSET (Declared(s) \cup FreeFields(s, p))} :
        \A f \in DOMAIN o : IF f \in Declared(s) THEN o[f] \in s.props[f].read
                            ELSE o[f].t = "string"}

(* _build_z3_vars: the assignments the solver ranges over. *)
Assignments(s, p) ==
    {o \in UNION {[D -> Values] : D \in SUBSET (Declared(s) \cup FreeFields(s, p))} :
        /\ s.required \cap Declared(s) \subseteq DOMAIN o
        /\ \A f \in DOMAIN o : IF f \in Declared(s) THEN o[f] \in s.props[f].read
                               ELSE o[f].t = "string"}

(* _encode_policy_violations: where it refuses the question ... *)
Refuses(s, p) ==
    LET numeric(f) == f \in Declared(s) /\ s.props[f].type \in {"number", "integer"}
        present == Declared(s) \cup FreeFields(s, p)
    IN  \/ \E f \in Declared(s) : s.props[f].type \notin SupportedTypes
        \/ \E f \in DOMAIN p.forbidden \cap Declared(s) : s.props[f].type # "string"
        \/ \E f \in DOMAIN p.max \cup DOMAIN p.min : ~numeric(f)
        \/ ~(p.required \subseteq present)
        \/ \E c \in p.combos : ~(c \subseteq present)

(* ... and what counts as a violation. *)
Violates(p, o) ==
    \/ \E f \in DOMAIN p.forbidden \cap DOMAIN o : o[f] \in p.forbidden[f]
    \/ \E f \in DOMAIN p.max \cap DOMAIN o : o[f].v > p.max[f]
    \/ \E f \in DOMAIN p.min \cap DOMAIN o : o[f].v < p.min[f]
    \/ \E f \in p.required : f \notin DOMAIN o
    \/ \E c \in p.combos : c \subseteq DOMAIN o

(* _encode_query: does anything unmodelled take part? *)
Unmodelled(s, p) == UnmodelledKeywords(s) # {} \/ UnmodelledPolicyKeys(p) # {}

(* JSONSchemaProver.prove: the solver's answer is exact, or "unknown". *)
Prove(s, p, gaveUp) ==
    IF Refuses(s, p) THEN Unsupported
    ELSE IF gaveUp THEN "UNDECIDED"
    ELSE IF \E o \in Assignments(s, p) : Violates(p, o) THEN "REFUTED"
    ELSE IF Unmodelled(s, p) THEN "UNDECIDED" ELSE "PROVEN"

(* JSONSchemaProver.prove_exclusion: fail-closed in both directions, and an
   empty grammar proves nothing. *)
ProveExclusion(s, p, gaveUp) ==
    IF Refuses(s, p) THEN Unsupported
    ELSE IF Unmodelled(s, p) \/ gaveUp THEN "UNDECIDED"
    ELSE IF \E o \in Assignments(s, p) : ~Violates(p, o) THEN "REFUTED"
    ELSE IF Assignments(s, p) = {} THEN "UNDECIDED" ELSE "PROVEN"

(* _check_constraints: what the gate denies.  A field a bound or a list names
   must be there. *)
GateDenies(p, o) ==
    \/ Violates(p, o)
    \/ \E f \in DOMAIN p.max \cup DOMAIN p.min \cup DOMAIN p.allowed : f \notin DOMAIN o
    \/ \E f \in DOMAIN p.allowed \cap DOMAIN o : o[f] \notin p.allowed[f]

----------------------------------------------------------------------------
(* URLs.  A host is its labels from the top, a pattern has wild set where it
   begins with "*.". *)

(* _host_matches *)
HostMatches(h, a) ==
    \/ h = a
    \/ /\ a.wild
       /\ Len(h.labels) > Len(a.labels)
       /\ SubSeq(h.labels, 1, Len(a.labels)) = a.labels

(* _check_require_https *)
RequireHttps(g, p) == IF p.https /\ g.schemes # {"https"} THEN "REFUTED" ELSE "PROVEN"

ForbidQueryKeys_Closed(g, p) ==   \* wrong: the key set is taken to be exhaustive
    IF g.query \cap p.forbidQuery # {} THEN "REFUTED" ELSE "PROVEN"

(* _check_forbid_query_keys: an agent may add a key to an open grammar. *)
ForbidQueryKeys(g, p) ==
    IF g.query \cap p.forbidQuery # {} THEN "REFUTED"
    ELSE IF p.forbidQuery # {} /\ ~g.closed THEN "UNDECIDED"
    ELSE "PROVEN"

(* _check_host_allowlist *)
HostAllowlist(g, p) ==
    IF p.listed /\ \E h \in g.hosts : ~\E a \in p.hosts : HostMatches(h, a)
    THEN "REFUTED" ELSE "PROVEN"

(* _check_max_path_depth: an agent may append segments to any prefix. *)
MaxPathDepth(g, p) ==
    IF p.maxDepth < 0 THEN "PROVEN"
    ELSE IF \E d \in g.depths : d > p.maxDepth THEN "REFUTED"
    ELSE "UNDECIDED"

Worst(verdicts) ==
    IF "REFUTED" \in verdicts THEN "REFUTED"
    ELSE IF "UNDECIDED" \in verdicts THEN "UNDECIDED"
    ELSE "PROVEN"

(* unmodelled_url_keys, unmodelled_sql_keys *)
KnownKeys(p) == IF p.unknownKey THEN "UNDECIDED" ELSE "PROVEN"

(* URLPolicyProver.prove *)
ProveUrl(g, p) ==
    IF g.schemes = {} \/ g.hosts = {} THEN Unsupported
    ELSE Worst({KnownKeys(p), RequireHttps(g, p), ForbidQueryKeys(g, p), HostAllowlist(g, p),
                MaxPathDepth(g, p)})

(* The URLs an agent can construct: over the labels, keys and depths given. *)
Urls(g, labels, keys, depths) ==
    LET concrete == {[labels |-> l, wild |-> FALSE] : l \in UNION {[1..n -> labels] : n \in 1..3}}
    IN  {u \in [scheme : g.schemes, host : concrete, depth : depths, query : SUBSET keys] :
            /\ \E h \in g.hosts : HostMatches(u.host, h)
            /\ \E d \in g.depths : u.depth >= d
            /\ g.closed => u.query \subseteq g.query}

(* What the policy asks of a URL. *)
UrlAllowed(u, p) ==
    /\ p.https => u.scheme = "https"
    /\ u.query \cap p.forbidQuery = {}
    /\ p.listed => \E a \in p.hosts : HostMatches(u.host, a)
    /\ p.maxDepth >= 0 => u.depth <= p.maxDepth

----------------------------------------------------------------------------
(* SQL templates: the tokens, whether statements are chained, whether a
   construct of SQL_UNMODELLED_CONSTRUCTS occurs, whether it is a plain query,
   the tables its FROM and JOIN name, and those inside parentheses. *)

TableRefs_Trusting(t, p) ==   \* wrong: a reference that cannot be read is passed over
    IF t.tables \subseteq p.tables THEN "PROVEN" ELSE "REFUTED"

(* _extract_table_refs, and each table in the list *)
TableRefs(t, p) ==
    IF ~(t.tables \subseteq p.tables) THEN "REFUTED"
    ELSE IF t.inner # {} THEN "UNDECIDED"
    ELSE "PROVEN"

(* _check_sql_template, in the order of its checks.  An empty list of tables
   restricts nothing. *)
CheckTemplate(t, p) ==
    IF t.tokens \cap p.forbidden # {} THEN "REFUTED"
    ELSE IF t.chained /\ ~p.chaining THEN "REFUTED"
    ELSE IF t.unmodelled THEN "UNDECIDED"
    ELSE IF p.tables = {} THEN "PROVEN"
    ELSE IF ~t.query THEN "UNDECIDED"
    ELSE TableRefs(t, p)

(* SQLClauseProver.prove: the first template with a violation refutes. *)
ProveSql(ts, p) ==
    IF ts = <<>> THEN Unsupported
    ELSE Worst({KnownKeys(p)} \cup {CheckTemplate(ts[i], p) : i \in DOMAIN ts})

(* What a template really does, and what the policy asks of it. *)
SqlAllowed(t, p) ==
    /\ t.tokens \cap p.forbidden = {}
    /\ t.chained => p.chaining
    /\ p.tables # {} => (t.tables \cup t.inner) \subseteq p.tables

----------------------------------------------------------------------------
(* Properties *)

(* A policy PROVEN over a schema is violated by no object the schema admits,
   whatever the encoding leaves out; and where a class is PROVEN excluded the
   gate denies every object of it (prove, prove_exclusion). *)
ProofSound(s, p) ==
    /\ Prove(s, p, FALSE) = "PROVEN" =>
          \A o \in Objects : ValidObject(s, o) =>
             ~Violates(p, o) /\ \A f \in DOMAIN p.allowed \cap DOMAIN o : o[f] \in p.allowed[f]
    /\ ProveExclusion(s, p, FALSE) = "PROVEN" =>
          \A o \in Objects : ValidObject(s, o) => GateDenies(p, o)

(* A class is reported as not excluded only where the gate would allow one of
   its objects, for schemas the prover reads in full whose bounded fields are
   required: the gate denies an object that leaves a bounded field out, and
   the prover counts it as allowed. *)
RefutationFair(s, p) ==
    /\ DOMAIN p.max \cup DOMAIN p.min \subseteq s.required
    /\ \A f \in Declared(s) : s.props[f].meant = s.props[f].read
    /\ ProveExclusion(s, p, FALSE) = "REFUTED"
    => \E o \in Objects : ValidObject(s, o) /\ ~GateDenies(p, o)

(* A URL policy PROVEN over a grammar holds of every URL an agent can make
   under it, and templates PROVEN use no table the policy does not list. *)
UrlSound(g, p, labels, keys, depths) ==
    ProveUrl(g, p) = "PROVEN" => \A u \in Urls(g, labels, keys, depths) : UrlAllowed(u, p)

SqlSound(ts, p) ==
    ProveSql(ts, p) = "PROVEN" => \A i \in DOMAIN ts : SqlAllowed(ts[i], p)
=============================================================================
