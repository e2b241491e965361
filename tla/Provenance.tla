----------------------------- MODULE Provenance -----------------------------
(***************************************************************************)
(* The provenance chain (raucle/provenance.py): agents that append signed  *)
(* receipts to one JSONL file through loggers of their own, and the        *)
(* verifier that reads the file.                                           *)
(*                                                                         *)
(* A logger learns the taint of earlier receipts once, when it opens the   *)
(* file, and then only of the receipts it writes itself.  A receipt cites  *)
(* its parents by hash; a receipt's number stands for its hash, and the    *)
(* chain is the sequence of the lines of the file.                         *)
(***************************************************************************)
EXTENDS Integers, Sequences, SequencesExt, FiniteSets

CONSTANTS
    Agents,      \* agent identities, each with one logger on the chain
    Tags,        \* taint tags a caller may add
    Tools,       \* tool names; a sanitiser is one of them
    Models,      \* model names
    Statements,  \* capability statements an agent may be issued
    Extensions,  \* payload extensions the gate puts on a receipt
    MaxReceipts, \* bound: receipts ever signed
    MaxFaults,   \* bound: lines torn, lost, repeated, moved or rewritten
    MaxTime      \* bound: the clock

ASSUME ProvenanceAssumption ==
    /\ Statements \subseteq [agent : Agents \cup {""}, models : SUBSET Models, tools : SUBSET Tools,
                             clears : SUBSET (Tags \cup {"*"}), ttl : Nat, exp : {0},
                             strict : BOOLEAN]
    /\ \A e \in Extensions : e.kind = "granted" => e.ttl \in Nat
    /\ {MaxReceipts, MaxFaults, MaxTime} \subseteq Nat

NoExt == [kind |-> "none"]
RagTag == "rag"          \* rag:<corpus>
ScanTag == "scan"        \* guardrail-scan:<target>

VARIABLES
    made,   \* made[h]: the receipt whose hash is h, whether or not it is kept
    chain,  \* the lines of the file
    known,  \* known[a]: receipts whose taint a's logger has in memory
    open,   \* open[a]: a has a logger
    stmt,   \* stmt[a]: the capability statement of a
    now,    \* the clock
    faults, \* faults that happened to the file
    kept    \* history: every agent kept to the rules and the file was left alone

vars == <<made, chain, known, open, stmt, now, faults, kept>>

(* A line: the receipt it carries and what became of its bytes. *)
Line(h) == [id |-> h, bytes |-> "whole"]
Torn == [id |-> 0, bytes |-> "torn"]
Tip == IF chain = <<>> THEN Line(0) ELSE Last(chain)

----------------------------------------------------------------------------
(* Capability statements. *)

PermitsModel(s, m) == s.models = {} \/ m \in s.models
PermitsTool(s, t) == s.tools = {} \/ t \in s.tools
(* An empty list permits every model and tool, but no sanitising. *)
PermitsSanitising(s, tag) == "*" \in s.clears \/ tag \in s.clears

(* An identity and its self-signed statement; the time to live counts from
   the moment it is generated. *)
Generate(a, s) == [s EXCEPT !.agent = a, !.exp = IF s.ttl = 0 THEN 0 ELSE now + s.ttl]

----------------------------------------------------------------------------
(* What a reader takes from the file, and what it asks of one receipt. *)

(* _parse_chain_line and from_jws: a torn line, or two glued together, is
   not a record. *)
Parsed(l) == l.bytes \notin {"torn", "garbled"}
Records(c) == {i \in DOMAIN c : Parsed(c[i])}
Hashes(c) == {c[i].id : i \in {j \in Records(c) : c[j].bytes = "whole"}}

RootableOps == {"user_input", "guardrail_scan"}

StructuralErrors(r) ==
    \/ r.parents = <<>> /\ r.op \notin RootableOps
    \/ r.op = "merge" /\ Len(r.parents) < 2
    \/ r.op = "tool_call" /\ r.tool = ""
    \/ r.op = "model_call" /\ r.model = ""
    \/ r.op = "guardrail_scan" /\ r.verdict = ""
    \/ ~IsInjective(r.parents)

(* An agent that keeps to the rules cites receipts that are on file, roots only
   what may be a root, clears only the tags it may clear with a sanitiser it
   may run, and holds a statement that has not expired. *)
KeepsRules(a, r) ==
    /\ Range(r.parents) \subseteq Hashes(chain)
    /\ ~StructuralErrors(r)
    /\ r.ext = NoExt
    /\ stmt[a].exp # 0 => now < stmt[a].exp
    /\ r.op = "sanitisation" =>
         PermitsTool(stmt[a], r.tool) /\ \A t \in r.removed : PermitsSanitising(stmt[a], t)

----------------------------------------------------------------------------
(* The logger. *)

Receipt(a, op, parents, taint) ==
    [agent |-> a, op |-> op, parents |-> parents, taint |-> taint, model |-> "",
     tool |-> "", removed |-> {}, at |-> now, ext |-> NoExt, verdict |-> "",
     profile |-> IF stmt[a].strict THEN "pq1" ELSE "v1"]

(* _emit: one line, appended.  A line that continues a torn one is lost to
   every reader, but the logger remembers it. *)
Written(h) ==
    IF Tip.bytes = "torn" THEN Append(Front(chain), [Torn EXCEPT !.bytes = "garbled"])
                          ELSE Append(chain, Line(h))

Emit(a, r) ==
    /\ open[a]
    /\ Len(made) < MaxReceipts
    /\ made' = Append(made, r)
    /\ chain' = Written(Len(made) + 1)
    /\ known' = [known EXCEPT ![a] = @ \cup {Len(made) + 1}]
    /\ kept' = (kept /\ KeepsRules(a, r))
    /\ UNCHANGED <<open, stmt, now, faults>>

InheritTaint(a, parents, extra) ==
    extra \cup UNION {made[p].taint : p \in Range(parents) \cap known[a]}

RecordUserInput(a, taint) == Emit(a, Receipt(a, "user_input", <<>>, taint))

RecordModelCall(a, parents, m, extra) ==
    /\ PermitsModel(stmt[a], m)
    /\ Emit(a, [Receipt(a, "model_call", parents, InheritTaint(a, parents, extra))
                  EXCEPT !.model = m])

RecordToolCall(a, parents, t, extra) ==
    /\ PermitsTool(stmt[a], t)
    /\ Emit(a, [Receipt(a, "tool_call", parents, InheritTaint(a, parents, extra))
                  EXCEPT !.tool = t])

RecordRetrieval(a, parents, trusted) ==
    Emit(a, Receipt(a, "retrieval", parents,
                    InheritTaint(a, parents, IF trusted THEN {} ELSE {RagTag})))

RecordGuardrailScan(a, parents, verdict) ==
    Emit(a, [Receipt(a, "guardrail_scan", parents, InheritTaint(a, parents, {ScanTag}))
               EXCEPT !.verdict = verdict])

RecordAgentHandoff(a, parents) ==
    Emit(a, Receipt(a, "agent_handoff", parents, InheritTaint(a, parents, {})))

(* The logger asks neither whether the agent may run the sanitiser nor
   whether it may clear the tags. *)
RecordSanitisation(a, parents, removed, t) ==
    Emit(a, [Receipt(a, "sanitisation", parents, InheritTaint(a, parents, {}) \ removed)
               EXCEPT !.tool = t, !.removed = removed])

RecordMerge(a, parents, extra) ==
    /\ Len(parents) >= 2
    /\ Emit(a, Receipt(a, "merge", parents, InheritTaint(a, parents, extra)))

(* The gate's own receipts: a scan at the root of the chain that carries an
   extension in its signed payload. *)
RecordGate(a, ext, verdict) ==
    Emit(a, [Receipt(a, "guardrail_scan", <<>>, {ScanTag})
               EXCEPT !.ext = ext, !.verdict = verdict])

(* Mutant: a logger that starts with an empty memory. *)
OpenLogger_NoLoad(a) ==
    /\ ~open[a]
    /\ open' = [open EXCEPT ![a] = TRUE]
    /\ kept' = (kept /\ \A b \in Agents : ~open[b])
    /\ UNCHANGED <<made, chain, known, stmt, now, faults>>

(* __init__: the taints of the lines that parse are loaded, once. *)
OpenLogger(a) ==
    /\ ~open[a]
    /\ open' = [open EXCEPT ![a] = TRUE]
    /\ known' = [known EXCEPT ![a] = {l.id : l \in {m \in Range(chain) : m.bytes = "whole"}}]
    /\ kept' = (kept /\ \A b \in Agents : ~open[b])
    /\ UNCHANGED <<made, chain, stmt, now, faults>>

CloseLogger(a) ==
    /\ open[a]
    /\ open' = [open EXCEPT ![a] = FALSE]
    /\ known' = [known EXCEPT ![a] = {}]
    /\ UNCHANGED <<made, chain, stmt, now, faults, kept>>

----------------------------------------------------------------------------
(* What may become of the file outside the logger. *)

Damage(c) ==
    /\ faults < MaxFaults
    /\ faults' = faults + 1
    /\ chain' = c
    /\ kept' = FALSE
    /\ UNCHANGED <<made, known, open, stmt, now>>

(* The process of a dies while it writes its line. *)
Crash(a) ==
    /\ open[a]
    /\ faults < MaxFaults
    /\ faults' = faults + 1
    /\ chain' = IF Tip.bytes = "torn" THEN chain ELSE Append(chain, Torn)
    /\ open' = [open EXCEPT ![a] = FALSE]
    /\ known' = [known EXCEPT ![a] = {}]
    /\ kept' = FALSE
    /\ UNCHANGED <<made, stmt, now>>

Rewritten(i, how) == [chain EXCEPT ![i].bytes = how]

Alter ==
    \E i \in DOMAIN chain :
        \/ Damage(RemoveAt(chain, i))
        \/ Damage(Append(chain, chain[i]))
        \/ i < Len(chain) /\ Damage([chain EXCEPT ![i] = chain[i+1], ![i+1] = chain[i]])
        \/ \E how \in {"edited", "stripped"} :
             /\ chain[i].bytes = "whole"
             /\ how = "stripped" => made[chain[i].id].profile = "pq1"
             /\ Damage(Rewritten(i, how))

Tick == now < MaxTime /\ now' = now + 1 /\ UNCHANGED <<made, chain, known, open, stmt, faults, kept>>

----------------------------------------------------------------------------
(* The verifier.  caps is the set of agents whose statement it was given. *)

Of(c, i) == made[c[i].id]

(* Three segments under a header that declares pq1 never verify. *)
Segments(c, i) == IF Of(c, i).profile = "pq1" /\ c[i].bytes # "stripped" THEN 4 ELSE 3
VerifySignatureV1(c, i) == Of(c, i).profile # "pq1" /\ c[i].bytes = "whole"
VerifySignatureHybrid(c, i) == c[i].bytes = "whole"
VerifySignature(c, i) ==
    IF Segments(c, i) = 4 THEN VerifySignatureHybrid(c, i) ELSE VerifySignatureV1(c, i)

ValidRecord(c, i, requirePq) ==
    /\ VerifySignature(c, i)
    /\ requirePq => Segments(c, i) = 4
    /\ ~StructuralErrors(Of(c, i))

(* A statement counts when it is bound to the key it is filed under. *)
VerifyStatement(a) == stmt[a].agent = a

Conforms(r, caps) ==
    caps # {} =>
        /\ r.agent \in caps
        /\ VerifyStatement(r.agent)
        /\ stmt[r.agent].exp # 0 => r.at < stmt[r.agent].exp
        /\ r.model # "" => PermitsModel(stmt[r.agent], r.model)
        /\ r.tool # "" => PermitsTool(stmt[r.agent], r.tool)

(* Extensions, in the order of the lines. *)
Earlier(c, i) == {j \in Records(c) : j < i}
Kind(c, i, k) == Of(c, i).ext.kind = k

RevokedBefore_Ever(c, i) ==                    \* mutant: revocations are collected first
    UNION {Of(c, j).ext.ids : j \in {k \in Records(c) : Kind(c, k, "revocation")}}
RevokedBefore(c, i) == UNION {Of(c, j).ext.ids : j \in {k \in Earlier(c, i) : Kind(c, k, "revocation")}}

CascadeHolds(c, i) ==
    Kind(c, i, "authority") => Of(c, i).ext.cites \cap RevokedBefore(c, i) = {}

(* The digest covers the fields of the block itself. *)
DigestHolds(c, i) == Kind(c, i, "authority") => Of(c, i).ext.digest

Grants_Anywhere(c, i, lease) ==                \* mutant: a grant later in the file counts
    {j \in Records(c) : Kind(c, j, "granted") /\ Of(c, j).ext.lease = lease}
Grants(c, i, lease) ==
    {j \in Earlier(c, i) : Kind(c, j, "granted") /\ Of(c, j).ext.lease = lease}

LeaseRedeemable(c, i) ==
    Kind(c, i, "redeemed") =>
        LET r == Of(c, i)
            gs == Grants(c, i, r.ext.lease)
        IN  /\ gs # {}
            /\ LET g == Of(c, CHOOSE j \in gs : \A k \in gs : k <= j)
               IN  /\ r.at <= g.at + g.ext.ttl
                   /\ r.ext.scopes # {} /\ g.ext.scopes # {} => r.ext.scopes \subseteq g.ext.scopes

IntentHolds(c, i) ==
    Kind(c, i, "intent") /\ Of(c, i).verdict = "allow" =>
        Of(c, i).ext.tool \in Of(c, i).ext.tools /\ Of(c, i).ext.within

Cited(c, i, h) == {j \in Earlier(c, i) : c[j].id = h /\ c[j].bytes = "whole"}

FindingHolds(c, i) ==
    Kind(c, i, "finding") =>
        /\ Cited(c, i, Of(c, i).ext.cites) # {}
        /\ made[Of(c, i).ext.cites].verdict \in {"", Of(c, i).ext.claims}

(* The anchor's digest is taken over the cited line; an edited line has
   another hash, so citing it and finding it are the same thing here. *)
TimeDigestBinds(c, i) == Cited(c, i, Of(c, i).ext.cites) # {} /\ Of(c, i).ext.digest
TimeSourceHolds(c, i) ==
    CASE Of(c, i).ext.mode = "tsa" -> Of(c, i).ext.token
      [] Of(c, i).ext.mode = "opentimestamps" -> TRUE
      [] OTHER -> FALSE
TimeAnchorHolds(c, i) == Kind(c, i, "anchor") => TimeDigestBinds(c, i) /\ TimeSourceHolds(c, i)

(* The executor's co-signature over the outcome and this receipt's output. *)
BilateralHolds(c, i) ==
    Kind(c, i, "bilateral") =>
        /\ Of(c, i).ext.outcome \in {"ok", "error"}
        /\ Of(c, i).ext.output = "own"
        /\ Of(c, i).ext.signed

ExtensionsHold(c, i) ==
    /\ DigestHolds(c, i)
    /\ LeaseRedeemable(c, i)
    /\ CascadeHolds(c, i)
    /\ IntentHolds(c, i)
    /\ FindingHolds(c, i)
    /\ TimeAnchorHolds(c, i)
    /\ BilateralHolds(c, i)

(* Second pass: every parent is somewhere in the chain, and taint shrinks
   only by what an authorised sanitisation removed. *)
Inherited(c, r) == UNION {made[p].taint : p \in Range(r.parents) \cap Hashes(c)}

SanitisationTaint(c, r, caps) ==
    /\ caps # {} => \A tag \in r.removed : r.agent \in caps /\ PermitsSanitising(stmt[r.agent], tag)
    /\ r.taint = Inherited(c, r) \ r.removed
MonotonicTaint(c, r) == Inherited(c, r) \subseteq r.taint
TaintHolds(c, r, caps) ==
    r.parents # <<>> =>
        IF r.op = "sanitisation" THEN SanitisationTaint(c, r, caps) ELSE MonotonicTaint(c, r)

DagAndTaint_Lenient(c, caps) ==                \* mutant: a missing parent is skipped
    \A h \in Hashes(c) : TaintHolds(c, made[h], caps)

DagAndTaint(c, caps) ==
    \A h \in Hashes(c) : Range(made[h].parents) \subseteq Hashes(c) /\ TaintHolds(c, made[h], caps)

VerifyChain(c, caps, requirePq) ==
    /\ Records(c) = DOMAIN c
    /\ \A i \in Records(c) :
         ValidRecord(c, i, requirePq) /\ Conforms(Of(c, i), caps) /\ ExtensionsHold(c, i)
    /\ DagAndTaint(c, caps)

(* trace: the ancestors of h among the receipts of the file. *)
Step(c, hs) == hs \cup UNION {Range(made[h].parents) \cap Hashes(c) : h \in hs}
Trace(c, h) ==
    LET f[n \in 0 .. MaxReceipts] == IF n = 0 THEN {h} ELSE Step(c, f[n - 1])
    IN  f[MaxReceipts]

----------------------------------------------------------------------------

Init ==
    /\ made = <<>> /\ chain = <<>>
    /\ known = [a \in Agents |-> {}]
    /\ open = [a \in Agents |-> FALSE]
    /\ now = 0 /\ faults = 0 /\ kept = TRUE
    /\ \E s \in [Agents -> Statements] : stmt = [a \in Agents |-> Generate(a, s[a])]

(* The lists of parents a caller may pass; the payload sorts them. *)
ParentLists ==
    {<<>>} \cup {<<h>> : h \in DOMAIN made}
           \cup {<<h, k>> : h \in DOMAIN made, k \in DOMAIN made}

Record(a) ==
    \/ \E t \in SUBSET Tags : RecordUserInput(a, t)
    \/ \E ps \in {q \in ParentLists : q = <<>> \/ q[1] <= Last(q)} :
         \/ \E m \in Models : RecordModelCall(a, ps, m, {})
         \/ \E t \in Tools : RecordToolCall(a, ps, t, {})
         \/ \E b \in BOOLEAN : RecordRetrieval(a, ps, b)
         \/ RecordGuardrailScan(a, ps, "CLEAN")
         \/ RecordAgentHandoff(a, ps)
         \/ \E rm \in {{}} \cup {{t} : t \in Tags \cup {RagTag}}, t \in Tools :
              RecordSanitisation(a, ps, rm, t)
         \/ RecordMerge(a, ps, {})
    \/ \E e \in Extensions, v \in {"allow", "deny"} : RecordGate(a, e, v)

Next ==
    \/ \E a \in Agents : Record(a) \/ OpenLogger(a) \/ CloseLogger(a) \/ Crash(a)
    \/ Alter
    \/ Tick

Spec == Init /\ [][Next]_vars

----------------------------------------------------------------------------
TypeOK ==
    /\ Len(made) <= MaxReceipts
    /\ \A i \in DOMAIN chain : chain[i].id \in 0 .. Len(made)
    /\ open \in [Agents -> BOOLEAN]
    /\ \A a \in Agents : known[a] \subseteq DOMAIN made

(* What a receipt owes: every tag of an ancestor that no authorised
   sanitisation between the two removed.  A receipt is numbered after its
   parents. *)
Cleared(r) == {t \in r.removed : PermitsSanitising(stmt[r.agent], t)}
Owed ==
    LET owed[h \in DOMAIN made] ==
          (UNION {owed[p] \cup made[p].taint : p \in Range(made[h].parents)}) \ Cleared(made[h])
    IN  owed

(* TAINT.  In a chain that verifies against the agents' statements, however
   its lines were reordered or repeated, every receipt carries each tag of
   each of its ancestors that no authorised sanitisation on the way removed,
   and trace returns all of them (_verify_dag_and_taint only ever compares a receipt with its parents). *)
TaintSound ==
    VerifyChain(chain, Agents, FALSE) =>
        \A h \in Hashes(chain) :
            /\ Owed[h] \subseteq made[h].taint
            /\ \A g \in Trace(chain, h) : Range(made[g].parents) \subseteq Trace(chain, h)

(* EVIDENCE.  In a chain that verifies, an authority is not cited on a line
   after the one that revoked it, a lease is redeemed after a grant and
   before it lapses, and findings and anchors cite an earlier line. *)
EvidenceStands ==
    VerifyChain(chain, {}, FALSE) =>
        \A i \in DOMAIN chain :
            LET e == Of(chain, i).ext IN
            CASE e.kind = "authority" ->
                   \A j \in 1 .. i : Kind(chain, j, "revocation")
                                       => e.cites \cap Of(chain, j).ext.ids = {}
              [] e.kind = "redeemed" ->
                   \E j \in 1 .. i - 1 :
                     /\ Kind(chain, j, "granted") /\ Of(chain, j).ext.lease = e.lease
                     /\ Of(chain, i).at - Of(chain, j).at <= Of(chain, j).ext.ttl
                     /\ e.scopes = {} \/ Of(chain, j).ext.scopes = {}
                          \/ e.scopes \subseteq Of(chain, j).ext.scopes
              [] e.kind \in {"finding", "anchor"} ->
                   \E j \in 1 .. i - 1 : chain[j].id = e.cites
              [] OTHER -> TRUE

(* RESTARTS.  Whatever agents that keep to the rules append, through loggers
   that are closed and reopened, the chain verifies against
   their statements (ProvenanceLogger, verify_chain). *)
HonestChainVerifies == kept => VerifyChain(chain, Agents, FALSE)

(* WHAT A CHAIN PROVES.  In a chain that verifies, taint reaches every receipt
   downstream until somebody entitled removes it, and a lease, a finding or a
   revocation counts only where its evidence stands before it; and what agents
   that keep to the rules append through loggers that close and reopen verifies
   (verify_chain, ProvenanceLogger). *)
ChainProves == TaintSound /\ EvidenceStands /\ HonestChainVerifies

(* A revocation appended to the chain condemns what comes after it and
   leaves the evidence before it as it was. *)
PastSpared ==
    /\ VerifyChain(chain, {}, FALSE)
    /\ Len(chain') = Len(chain) + 1
    /\ Len(made') > Len(made)
    /\ Last(made').ext.kind = "revocation"
    => VerifyChain(chain, {}, FALSE)'

(* THE PAST.  A revocation that is appended takes nothing back that stood
   before it (_verify_cascade_revocation). *)
PastStands == [][PastSpared]_vars
=============================================================================
