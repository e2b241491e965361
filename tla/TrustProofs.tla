----------------------------- MODULE TrustProofs -----------------------------
(***************************************************************************)
(* Theorems about the three parts of the trust plane: the provenance chain *)
(* and its verifier, the registry and the handshake between organisations, *)
(* and the graph that explains a decision.                                 *)
(*                                                                         *)
(* The chain.  A receipt cites only receipts that were signed before it,   *)
(* so what holds of every line follows from a least receipt for which it   *)
(* would fail.  Verification is line by line: what is appended leaves what *)
(* was found on the lines before it as it was (VerifyAppends), and while   *)
(* every agent keeps to the rules the logger that has the file open knows  *)
(* the taint of all of it (KeptInv).                                       *)
(*                                                                         *)
(* The registry and the handshake.  Every copy is a beginning of the file  *)
(* (PrefixOf), one writer at a time has what is written in memory          *)
(* (InTurn), and what a responder accepted is in the log of its calls and  *)
(* in its replay set (Remembered).                                         *)
(*                                                                         *)
(* The graph.  While the walk goes on, a reference of a node that is not   *)
(* yet in the graph is owed by the queue or by the hop that is being       *)
(* resolved (Owing).                                                       *)
(***************************************************************************)
EXTENDS Provenance, Handshake, ChainGraph, FiniteSetTheorems, TLAPS

(* A set of naturals that is not empty has a least element; one that is bounded
   has a greatest. *)
LEMMA LeastNatural ==
  ASSUME NEW T \in SUBSET Nat, T # {}
  PROVE  \E m \in T : \A n \in T : m <= n
<1> DEFINE upTo(n) == 0 .. n
           F == {upTo(n) : n \in T}
<1>1. ASSUME NEW n \in Nat PROVE upTo(n) \in FiniteSubsetsOf(Nat)
  BY FS_Interval DEF FiniteSubsetsOf
<1>2. F \subseteq FiniteSubsetsOf(Nat) /\ F # {}
  BY <1>1
<1> HIDE DEF F
<1>3. PICK x \in F : \A y \in F : <<y, x>> \notin StrictSubsetOrdering(Nat)
  BY <1>2, FS_StrictSubsetOrderingWellFounded, WFMin
<1> USE DEF F
<1>4. PICK m \in T : x = upTo(m)
  OBVIOUS
<1>5. ASSUME NEW n \in T, n < m PROVE FALSE
  <2>1. upTo(n) \subseteq upTo(m) /\ m \in upTo(m) /\ m \notin upTo(n)
    BY <1>5
  <2>2. upTo(n) \in SUBSET Nat /\ upTo(m) \in SUBSET Nat
    BY <1>5
  <2>3. <<upTo(n), upTo(m)>> \in StrictSubsetOrdering(Nat)
    BY <2>1, <2>2 DEF StrictSubsetOrdering
  <2> QED BY <1>3, <1>4, <2>3
<1> QED BY <1>5

LEMMA GreatestUpTo ==
  ASSUME NEW n \in Nat, NEW T \in SUBSET (1 .. n), T # {}
  PROVE  \E m \in T : \A k \in T : k <= m
<1> DEFINE D == {n - k : k \in T}
<1>1. D \in SUBSET Nat /\ D # {}
  <2>1. \A k \in T : n - k \in Nat
    OBVIOUS
  <2> QED BY <2>1
<1> HIDE DEF D
<1>2. PICK d \in D : \A e \in D : d <= e
  BY <1>1, LeastNatural
<1>3. PICK m \in T : d = n - m
  BY DEF D
<1>4. ASSUME NEW k \in T PROVE k <= m
  <2>1. n - m <= n - k
    BY <1>2, <1>3 DEF D
  <2> QED BY <2>1
<1> QED BY <1>4

LEMMA AppendIs ==
  ASSUME NEW s, s \in Seq(Range(s)), NEW t
  PROVE  /\ Append(s, t) \in Seq(Range(Append(s, t)))
         /\ Len(s) \in Nat /\ DOMAIN s = 1 .. Len(s)
         /\ Len(Append(s, t)) = Len(s) + 1
         /\ DOMAIN Append(s, t) = 1 .. Len(s) + 1
         /\ Append(s, t)[Len(s) + 1] = t
         /\ \A i \in 1 .. Len(s) : Append(s, t)[i] = s[i]
<1>1. Len(s) \in Nat /\ DOMAIN s = 1 .. Len(s)
  OBVIOUS
<1>2. \A i \in 1 .. Len(s) : s[i] \in Range(s)
  BY <1>1 DEF Range
<1>3. s \in Seq(Range(s) \cup {t})
  BY <1>1, <1>2
<1> DEFINE u == Append(s, t)
<1>4. /\ u \in Seq(Range(s) \cup {t}) /\ Len(u) = Len(s) + 1 /\ DOMAIN u = 1 .. Len(s) + 1
      /\ u[Len(s) + 1] = t /\ \A i \in 1 .. Len(s) : u[i] = s[i]
  BY <1>3
<1> HIDE DEF u
<1>5. \A i \in 1 .. Len(u) : u[i] \in Range(u)
  BY <1>1, <1>4 DEF Range
<1>6. u \in Seq(Range(u))
  BY <1>4, <1>5
<1> QED BY <1>1, <1>4, <1>6 DEF u

----------------------------------------------------------------------------
(* The state of the chain. *)

Bytes == {"whole", "torn", "garbled", "edited", "stripped"}

(* A line that a reader can parse carries a receipt that was signed. *)
Lines == {l \in [id : Nat, bytes : Bytes] : Parsed(l) => l.id \in DOMAIN made}

ReceiptTyped(h) ==
    /\ made[h].agent \in Agents
    /\ made[h].parents \in Seq(1 .. h - 1)
    /\ made[h].at \in Nat
    /\ made[h].ext \in Extensions \cup {NoExt}

ChainTyped ==
    /\ made \in Seq(Range(made)) /\ Len(made) <= MaxReceipts
    /\ \A h \in DOMAIN made : ReceiptTyped(h)
    /\ chain \in Seq(Lines)
    /\ open \in [Agents -> BOOLEAN] /\ known \in [Agents -> SUBSET Nat]
    /\ now \in Nat
    /\ \A a \in Agents : VerifyStatement(a)

(* While every agent keeps to the rules the file is what was signed, in order,
   and the one logger that has it open knows all of it. *)
KeptInv ==
    /\ Len(chain) = Len(made)
    /\ \A i \in DOMAIN chain : chain[i] = Line(i)
    /\ \A a, b \in Agents : open[a] /\ open[b] => a = b
    /\ \A a \in Agents : open[a] => known[a] = DOMAIN made
    /\ VerifyChain(chain, Agents, FALSE)

ProvenanceInv == ChainTyped /\ (kept => KeptInv)

(* What a logger is asked to write: the taint follows from the parents it knows,
   the model and the tool are permitted, and the gate's extensions come at the
   root. *)
Asked(a, r) ==
    /\ r.agent = a /\ r.at = now /\ r.parents \in Seq(DOMAIN made)
    /\ \/ r.ext = NoExt
       \/ r.ext \in Extensions /\ r.parents = <<>> /\ r.op = "guardrail_scan" /\ r.verdict # ""
            /\ r.model = "" /\ r.tool = ""
    /\ r.model # "" => PermitsModel(stmt[a], r.model)
    /\ r.tool # "" /\ r.op # "sanitisation" => PermitsTool(stmt[a], r.tool)
    /\ r.parents # <<>> =>
         IF r.op = "sanitisation" THEN r.taint = InheritTaint(a, r.parents, {}) \ r.removed
                                  ELSE InheritTaint(a, r.parents, {}) \subseteq r.taint

LEMMA RecordIs ==
  ASSUME ChainTyped, NEW a \in Agents, Record(a)
  PROVE  \E r : Emit(a, r) /\ Asked(a, r)
<1>1. /\ <<>> \in Seq(DOMAIN made)
      /\ \A ps \in ParentLists : ps \in Seq(DOMAIN made)
  <2>1. \A h \in DOMAIN made : <<h>> \in Seq(DOMAIN made)
    OBVIOUS
  <2>2. \A h, k \in DOMAIN made : <<h, k>> \in Seq(DOMAIN made)
    OBVIOUS
  <2>3. <<>> \in Seq(DOMAIN made)
    OBVIOUS
  <2>4. ASSUME NEW ps \in ParentLists PROVE ps \in Seq(DOMAIN made)
    <3>1. \/ ps = <<>> \/ \E h \in DOMAIN made : ps = <<h>>
          \/ \E h, k \in DOMAIN made : ps = <<h, k>>
      BY DEF ParentLists
    <3> QED BY <2>1, <2>2, <2>3, <3>1
  <2> QED BY <2>3, <2>4
<1>3. ASSUME NEW t \in SUBSET Tags, RecordUserInput(a, t) PROVE \E r : Emit(a, r) /\ Asked(a, r)
  <2> DEFINE r == Receipt(a, "user_input", <<>>, t)
  <2>1. /\ r.agent = a /\ r.at = now /\ r.op = "user_input" /\ r.parents = <<>>
        /\ r.taint = t /\ r.ext = NoExt
        /\ r.model = "" /\ r.tool = "" /\ r.removed = {} /\ r.verdict = ""
    BY DEF Receipt
  <2>2. Emit(a, r)
    BY <1>3 DEF RecordUserInput
  <2> HIDE DEF r
  <2>3. Asked(a, r)
    BY <1>1, <2>1, <2>2 DEF Asked
  <2> QED BY <2>2, <2>3
<1>4. ASSUME NEW ps \in ParentLists, NEW m \in Models, RecordModelCall(a, ps, m, {}) PROVE \E r : Emit(a, r) /\ Asked(a, r)
  <2> DEFINE r == [Receipt(a, "model_call", ps, InheritTaint(a, ps, {})) EXCEPT !.model = m]
  <2>1. /\ r.agent = a /\ r.at = now /\ r.op = "model_call" /\ r.parents = ps
        /\ r.taint = InheritTaint(a, ps, {}) /\ r.ext = NoExt
        /\ r.model = m /\ r.tool = "" /\ r.removed = {} /\ r.verdict = ""
    BY DEF Receipt
  <2>2. Emit(a, r) /\ PermitsModel(stmt[a], m)
    BY <1>4 DEF RecordModelCall
  <2> HIDE DEF r
  <2>3. Asked(a, r)
    BY <1>1, <2>1, <2>2 DEF Asked
  <2> QED BY <2>2, <2>3
<1>5. ASSUME NEW ps \in ParentLists, NEW t \in Tools, RecordToolCall(a, ps, t, {}) PROVE \E r : Emit(a, r) /\ Asked(a, r)
  <2> DEFINE r == [Receipt(a, "tool_call", ps, InheritTaint(a, ps, {})) EXCEPT !.tool = t]
  <2>1. /\ r.agent = a /\ r.at = now /\ r.op = "tool_call" /\ r.parents = ps
        /\ r.taint = InheritTaint(a, ps, {}) /\ r.ext = NoExt
        /\ r.model = "" /\ r.tool = t /\ r.removed = {} /\ r.verdict = ""
    BY DEF Receipt
  <2>2. Emit(a, r) /\ PermitsTool(stmt[a], t)
    BY <1>5 DEF RecordToolCall
  <2> HIDE DEF r
  <2>3. Asked(a, r)
    BY <1>1, <2>1, <2>2 DEF Asked
  <2> QED BY <2>2, <2>3
<1>6. ASSUME NEW ps \in ParentLists, NEW b \in BOOLEAN, RecordRetrieval(a, ps, b) PROVE \E r : Emit(a, r) /\ Asked(a, r)
  <2> DEFINE r == Receipt(a, "retrieval", ps, InheritTaint(a, ps, IF b THEN {} ELSE {RagTag}))
  <2>1. /\ r.agent = a /\ r.at = now /\ r.op = "retrieval" /\ r.parents = ps
        /\ r.taint = InheritTaint(a, ps, IF b THEN {} ELSE {RagTag}) /\ r.ext = NoExt
        /\ r.model = "" /\ r.tool = "" /\ r.removed = {} /\ r.verdict = ""
    BY DEF Receipt
  <2>2. Emit(a, r)
    BY <1>6 DEF RecordRetrieval
  <2> HIDE DEF r
  <2>3. InheritTaint(a, ps, {}) \subseteq r.taint
    BY <2>1 DEF InheritTaint
  <2>4. Asked(a, r)
    BY <1>1, <2>1, <2>2, <2>3 DEF Asked
  <2> QED BY <2>2, <2>4
<1>7. ASSUME NEW ps \in ParentLists, RecordGuardrailScan(a, ps, "CLEAN") PROVE \E r : Emit(a, r) /\ Asked(a, r)
  <2> DEFINE r == [Receipt(a, "guardrail_scan", ps, InheritTaint(a, ps, {ScanTag})) EXCEPT !.verdict = "CLEAN"]
  <2>1. /\ r.agent = a /\ r.at = now /\ r.op = "guardrail_scan" /\ r.parents = ps
        /\ r.taint = InheritTaint(a, ps, {ScanTag}) /\ r.ext = NoExt
        /\ r.model = "" /\ r.tool = "" /\ r.removed = {} /\ r.verdict = "CLEAN"
    BY DEF Receipt
  <2>2. Emit(a, r)
    BY <1>7 DEF RecordGuardrailScan
  <2> HIDE DEF r
  <2>3. InheritTaint(a, ps, {}) \subseteq r.taint
    BY <2>1 DEF InheritTaint
  <2>4. Asked(a, r)
    BY <1>1, <2>1, <2>2, <2>3 DEF Asked
  <2> QED BY <2>2, <2>4
<1>8. ASSUME NEW ps \in ParentLists, RecordAgentHandoff(a, ps) PROVE \E r : Emit(a, r) /\ Asked(a, r)
  <2> DEFINE r == Receipt(a, "agent_handoff", ps, InheritTaint(a, ps, {}))
  <2>1. /\ r.agent = a /\ r.at = now /\ r.op = "agent_handoff" /\ r.parents = ps
        /\ r.taint = InheritTaint(a, ps, {}) /\ r.ext = NoExt
        /\ r.model = "" /\ r.tool = "" /\ r.removed = {} /\ r.verdict = ""
    BY DEF Receipt
  <2>2. Emit(a, r)
    BY <1>8 DEF RecordAgentHandoff
  <2> HIDE DEF r
  <2>3. Asked(a, r)
    BY <1>1, <2>1, <2>2 DEF Asked
  <2> QED BY <2>2, <2>3
<1>9. ASSUME NEW ps \in ParentLists, NEW rm, NEW t \in Tools, RecordSanitisation(a, ps, rm, t) PROVE \E r : Emit(a, r) /\ Asked(a, r)
  <2> DEFINE r == [Receipt(a, "sanitisation", ps, InheritTaint(a, ps, {}) \ rm) EXCEPT !.tool = t, !.removed = rm]
  <2>1. /\ r.agent = a /\ r.at = now /\ r.op = "sanitisation" /\ r.parents = ps
        /\ r.taint = InheritTaint(a, ps, {}) \ rm /\ r.ext = NoExt
        /\ r.model = "" /\ r.tool = t /\ r.removed = rm /\ r.verdict = ""
    BY DEF Receipt
  <2>2. Emit(a, r)
    BY <1>9 DEF RecordSanitisation
  <2> HIDE DEF r
  <2>3. Asked(a, r)
    BY <1>1, <2>1, <2>2 DEF Asked
  <2> QED BY <2>2, <2>3
<1>10. ASSUME NEW ps \in ParentLists, RecordMerge(a, ps, {}) PROVE \E r : Emit(a, r) /\ Asked(a, r)
  <2> DEFINE r == Receipt(a, "merge", ps, InheritTaint(a, ps, {}))
  <2>1. /\ r.agent = a /\ r.at = now /\ r.op = "merge" /\ r.parents = ps
        /\ r.taint = InheritTaint(a, ps, {}) /\ r.ext = NoExt
        /\ r.model = "" /\ r.tool = "" /\ r.removed = {} /\ r.verdict = ""
    BY DEF Receipt
  <2>2. Emit(a, r)
    BY <1>10 DEF RecordMerge
  <2> HIDE DEF r
  <2>3. Asked(a, r)
    BY <1>1, <2>1, <2>2 DEF Asked
  <2> QED BY <2>2, <2>3
<1>11. ASSUME NEW e \in Extensions, NEW v \in {"allow", "deny"}, RecordGate(a, e, v) PROVE \E r : Emit(a, r) /\ Asked(a, r)
  <2> DEFINE r == [Receipt(a, "guardrail_scan", <<>>, {ScanTag}) EXCEPT !.ext = e, !.verdict = v]
  <2>1. /\ r.agent = a /\ r.at = now /\ r.op = "guardrail_scan" /\ r.parents = <<>>
        /\ r.taint = {ScanTag} /\ r.ext = e
        /\ r.model = "" /\ r.tool = "" /\ r.removed = {} /\ r.verdict = v
    BY DEF Receipt
  <2>2. Emit(a, r)
    BY <1>11 DEF RecordGate
  <2> HIDE DEF r
  <2>3. Asked(a, r)
    BY <1>1, <2>1, <2>2 DEF Asked
  <2> QED BY <2>2, <2>3
<1> QED BY <1>3, <1>4, <1>5, <1>6, <1>7, <1>8, <1>9, <1>10, <1>11 DEF Record

----------------------------------------------------------------------------
(* A chain that verifies is verified line by line: what is appended to it does
   not change what was found on the lines before. *)

Appends(r) ==
    made' = Append(made, r) /\ chain' = Append(chain, Line(Len(made) + 1)) /\ stmt' = stmt

LEMMA AppendOther ==
  ASSUME NEW S, NEW s \in Seq(S), NEW t
  PROVE  /\ Len(s) \in Nat /\ DOMAIN s = 1 .. Len(s) /\ DOMAIN Append(s, t) = 1 .. Len(s) + 1
         /\ Len(Append(s, t)) = Len(s) + 1
         /\ Append(s, t)[Len(s) + 1] = t
         /\ \A i \in DOMAIN s : Append(s, t)[i] = s[i]
<1>1. s \in Seq(S \cup {t})
  OBVIOUS
<1> QED BY <1>1

LEMMA Grown ==
  ASSUME ChainTyped, NEW r, Appends(r)
  PROVE  /\ Len(made) \in Nat /\ DOMAIN made = 1 .. Len(made) /\ DOMAIN made' = 1 .. Len(made) + 1
         /\ Len(made') = Len(made) + 1 /\ made' \in Seq(Range(made'))
         /\ made'[Len(made) + 1] = r
         /\ \A h \in DOMAIN made : made'[h] = made[h]
         /\ Len(chain) \in Nat /\ DOMAIN chain = 1 .. Len(chain) /\ DOMAIN chain' = 1 .. Len(chain) + 1
         /\ Len(chain') = Len(chain) + 1
         /\ chain'[Len(chain) + 1] = Line(Len(made) + 1)
         /\ \A i \in DOMAIN chain : chain'[i] = chain[i]
<1>1. made \in Seq(Range(made)) /\ chain \in Seq(Lines)
  BY DEF ChainTyped
<1>2. /\ Len(chain) \in Nat /\ DOMAIN chain = 1 .. Len(chain) /\ DOMAIN chain' = 1 .. Len(chain) + 1
      /\ Len(chain') = Len(chain) + 1
      /\ chain'[Len(chain) + 1] = Line(Len(made) + 1)
      /\ \A i \in DOMAIN chain : chain'[i] = chain[i]
  BY <1>1, AppendOther DEF Appends
<1> QED BY <1>1, <1>2, AppendIs DEF Appends

LEMMA VerifiedLines ==
  ASSUME ChainTyped, NEW caps, VerifyChain(chain, caps, FALSE), NEW i \in DOMAIN chain
  PROVE  /\ i \in Records(chain) /\ chain[i].bytes = "whole"
         /\ chain[i].id \in DOMAIN made /\ chain[i].id \in Hashes(chain)
<1>1. i \in Records(chain) /\ ValidRecord(chain, i, FALSE)
  BY DEF VerifyChain
<1>2. chain[i].bytes = "whole"
  BY <1>1 DEF ValidRecord, VerifySignature, VerifySignatureHybrid, VerifySignatureV1
<1>3. chain[i] \in Lines
  BY DEF ChainTyped
<1> QED BY <1>1, <1>2, <1>3 DEF Lines, Records, Hashes

LEMMA EvidenceKept ==
  ASSUME ChainTyped, NEW r, Appends(r), NEW caps, VerifyChain(chain, caps, FALSE), NEW i \in DOMAIN chain
  PROVE  /\ Of(chain, i)' = Of(chain, i)
         /\ ExtensionsHold(chain, i)'
<1>1. /\ Len(made) \in Nat /\ DOMAIN made = 1 .. Len(made) /\ DOMAIN made' = 1 .. Len(made) + 1
      /\ \A h \in DOMAIN made : made'[h] = made[h]
      /\ Len(chain) \in Nat /\ DOMAIN chain = 1 .. Len(chain) /\ DOMAIN chain' = 1 .. Len(chain) + 1
      /\ chain'[Len(chain) + 1] = Line(Len(made) + 1)
      /\ \A j \in DOMAIN chain : chain'[j] = chain[j]
  BY Grown
<1>2. \A j \in DOMAIN chain : /\ chain[j].bytes = "whole" /\ chain[j].id \in DOMAIN made
                              /\ j \in Records(chain)
  BY VerifiedLines
<1>3. \A j \in DOMAIN chain : Of(chain, j)' = Of(chain, j)
  BY <1>1, <1>2 DEF Of
<1>4. ExtensionsHold(chain, i)
  BY <1>2 DEF VerifyChain
<1>5. Earlier(chain, i)' = Earlier(chain, i) /\ Earlier(chain, i) \subseteq DOMAIN chain
  BY <1>1, <1>2 DEF Earlier, Records, Parsed
<1>6. \A j \in DOMAIN chain : \A k : Kind(chain, j, k)' = Kind(chain, j, k)
  BY <1>3 DEF Kind
<1>7. RevokedBefore(chain, i)' = RevokedBefore(chain, i)
  <2>1. {j \in Earlier(chain, i) : Kind(chain, j, "revocation")}'
          = {j \in Earlier(chain, i) : Kind(chain, j, "revocation")}
    BY <1>5, <1>6
  <2>2. \A j \in {k \in Earlier(chain, i) : Kind(chain, k, "revocation")} : Of(chain, j)' = Of(chain, j)
    BY <1>3, <1>5
  <2> QED BY <2>1, <2>2 DEF RevokedBefore
<1>8. \A l : Grants(chain, i, l)' = Grants(chain, i, l)
  BY <1>3, <1>5, <1>6 DEF Grants
<1>9. \A h : Cited(chain, i, h)' = Cited(chain, i, h)
  BY <1>1, <1>5 DEF Cited
<1>10. CascadeHolds(chain, i)' /\ DigestHolds(chain, i)' /\ IntentHolds(chain, i)' /\ BilateralHolds(chain, i)'
  BY <1>3, <1>4, <1>6, <1>7 DEF ExtensionsHold, CascadeHolds, DigestHolds, IntentHolds, BilateralHolds
<1>11. FindingHolds(chain, i)'
  <2>1. \A h : Cited(chain, i, h) # {} => made'[h] = made[h]
    BY <1>1, <1>2, <1>5 DEF Cited
  <2> QED BY <1>3, <1>4, <1>6, <1>9, <2>1 DEF ExtensionsHold, FindingHolds
<1>12. TimeAnchorHolds(chain, i)'
  BY <1>3, <1>4, <1>6, <1>9 DEF ExtensionsHold, TimeAnchorHolds, TimeDigestBinds, TimeSourceHolds
<1>13. LeaseRedeemable(chain, i)'
  <2> DEFINE e == Of(chain, i)
             gs == Grants(chain, i, e.ext.lease)
             m == CHOOSE j \in gs : \A k \in gs : k <= j
  <2>1. ASSUME gs # {} PROVE m \in DOMAIN chain
    <3>1. gs \in SUBSET (1 .. Len(chain))
      BY <1>1, <1>5 DEF Grants
    <3> HIDE DEF gs
    <3>2. \E j \in gs : \A k \in gs : k <= j
      BY <1>1, <2>1, <3>1, GreatestUpTo
    <3> QED BY <1>1, <3>1, <3>2
  <2>2. Of(chain, i)' = e /\ Kind(chain, i, "redeemed")' = Kind(chain, i, "redeemed")
    BY <1>3, <1>6
  <2>3. e' = e /\ gs' = gs /\ m' = m
    BY <1>8, <2>2
  <2>4. gs # {} => made'[chain'[m].id] = made[chain[m].id]
    <3> HIDE DEF m, gs
    <3> QED BY <1>3, <2>1 DEF Of
  <2>5. gs # {} => Of(chain, m)' = Of(chain, m)
    <3> HIDE DEF m, gs
    <3> QED BY <2>3, <2>4 DEF Of
  <2>6. LeaseRedeemable(chain, i)
    BY <1>4 DEF ExtensionsHold
  <2> QED BY <2>2, <2>3, <2>5, <2>6 DEF LeaseRedeemable
<1> QED BY <1>3, <1>10, <1>11, <1>12, <1>13 DEF ExtensionsHold

(* A receipt that is in order is appended to a chain that verifies: the chain
   verifies. *)
LEMMA VerifyAppends ==
  ASSUME ChainTyped, NEW r, Appends(r), NEW caps, VerifyChain(chain, caps, FALSE),
         Range(r.parents) \subseteq Hashes(chain),
         ~StructuralErrors(r), Conforms(r, caps), TaintHolds(chain, r, caps),
         r.ext.kind \notin {"authority", "redeemed", "intent", "finding", "anchor", "bilateral"}
  PROVE  VerifyChain(chain, caps, FALSE)'
<1> DEFINE new == Len(chain) + 1
           h == Len(made) + 1
<1>1. /\ Len(made) \in Nat /\ DOMAIN made = 1 .. Len(made) /\ DOMAIN made' = 1 .. Len(made) + 1
      /\ made'[h] = r
      /\ \A g \in DOMAIN made : made'[g] = made[g]
      /\ Len(chain) \in Nat /\ DOMAIN chain = 1 .. Len(chain) /\ DOMAIN chain' = 1 .. Len(chain) + 1
      /\ chain'[new] = Line(h)
      /\ \A j \in DOMAIN chain : chain'[j] = chain[j]
  BY Grown
<1>2. \A j \in DOMAIN chain : /\ chain[j].bytes = "whole" /\ chain[j].id \in DOMAIN made
                              /\ j \in Records(chain) /\ chain[j].id \in Hashes(chain)
  BY VerifiedLines
<1>3. Line(h).id = h /\ Line(h).bytes = "whole" /\ made'[chain'[new].id] = r
  BY <1>1 DEF Line
<1> HIDE DEF new, h
<1>4. \A j \in DOMAIN chain' : j \in DOMAIN chain \/ j = new
  BY <1>1 DEF new
<1>5. Records(chain)' = DOMAIN chain'
  BY <1>1, <1>2, <1>3, <1>4 DEF Records, Parsed
<1>6. Hashes(chain) = {chain[j].id : j \in DOMAIN chain}
  <2>1. Records(chain) = DOMAIN chain
    BY DEF VerifyChain
  <2> QED BY <1>2, <2>1 DEF Hashes
<1>7. Hashes(chain)' = Hashes(chain) \cup {h}
  <2>1. \A j \in DOMAIN chain' : chain'[j].bytes = "whole"
    BY <1>1, <1>2, <1>3, <1>4
  <2>2. Hashes(chain)' = {chain'[j].id : j \in DOMAIN chain'}
    BY <1>5, <2>1 DEF Hashes
  <2>3. new \in DOMAIN chain' /\ \A j \in DOMAIN chain : j \in DOMAIN chain'
    BY <1>1 DEF new
  <2>4. ASSUME NEW x \in Hashes(chain)' PROVE x \in Hashes(chain) \cup {h}
    BY <1>1, <1>3, <1>4, <1>6, <2>2, <2>4
  <2>5. Hashes(chain) \subseteq Hashes(chain)' /\ h \in Hashes(chain)'
    BY <1>1, <1>3, <1>6, <2>2, <2>3
  <2> QED BY <2>4, <2>5
<1>8. ASSUME NEW i \in DOMAIN chain'
      PROVE  (ValidRecord(chain, i, FALSE) /\ Conforms(Of(chain, i), caps) /\ ExtensionsHold(chain, i))'
  <2>1. CASE i \in DOMAIN chain
    <3>1. Of(chain, i)' = Of(chain, i) /\ ExtensionsHold(chain, i)'
      BY <2>1, EvidenceKept
    <3>2. ValidRecord(chain, i, FALSE) /\ Conforms(Of(chain, i), caps)
      BY <1>2, <2>1 DEF VerifyChain
    <3>3. ValidRecord(chain, i, FALSE)'
      BY <1>1, <2>1, <3>1, <3>2
         DEF ValidRecord, VerifySignature, VerifySignatureHybrid, VerifySignatureV1, Segments, StructuralErrors
    <3>4. Conforms(Of(chain, i), caps)'
      BY <3>1, <3>2 DEF Conforms, VerifyStatement, Appends
    <3> QED BY <3>1, <3>3, <3>4
  <2>2. CASE i = new
    <3>1. Of(chain, i)' = r /\ chain'[i].bytes = "whole"
      BY <1>1, <1>3, <2>2 DEF Of
    <3>2. ValidRecord(chain, i, FALSE)'
      BY <3>1 DEF ValidRecord, VerifySignature, VerifySignatureHybrid, VerifySignatureV1, Segments, StructuralErrors
    <3>3. Conforms(Of(chain, i), caps)'
      BY <3>1 DEF Conforms, VerifyStatement, Appends
    <3>4. ExtensionsHold(chain, i)'
      BY <3>1 DEF ExtensionsHold, DigestHolds, LeaseRedeemable, CascadeHolds, IntentHolds, FindingHolds,
                  TimeAnchorHolds, BilateralHolds, Kind
    <3> QED BY <3>2, <3>3, <3>4
  <2> QED BY <1>4, <2>1, <2>2
<1>9. DagAndTaint(chain, caps)'
  <2>1. DagAndTaint(chain, caps) /\ Hashes(chain) \subseteq DOMAIN made
    BY <1>2, <1>6 DEF VerifyChain
  <2>2. ASSUME NEW q, Range(q.parents) \subseteq Hashes(chain), TaintHolds(chain, q, caps)
        PROVE  TaintHolds(chain, q, caps)'
    <3>1. /\ Range(q.parents) \cap Hashes(chain)' = Range(q.parents) \cap Hashes(chain)
          /\ \A p \in Range(q.parents) \cap Hashes(chain) : made'[p].taint = made[p].taint
      BY <1>1, <1>7, <2>1, <2>2 DEF h
    <3>2. Inherited(chain, q)' = Inherited(chain, q)
      BY <3>1 DEF Inherited
    <3> QED BY <2>2, <3>2 DEF TaintHolds, SanitisationTaint, MonotonicTaint, Appends
  <2>3. ASSUME NEW g \in Hashes(chain)'
        PROVE  Range(made'[g].parents) \subseteq Hashes(chain)' /\ TaintHolds(chain, made[g], caps)'
    <3>1. CASE g = h
      BY <1>1, <1>7, <2>2, <3>1
    <3>2. CASE g \in Hashes(chain)
      <4>1. Range(made[g].parents) \subseteq Hashes(chain) /\ TaintHolds(chain, made[g], caps)
        BY <2>1, <3>2 DEF DagAndTaint
      <4>2. made'[g] = made[g]
        BY <1>1, <2>1, <3>2
      <4> QED BY <1>7, <2>2, <4>1, <4>2
    <3> QED BY <1>7, <2>3, <3>1, <3>2
  <2> QED BY <2>3 DEF DagAndTaint
<1> QED BY <1>5, <1>8, <1>9 DEF VerifyChain

----------------------------------------------------------------------------
(* Every step keeps the types. *)

LEMMA TipIs ==
  ASSUME ChainTyped
  PROVE  /\ chain = <<>> => Tip = Line(0)
         /\ chain # <<>> => Tip = chain[Len(chain)] /\ Len(chain) \in DOMAIN chain
BY DEF ChainTyped, Tip, Last

LEMMA WrittenIs ==
  ASSUME ChainTyped, NEW r, made' = Append(made, r)
  PROVE  /\ Tip.bytes # "torn" => Written(Len(made) + 1) = Append(chain, Line(Len(made) + 1))
         /\ Written(Len(made) + 1) \in Seq(Lines')
<1>1. made \in Seq(Range(made)) /\ chain \in Seq(Lines)
  BY DEF ChainTyped
<1>2. /\ Len(made) \in Nat /\ DOMAIN made = 1 .. Len(made) /\ DOMAIN made' = 1 .. Len(made) + 1
  BY <1>1, AppendIs
<1>3. Lines \subseteq Lines' /\ Line(Len(made) + 1) \in Lines' /\ [Torn EXCEPT !.bytes = "garbled"] \in Lines'
  BY <1>2 DEF Lines, Line, Torn, Bytes, Parsed
<1>4. chain \in Seq(Lines')
  BY <1>1, <1>3
<1>5. CASE Tip.bytes = "torn"
  <2>1. chain # <<>> /\ Len(chain) > 0
    BY <1>1, <1>5, TipIs DEF Line
  <2>2. Front(chain) \in Seq(Lines')
    BY <1>4, <2>1 DEF Front
  <2> QED BY <1>3, <1>4, <1>5, <2>2 DEF Written
<1>6. CASE Tip.bytes # "torn"
  BY <1>3, <1>4, <1>6 DEF Written
<1> QED BY <1>5, <1>6

LEMMA EmitTyped ==
  ASSUME ChainTyped, NEW a \in Agents, NEW r, Emit(a, r), Asked(a, r)
  PROVE  ChainTyped'
<1>1. /\ made' = Append(made, r) /\ chain' = Written(Len(made) + 1) /\ Len(made) < MaxReceipts
      /\ known' = [known EXCEPT ![a] = @ \cup {Len(made) + 1}] /\ UNCHANGED <<open, stmt, now>>
  BY DEF Emit
<1>2. /\ Len(made) \in Nat /\ DOMAIN made = 1 .. Len(made) /\ DOMAIN made' = 1 .. Len(made) + 1
      /\ Len(made') = Len(made) + 1 /\ made' \in Seq(Range(made')) /\ made'[Len(made) + 1] = r
      /\ \A h \in DOMAIN made : made'[h] = made[h]
  BY <1>1, AppendIs DEF ChainTyped
<1>3. Len(made') <= MaxReceipts
  <2>1. MaxReceipts \in Nat
    BY ProvenanceAssumption
  <2> QED BY <1>1, <1>2, <2>1
<1>4. chain' \in Seq(Lines')
  BY <1>1, WrittenIs
<1>5. known' \in [Agents -> SUBSET Nat]
  BY <1>1, <1>2 DEF ChainTyped
<1>6. ASSUME NEW h \in DOMAIN made' PROVE ReceiptTyped(h)'
  <2>1. CASE h \in DOMAIN made
    <3>1. made'[h] = made[h] /\ ReceiptTyped(h)
      BY <1>2, <2>1 DEF ChainTyped
    <3> QED BY <3>1 DEF ReceiptTyped
  <2>2. CASE h = Len(made) + 1
    <3>1. made'[h] = r /\ 1 .. h - 1 = DOMAIN made
      BY <1>2, <2>2
    <3>2. /\ r.agent \in Agents /\ r.parents \in Seq(1 .. h - 1) /\ r.at \in Nat
          /\ r.ext \in Extensions \cup {NoExt}
      BY <3>1 DEF Asked, ChainTyped
    <3> QED BY <3>1, <3>2 DEF ReceiptTyped
  <2> QED BY <1>2, <2>1, <2>2
<1> QED BY <1>1, <1>2, <1>3, <1>4, <1>5, <1>6 DEF ChainTyped, VerifyStatement

LEMMA FileTyped ==
  ASSUME ChainTyped, chain' \in Seq(Lines), UNCHANGED <<made, stmt, now>>,
         open' \in [Agents -> BOOLEAN], known' \in [Agents -> SUBSET Nat]
  PROVE  ChainTyped'
<1>1. Lines' = Lines
  BY DEF Lines
<1> QED BY <1>1 DEF ChainTyped, ReceiptTyped, VerifyStatement

LEMMA AlterTyped ==
  ASSUME ChainTyped, Alter
  PROVE  ChainTyped' /\ ~kept'
<1>1. chain \in Seq(Lines)
  BY DEF ChainTyped
<1>2. PICK c : Damage(c) /\ \E i \in DOMAIN chain :
          \/ c = RemoveAt(chain, i)
          \/ c = Append(chain, chain[i])
          \/ i < Len(chain) /\ c = [chain EXCEPT ![i] = chain[i+1], ![i+1] = chain[i]]
          \/ \E how \in {"edited", "stripped"} : chain[i].bytes = "whole" /\ c = Rewritten(i, how)
  BY DEF Alter
<1>3. PICK i \in DOMAIN chain :
          \/ c = RemoveAt(chain, i)
          \/ c = Append(chain, chain[i])
          \/ i < Len(chain) /\ c = [chain EXCEPT ![i] = chain[i+1], ![i+1] = chain[i]]
          \/ \E how \in {"edited", "stripped"} : chain[i].bytes = "whole" /\ c = Rewritten(i, how)
  BY <1>2
<1>4. i \in 1 .. Len(chain) /\ Len(chain) \in Nat /\ chain[i] \in Lines
  BY <1>1
<1>5. ASSUME c = RemoveAt(chain, i) PROVE c \in Seq(Lines)
  <2>1. SubSeq(chain, 1, i - 1) \in Seq(Lines) /\ SubSeq(chain, i + 1, Len(chain)) \in Seq(Lines)
    BY <1>1, <1>4
  <2> QED BY <1>5, <2>1 DEF RemoveAt
<1>6. ASSUME c = Append(chain, chain[i]) PROVE c \in Seq(Lines)
  BY <1>1, <1>4, <1>6
<1>7. ASSUME i < Len(chain), c = [chain EXCEPT ![i] = chain[i+1], ![i+1] = chain[i]] PROVE c \in Seq(Lines)
  <2>1. i + 1 \in 1 .. Len(chain) /\ chain[i+1] \in Lines
    BY <1>1, <1>4, <1>7
  <2> QED BY <1>1, <1>4, <1>7, <2>1
<1>8. ASSUME NEW how \in {"edited", "stripped"}, chain[i].bytes = "whole", c = Rewritten(i, how)
      PROVE  c \in Seq(Lines)
  <2>1. [chain[i] EXCEPT !.bytes = how] \in Lines
    BY <1>4, <1>8 DEF Lines, Bytes, Parsed
  <2>2. c = [chain EXCEPT ![i] = [chain[i] EXCEPT !.bytes = how]]
    BY <1>1, <1>4, <1>8 DEF Rewritten
  <2> QED BY <1>1, <1>4, <2>1, <2>2
<1>9. c \in Seq(Lines)
  BY <1>3, <1>5, <1>6, <1>7, <1>8
<1> QED BY <1>2, <1>9, FileTyped DEF Damage, ChainTyped

LEMMA TypedStep == ChainTyped /\ [Next]_vars => ChainTyped'
<1> SUFFICES ASSUME ChainTyped, [Next]_vars PROVE ChainTyped'
  OBVIOUS
<1>1. ASSUME NEW a \in Agents, Record(a) PROVE ChainTyped'
  BY <1>1, RecordIs, EmitTyped
<1>2. ASSUME NEW a \in Agents, OpenLogger(a) PROVE ChainTyped'
  <2>1. {l.id : l \in {m \in Range(chain) : m.bytes = "whole"}} \subseteq Nat
    BY DEF ChainTyped, Lines, Range
  <2>2. open' \in [Agents -> BOOLEAN] /\ known' \in [Agents -> SUBSET Nat]
    BY <1>2, <2>1 DEF OpenLogger, ChainTyped
  <2> QED BY <1>2, <2>2, FileTyped DEF OpenLogger, ChainTyped
<1>3. ASSUME NEW a \in Agents, CloseLogger(a) PROVE ChainTyped'
  <2>1. open' \in [Agents -> BOOLEAN] /\ known' \in [Agents -> SUBSET Nat]
    BY <1>3 DEF CloseLogger, ChainTyped
  <2> QED BY <1>3, <2>1, FileTyped DEF CloseLogger, ChainTyped
<1>4. ASSUME NEW a \in Agents, Crash(a) PROVE ChainTyped'
  <2>1. open' \in [Agents -> BOOLEAN] /\ known' \in [Agents -> SUBSET Nat]
    BY <1>4 DEF Crash, ChainTyped
  <2>2. Torn \in Lines
    BY DEF Torn, Lines, Bytes, Parsed
  <2>3. chain' \in Seq(Lines)
    BY <1>4, <2>2 DEF Crash, ChainTyped
  <2> QED BY <1>4, <2>1, <2>3, FileTyped DEF Crash
<1>5. CASE Tick
  <2>1. Lines' = Lines
    BY <1>5 DEF Tick, Lines
  <2> QED BY <1>5, <2>1 DEF Tick, ChainTyped, ReceiptTyped, VerifyStatement
<1>6. CASE UNCHANGED vars
  BY <1>6, FileTyped DEF vars, ChainTyped
<1> QED BY <1>1, <1>2, <1>3, <1>4, <1>5, <1>6, AlterTyped DEF Next

(* A revocation that is appended to a chain that verifies. *)
LEMMA PastStep ==
  ASSUME ChainTyped, [Next]_vars
  PROVE  PastSpared
<1> SUFFICES ASSUME VerifyChain(chain, {}, FALSE), Len(chain') = Len(chain) + 1, Len(made') > Len(made),
                    Last(made').ext.kind = "revocation"
             PROVE  VerifyChain(chain, {}, FALSE)'
  BY DEF PastSpared
<1>1. PICK a \in Agents : Record(a)
  BY DEF Next, vars, OpenLogger, CloseLogger, Crash, Alter, Damage, Tick, ChainTyped
<1>2. PICK r : Emit(a, r) /\ Asked(a, r)
  BY <1>1, RecordIs
<1>3. made' = Append(made, r) /\ chain' = Written(Len(made) + 1) /\ stmt' = stmt
  BY <1>2 DEF Emit
<1>4. Last(made') = r
  BY <1>3, AppendIs DEF ChainTyped, Last
<1>5. r.parents = <<>> /\ r.op = "guardrail_scan" /\ r.verdict # ""
  <2>1. r.ext.kind = "revocation" /\ NoExt.kind # "revocation"
    BY <1>4 DEF NoExt
  <2>2. r.ext # NoExt
    BY <2>1
  <2> QED BY <1>2, <2>2 DEF Asked
<1>6. Tip.bytes # "torn"
  <2>1. CASE chain = <<>>
    BY <2>1, TipIs DEF Line
  <2>2. CASE chain # <<>>
    <3>1. Tip = chain[Len(chain)] /\ Len(chain) \in DOMAIN chain
      BY <2>2, TipIs
    <3>2. chain[Len(chain)].bytes = "whole"
      BY <3>1, VerifiedLines
    <3> QED BY <3>1, <3>2
  <2> QED BY <2>1, <2>2
<1>7. Appends(r)
  BY <1>3, <1>6, WrittenIs DEF Appends
<1>8. ~StructuralErrors(r) /\ Range(r.parents) = {}
  <2> DEFINE none == <<>>
  <2>1. DOMAIN none = {}
    OBVIOUS
  <2>2. DOMAIN r.parents = {}
    BY <1>5, <2>1
  <2>3. Range(r.parents) = {} /\ IsInjective(r.parents)
    BY <2>2 DEF Range, IsInjective
  <2> QED BY <1>5, <2>3 DEF StructuralErrors, RootableOps
<1>9. Conforms(r, {}) /\ TaintHolds(chain, r, {})
  BY <1>5 DEF Conforms, TaintHolds
<1> QED BY <1>4, <1>7, <1>8, <1>9, VerifyAppends

(* What a verifier finds depends on the receipts, the lines and the statements. *)
LEMMA SameChain ==
  ASSUME UNCHANGED <<made, chain, stmt>>, NEW caps, VerifyChain(chain, caps, FALSE)
  PROVE  VerifyChain(chain, caps, FALSE)'
<1>1. \A i : Of(chain, i)' = Of(chain, i)
  BY DEF Of
<1>2. Records(chain)' = Records(chain) /\ Hashes(chain)' = Hashes(chain)
  BY DEF Records, Hashes, Parsed
<1>3. ASSUME NEW i \in Records(chain) PROVE ExtensionsHold(chain, i)'
  <2>1. ExtensionsHold(chain, i)
    BY <1>3 DEF VerifyChain
  <2>2. \A j, k : Kind(chain, j, k)' = Kind(chain, j, k)
    BY <1>1 DEF Kind
  <2>3. Earlier(chain, i)' = Earlier(chain, i)
    BY <1>2 DEF Earlier
  <2>4. RevokedBefore(chain, i)' = RevokedBefore(chain, i)
    BY <1>1, <2>2, <2>3 DEF RevokedBefore
  <2>5. \A l : Grants(chain, i, l)' = Grants(chain, i, l)
    BY <1>1, <2>2, <2>3 DEF Grants
  <2>6. \A h : Cited(chain, i, h)' = Cited(chain, i, h)
    BY <2>3 DEF Cited
  <2>7. CascadeHolds(chain, i)' /\ DigestHolds(chain, i)' /\ IntentHolds(chain, i)' /\ BilateralHolds(chain, i)'
    BY <1>1, <2>1, <2>2, <2>4 DEF ExtensionsHold, CascadeHolds, DigestHolds, IntentHolds, BilateralHolds
  <2>8. FindingHolds(chain, i)' /\ TimeAnchorHolds(chain, i)'
    BY <1>1, <2>1, <2>2, <2>6 DEF ExtensionsHold, FindingHolds, TimeAnchorHolds, TimeDigestBinds, TimeSourceHolds
  <2>9. LeaseRedeemable(chain, i)'
    <3> DEFINE gs == Grants(chain, i, Of(chain, i).ext.lease)
               m == CHOOSE j \in gs : \A k \in gs : k <= j
    <3>1. gs' = gs /\ m' = m
      BY <1>1, <2>5
    <3>2. Of(chain, m)' = Of(chain, m)
      <4> HIDE DEF m, gs
      <4> QED BY <3>1 DEF Of
    <3> QED BY <1>1, <2>1, <2>2, <3>1, <3>2 DEF ExtensionsHold, LeaseRedeemable
  <2> QED BY <2>7, <2>8, <2>9 DEF ExtensionsHold
<1>4. ASSUME NEW i \in Records(chain) PROVE ValidRecord(chain, i, FALSE)' /\ Conforms(Of(chain, i), caps)'
  <2>1. ValidRecord(chain, i, FALSE) /\ Conforms(Of(chain, i), caps)
    BY <1>4 DEF VerifyChain
  <2> QED BY <2>1 DEF ValidRecord, VerifySignature, VerifySignatureHybrid, VerifySignatureV1, Segments, Of,
                      StructuralErrors, Conforms, VerifyStatement
<1>5. DagAndTaint(chain, caps)'
  <2>1. DagAndTaint(chain, caps)
    BY DEF VerifyChain
  <2> QED BY <1>2, <2>1 DEF DagAndTaint, TaintHolds, SanitisationTaint, MonotonicTaint, Inherited
<1>6. Records(chain) = DOMAIN chain
  BY DEF VerifyChain
<1> QED BY <1>2, <1>3, <1>4, <1>5, <1>6 DEF VerifyChain

LEMMA KeptHashes ==
  ASSUME ChainTyped, KeptInv
  PROVE  /\ DOMAIN made = 1 .. Len(made) /\ Len(made) \in Nat
         /\ DOMAIN chain = DOMAIN made /\ Hashes(chain) = DOMAIN made
         /\ {l.id : l \in {m \in Range(chain) : m.bytes = "whole"}} = DOMAIN made
         /\ Tip.bytes # "torn"
<1>1. /\ DOMAIN made = 1 .. Len(made) /\ Len(made) \in Nat
      /\ DOMAIN chain = 1 .. Len(chain) /\ Len(chain) = Len(made)
  BY AppendIs DEF ChainTyped, KeptInv
<1>2. \A i \in DOMAIN chain : chain[i].id = i /\ chain[i].bytes = "whole"
  BY DEF KeptInv, Line
<1>3. Records(chain) = DOMAIN chain
  BY <1>2 DEF Records, Parsed
<1>4. Hashes(chain) = DOMAIN made
  BY <1>1, <1>2, <1>3 DEF Hashes
<1>5. Range(chain) = {chain[i] : i \in DOMAIN chain}
  BY DEF Range
<1>6. {l.id : l \in {m \in Range(chain) : m.bytes = "whole"}} = DOMAIN made
  <2>1. ASSUME NEW h \in DOMAIN made PROVE h \in {l.id : l \in {m \in Range(chain) : m.bytes = "whole"}}
    <3>1. chain[h] \in Range(chain) /\ chain[h].bytes = "whole" /\ chain[h].id = h
      BY <1>1, <1>2, <1>5
    <3> QED BY <3>1
  <2>2. ASSUME NEW l \in Range(chain) PROVE l.id \in DOMAIN made
    BY <1>1, <1>2, <1>5
  <2> QED BY <2>1, <2>2
<1>7. Tip.bytes # "torn"
  <2>1. CASE chain = <<>>
    BY <2>1, TipIs DEF Line
  <2>2. CASE chain # <<>>
    BY <1>2, <2>2, TipIs
  <2> QED BY <2>1, <2>2
<1> QED BY <1>1, <1>4, <1>6, <1>7

LEMMA RecordKept ==
  ASSUME ChainTyped, KeptInv, NEW a \in Agents, NEW r, Emit(a, r), Asked(a, r), KeepsRules(a, r)
  PROVE  KeptInv'
<1>1. /\ open[a] /\ made' = Append(made, r) /\ chain' = Written(Len(made) + 1)
      /\ known' = [known EXCEPT ![a] = @ \cup {Len(made) + 1}] /\ open' = open /\ stmt' = stmt
  BY DEF Emit
<1>2. /\ DOMAIN made = 1 .. Len(made) /\ Len(made) \in Nat
      /\ DOMAIN chain = DOMAIN made /\ Hashes(chain) = DOMAIN made /\ Tip.bytes # "torn"
  BY KeptHashes
<1>3. Appends(r)
  BY <1>1, <1>2, WrittenIs DEF Appends
<1>4. /\ DOMAIN made' = 1 .. Len(made) + 1 /\ Len(made') = Len(made) + 1
      /\ DOMAIN chain' = 1 .. Len(chain) + 1 /\ Len(chain') = Len(chain) + 1
      /\ chain'[Len(chain) + 1] = Line(Len(made) + 1)
      /\ \A i \in DOMAIN chain : chain'[i] = chain[i]
  BY <1>3, Grown
<1>5. Len(chain) = Len(made) /\ known[a] = DOMAIN made /\ \A b \in Agents : open[b] => b = a
  BY <1>1 DEF KeptInv
<1>6. Len(chain') = Len(made') /\ \A i \in DOMAIN chain' : chain'[i] = Line(i)
  <2>1. ASSUME NEW i \in DOMAIN chain' PROVE chain'[i] = Line(i)
    <3>1. CASE i \in DOMAIN chain
      BY <1>4, <3>1 DEF KeptInv
    <3>2. CASE i = Len(chain) + 1
      BY <1>4, <1>5, <3>2
    <3> QED BY <1>2, <1>4, <1>5, <3>1, <3>2
  <2> QED BY <1>4, <1>5, <2>1
<1>7. \A b \in Agents : open'[b] => b = a /\ known'[b] = DOMAIN made'
  <2>1. known'[a] = DOMAIN made \cup {Len(made) + 1}
    BY <1>1, <1>5 DEF ChainTyped
  <2>2. DOMAIN made' = DOMAIN made \cup {Len(made) + 1}
    BY <1>2, <1>4
  <2> QED BY <1>1, <1>5, <2>1, <2>2
<1>8. InheritTaint(a, r.parents, {}) = Inherited(chain, r)
  BY <1>2, <1>5 DEF InheritTaint, Inherited
<1>9. r.agent = a /\ r.at = now /\ VerifyStatement(a) /\ Agents # {}
  BY DEF Asked, ChainTyped
<1>10. TaintHolds(chain, r, Agents)
  BY <1>8, <1>9 DEF TaintHolds, SanitisationTaint, MonotonicTaint, Asked, KeepsRules
<1>11. Conforms(r, Agents)
  <2>1. r.tool # "" => PermitsTool(stmt[a], r.tool)
    BY DEF Asked, KeepsRules
  <2> QED BY <1>9, <2>1 DEF Conforms, Asked, KeepsRules
<1>12. VerifyChain(chain, Agents, FALSE)'
  <2>1. r.ext.kind = "none"
    BY DEF KeepsRules, NoExt
  <2> QED BY <1>3, <1>10, <1>11, <2>1, VerifyAppends DEF KeptInv, KeepsRules
<1> QED BY <1>6, <1>7, <1>12 DEF KeptInv

LEMMA KeptStep ==
  ASSUME ProvenanceInv, [Next]_vars, kept'
  PROVE  KeptInv'
<1>1. ChainTyped /\ (kept => KeptInv)
  BY DEF ProvenanceInv
<1>2. ASSUME NEW a \in Agents, Record(a) PROVE KeptInv'
  <2>1. PICK r : Emit(a, r) /\ Asked(a, r)
    BY <1>1, <1>2, RecordIs
  <2>2. kept /\ KeepsRules(a, r)
    BY <2>1 DEF Emit
  <2> QED BY <1>1, <2>1, <2>2, RecordKept
<1>3. ASSUME NEW a \in Agents, OpenLogger(a) PROVE KeptInv'
  <2>1. /\ kept /\ \A b \in Agents : ~open[b]
        /\ open' = [open EXCEPT ![a] = TRUE] /\ UNCHANGED <<made, chain, stmt>>
        /\ known' = [known EXCEPT ![a] = {l.id : l \in {m \in Range(chain) : m.bytes = "whole"}}]
    BY <1>3 DEF OpenLogger
  <2>2. \A b \in Agents : open'[b] => b = a
    BY <1>1, <2>1 DEF ChainTyped
  <2>3. known'[a] = DOMAIN made
    BY <1>1, <2>1, KeptHashes DEF ChainTyped
  <2>4. VerifyChain(chain, Agents, FALSE)'
    BY <1>1, <2>1, SameChain DEF KeptInv
  <2> QED BY <1>1, <2>1, <2>2, <2>3, <2>4 DEF KeptInv
<1>4. ASSUME NEW a \in Agents, CloseLogger(a) PROVE KeptInv'
  <2>1. /\ kept /\ open' = [open EXCEPT ![a] = FALSE] /\ UNCHANGED <<made, chain, stmt>>
        /\ known' = [known EXCEPT ![a] = {}]
    BY <1>4 DEF CloseLogger
  <2>2. \A b \in Agents : open'[b] => open[b] /\ b # a /\ known'[b] = known[b]
    BY <1>1, <2>1 DEF ChainTyped
  <2>3. VerifyChain(chain, Agents, FALSE)'
    BY <1>1, <2>1, SameChain DEF KeptInv
  <2> QED BY <1>1, <2>1, <2>2, <2>3 DEF KeptInv
<1>5. CASE Tick \/ UNCHANGED vars
  <2>1. kept /\ UNCHANGED <<made, chain, stmt, open, known>>
    BY <1>5 DEF Tick, vars
  <2>2. VerifyChain(chain, Agents, FALSE)'
    BY <1>1, <2>1, SameChain DEF KeptInv
  <2> QED BY <1>1, <2>1, <2>2 DEF KeptInv
<1>6. ASSUME NEW a \in Agents, Crash(a) PROVE FALSE
  BY <1>6 DEF Crash
<1>7. ASSUME Alter PROVE FALSE
  BY <1>1, <1>7, AlterTyped
<1> QED BY <1>2, <1>3, <1>4, <1>5, <1>6, <1>7 DEF Next

LEMMA ChainStarts == Init => ProvenanceInv
<1> SUFFICES ASSUME Init PROVE ProvenanceInv
  OBVIOUS
<1>1. /\ made = <<>> /\ chain = <<>> /\ now = 0
      /\ open = [a \in Agents |-> FALSE] /\ known = [a \in Agents |-> {}]
  BY DEF Init
<1>2. \A a \in Agents : VerifyStatement(a)
  <2>1. PICK s \in [Agents -> Statements] : stmt = [a \in Agents |-> Generate(a, s[a])]
    BY DEF Init
  <2> SUFFICES ASSUME NEW a \in Agents PROVE stmt[a].agent = a
    BY DEF VerifyStatement
  <2>2. s[a] \in [agent : Agents \cup {""}, models : SUBSET Models, tools : SUBSET Tools,
                  clears : SUBSET (Tags \cup {"*"}), ttl : Nat, exp : {0}, strict : BOOLEAN]
    BY ProvenanceAssumption
  <2>3. stmt[a] = [s[a] EXCEPT !.agent = a, !.exp = IF s[a].ttl = 0 THEN 0 ELSE now + s[a].ttl]
    BY <2>1 DEF Generate
  <2> QED BY <2>2, <2>3
<1>3. ChainTyped
  <2>1. made \in Seq(Range(made)) /\ Len(made) = 0 /\ DOMAIN made = {}
    BY <1>1
  <2>2. 0 <= MaxReceipts
    <3>1. MaxReceipts \in Nat
      BY ProvenanceAssumption
    <3> QED BY <3>1
  <2>3. chain \in Seq(Lines)
    BY <1>1
  <2> QED BY <1>1, <1>2, <2>1, <2>2, <2>3 DEF ChainTyped
<1>4. VerifyChain(chain, Agents, FALSE)
  <2>1. DOMAIN chain = {}
    BY <1>1
  <2>2. Records(chain) = {} /\ Hashes(chain) = {}
    BY <2>1 DEF Records, Hashes
  <2> QED BY <2>1, <2>2 DEF VerifyChain, DagAndTaint
<1>5. KeptInv
  <2>1. Len(chain) = Len(made) /\ DOMAIN chain = {} /\ \A a \in Agents : ~open[a]
    BY <1>1
  <2> QED BY <1>4, <2>1 DEF KeptInv
<1> QED BY <1>3, <1>5 DEF ProvenanceInv

LEMMA ProvenanceStep == ProvenanceInv /\ [Next]_vars => ProvenanceInv'
BY TypedStep, KeptStep DEF ProvenanceInv

LEMMA AlwaysProvenance == Spec => []ProvenanceInv
BY ChainStarts, ProvenanceStep, PTL DEF Spec

----------------------------------------------------------------------------
(* What a chain that verifies proves. *)

LEMMA AuthorityStands ==
  ASSUME ChainTyped, VerifyChain(chain, {}, FALSE), NEW i \in DOMAIN chain,
         Of(chain, i).ext.kind = "authority", NEW j \in 1 .. i, Kind(chain, j, "revocation")
  PROVE  Of(chain, i).ext.cites \cap Of(chain, j).ext.ids = {}
<1>1. Len(chain) \in Nat /\ DOMAIN chain = 1 .. Len(chain)
  BY DEF ChainTyped
<1>2. j # i
  BY DEF Kind
<1>3. j \in Earlier(chain, i)
  <2>1. j \in DOMAIN chain /\ j < i
    BY <1>1, <1>2
  <2>2. j \in Records(chain)
    BY <2>1, VerifiedLines
  <2> QED BY <2>1, <2>2 DEF Earlier
<1>4. CascadeHolds(chain, i)
  BY DEF VerifyChain, ExtensionsHold
<1>5. Of(chain, j).ext.ids \subseteq RevokedBefore(chain, i)
  BY <1>3 DEF RevokedBefore
<1> QED BY <1>4, <1>5 DEF CascadeHolds, Kind

LEMMA LeaseStands ==
  ASSUME ChainTyped, VerifyChain(chain, {}, FALSE), NEW i \in DOMAIN chain,
         Of(chain, i).ext.kind = "redeemed"
  PROVE  \E j \in 1 .. i - 1 :
           /\ Kind(chain, j, "granted") /\ Of(chain, j).ext.lease = Of(chain, i).ext.lease
           /\ Of(chain, i).at - Of(chain, j).at <= Of(chain, j).ext.ttl
           /\ Of(chain, i).ext.scopes = {} \/ Of(chain, j).ext.scopes = {}
                \/ Of(chain, i).ext.scopes \subseteq Of(chain, j).ext.scopes
<1> DEFINE e == Of(chain, i).ext
           gs == Grants(chain, i, e.lease)
           m == CHOOSE j \in gs : \A k \in gs : k <= j
<1>1. Len(chain) \in Nat /\ DOMAIN chain = 1 .. Len(chain) /\ i \in Nat
  BY DEF ChainTyped
<1>2. /\ gs # {} /\ Of(chain, i).at <= Of(chain, m).at + Of(chain, m).ext.ttl
      /\ e.scopes # {} /\ Of(chain, m).ext.scopes # {} => e.scopes \subseteq Of(chain, m).ext.scopes
  BY DEF VerifyChain, ExtensionsHold, LeaseRedeemable, Kind
<1>3. gs \in SUBSET (1 .. i - 1)
  BY <1>1 DEF Grants, Earlier, Records
<1>4. m \in gs
  <2>1. gs \in SUBSET (1 .. i) /\ gs # {}
    BY <1>1, <1>2, <1>3
  <2> HIDE DEF gs
  <2>2. \E j \in gs : \A k \in gs : k <= j
    BY <1>1, <2>1, GreatestUpTo
  <2> QED BY <2>2
<1>5. Kind(chain, m, "granted") /\ Of(chain, m).ext.lease = e.lease
  <2> HIDE DEF m
  <2> QED BY <1>4 DEF Grants
<1> HIDE DEF m, gs
<1>6. m \in DOMAIN chain /\ m \in 1 .. i - 1
  BY <1>1, <1>3, <1>4
<1>7. Of(chain, i).at \in Nat /\ Of(chain, m).at \in Nat /\ Of(chain, m).ext.ttl \in Nat
  <2>1. ReceiptTyped(chain[i].id) /\ ReceiptTyped(chain[m].id)
    BY <1>6, VerifiedLines DEF ChainTyped
  <2>2. Of(chain, i).at \in Nat /\ Of(chain, m).at \in Nat /\ Of(chain, m).ext \in Extensions \cup {NoExt}
    BY <2>1 DEF ReceiptTyped, Of
  <2>3. Of(chain, m).ext \in Extensions
    BY <1>5, <2>2 DEF Kind, NoExt
  <2> QED BY <1>5, <2>2, <2>3, ProvenanceAssumption DEF Kind
<1>8. Of(chain, i).at - Of(chain, m).at <= Of(chain, m).ext.ttl
  BY <1>2, <1>7
<1> QED BY <1>2, <1>5, <1>6, <1>8

LEMMA CitationStands ==
  ASSUME ChainTyped, VerifyChain(chain, {}, FALSE), NEW i \in DOMAIN chain,
         Of(chain, i).ext.kind \in {"finding", "anchor"}
  PROVE  \E j \in 1 .. i - 1 : chain[j].id = Of(chain, i).ext.cites
<1>1. Len(chain) \in Nat /\ DOMAIN chain = 1 .. Len(chain)
  BY DEF ChainTyped
<1>2. Cited(chain, i, Of(chain, i).ext.cites) # {}
  BY DEF VerifyChain, ExtensionsHold, FindingHolds, TimeAnchorHolds, TimeDigestBinds, Kind
<1> QED BY <1>1, <1>2 DEF Cited, Earlier, Records

LEMMA EvidenceIsSound == ChainTyped => EvidenceStands
<1> SUFFICES ASSUME ChainTyped, VerifyChain(chain, {}, FALSE), NEW i \in DOMAIN chain
             PROVE  LET e == Of(chain, i).ext IN
                    CASE e.kind = "authority" ->
                           \A j \in 1 .. i : Kind(chain, j, "revocation")
                                               => e.cites \cap Of(chain, j).ext.ids = {}
                      [] e.kind = "redeemed" ->
                           \E j \in 1 .. i - 1 :
                             /\ Kind(chain, j, "granted") /\ Of(chain, j).ext.lease = e.lease
                             /\ Of(chain, i).at - Of(chain, j).at <= Of(chain, j).ext.ttl
                             /\ e.scopes = {} \/ Of(chain, j).ext.scopes = {}
                                  \/ e.scopes \subseteq Of(chain, j).ext.scopes
                      [] e.kind \in {"finding", "anchor"} ->
                           \E j \in 1 .. i - 1 : chain[j].id = e.cites
                      [] OTHER -> TRUE
  BY DEF EvidenceStands
<1>1. CASE Of(chain, i).ext.kind = "authority"
  BY <1>1, AuthorityStands
<1>2. CASE Of(chain, i).ext.kind = "redeemed"
  BY <1>2, LeaseStands
<1>3. CASE Of(chain, i).ext.kind \in {"finding", "anchor"}
  BY <1>3, CitationStands
<1>4. CASE Of(chain, i).ext.kind \notin {"authority", "redeemed", "finding", "anchor"}
  BY <1>4
<1> QED BY <1>1, <1>2, <1>3, <1>4

(* The two definitions by recursion have a value: a function on the receipts
   signed so far extends to the next. *)
Due(f, h) == (UNION {f[p] \cup made[p].taint : p \in Range(made[h].parents)}) \ Cleared(made[h])

LEMMA ParentsBelow ==
  ASSUME ChainTyped, NEW h \in DOMAIN made
  PROVE  Range(made[h].parents) \subseteq 1 .. h - 1
<1>1. made[h].parents \in Seq(1 .. h - 1)
  BY DEF ChainTyped, ReceiptTyped
<1> QED BY <1>1 DEF Range

LEMMA DueExists ==
  ASSUME ChainTyped, NEW n \in 0 .. Len(made)
  PROVE  \E f : f = [h \in 1 .. n |-> Due(f, h)]
<1> DEFINE Has(k) == \E f : f = [h \in 1 .. k |-> Due(f, h)]
           T == {k \in 0 .. Len(made) : ~Has(k)}
<1>1. Len(made) \in Nat /\ DOMAIN made = 1 .. Len(made)
  BY AppendIs DEF ChainTyped
<1>2. \A h \in 1 .. Len(made) : Range(made[h].parents) \subseteq 1 .. h - 1
  BY <1>1, ParentsBelow
<1>3. Has(0)
  <2> DEFINE f == [h \in 1 .. 0 |-> {}]
  <2>1. f = [h \in 1 .. 0 |-> Due(f, h)]
    OBVIOUS
  <2> HIDE DEF f
  <2> QED BY <2>1
<1>4. ASSUME NEW k \in 0 .. Len(made) - 1, Has(k) PROVE Has(k + 1)
  <2>1. PICK f : f = [h \in 1 .. k |-> Due(f, h)]
    BY <1>4
  <2> DEFINE g == [h \in 1 .. k + 1 |-> IF h = k + 1 THEN Due(f, h) ELSE f[h]]
  <2>2. ASSUME NEW h \in 1 .. k + 1 PROVE Due(g, h) = Due(f, h)
    <3>1. Range(made[h].parents) \subseteq 1 .. k
      <4>1. h \in 1 .. Len(made) /\ 1 .. h - 1 \subseteq 1 .. k
        BY <1>1
      <4> QED BY <1>2, <4>1
    <3>2. \A p \in 1 .. k : g[p] = f[p]
      OBVIOUS
    <3> HIDE DEF g
    <3> QED BY <3>1, <3>2 DEF Due
  <2>3. \A h \in 1 .. k + 1 : g[h] = Due(g, h)
    <3> SUFFICES ASSUME NEW h \in 1 .. k + 1 PROVE g[h] = Due(f, h)
      BY <2>2
    <3> QED BY <2>1
  <2>4. g = [h \in 1 .. k + 1 |-> g[h]]
    OBVIOUS
  <2> HIDE DEF g
  <2>5. g = [h \in 1 .. k + 1 |-> Due(g, h)]
    BY <2>3, <2>4
  <2> QED BY <2>5
<1> HIDE DEF Has
<1>5. ASSUME T # {} PROVE FALSE
  <2>1. T \in SUBSET Nat
    OBVIOUS
  <2>2. PICK k \in T : \A l \in T : k <= l
    BY <1>5, <2>1, LeastNatural
  <2>3. k # 0 /\ k - 1 \in 0 .. Len(made) - 1 /\ k - 1 \notin T
    BY <1>1, <1>3, <2>2
  <2>4. Has(k - 1)
    BY <1>1, <2>3
  <2>5. Has((k - 1) + 1) /\ (k - 1) + 1 = k
    BY <1>4, <2>3, <2>4
  <2> QED BY <2>2, <2>5
<1> QED BY <1>5 DEF Has

LEMMA OwedIs ==
  ASSUME ChainTyped, NEW h \in DOMAIN made
  PROVE  Owed[h] = Due(Owed, h)
<1>1. DOMAIN made = 1 .. Len(made) /\ Len(made) \in 0 .. Len(made)
  BY AppendIs DEF ChainTyped
<1>2. \E f : f = [k \in DOMAIN made |-> Due(f, k)]
  BY <1>1, DueExists
<1>3. Owed = CHOOSE f : f = [k \in DOMAIN made |-> Due(f, k)]
  BY DEF Owed, Due
<1>4. Owed = [k \in DOMAIN made |-> Due(Owed, k)]
  BY <1>2, <1>3
<1> QED BY <1>4

LEMMA OwedFrom ==
  ASSUME ChainTyped, NEW h \in DOMAIN made, NEW t \in Owed[h]
  PROVE  /\ t \notin Cleared(made[h])
         /\ \E p \in Range(made[h].parents) : t \in Owed[p] \/ t \in made[p].taint
<1> DEFINE S == {Owed[p] \cup made[p].taint : p \in Range(made[h].parents)}
<1>1. Owed[h] = (UNION S) \ Cleared(made[h])
  <2>1. Owed[h] = Due(Owed, h)
    BY OwedIs
  <2>2. Due(Owed, h) = (UNION S) \ Cleared(made[h])
    BY DEF Due, S
  <2> QED BY <2>1, <2>2
<1> HIDE DEF S
<1>2. PICK X \in S : t \in X
  BY <1>1
<1> USE DEF S
<1>3. PICK p \in Range(made[h].parents) : X = Owed[p] \cup made[p].taint
  OBVIOUS
<1> HIDE DEF S
<1> QED BY <1>1, <1>2, <1>3

LEMMA TaintReaches ==
  ASSUME ChainTyped, VerifyChain(chain, Agents, FALSE), NEW h \in Hashes(chain)
  PROVE  Owed[h] \subseteq made[h].taint
<1> DEFINE T == {k \in Hashes(chain) : ~(Owed[k] \subseteq made[k].taint)}
<1>1. DOMAIN made = 1 .. Len(made) /\ Len(made) \in Nat
  BY AppendIs DEF ChainTyped
<1>2. Hashes(chain) \subseteq DOMAIN made
  BY VerifiedLines DEF Hashes, Records
<1>3. ASSUME T # {} PROVE FALSE
  <2>1. T \in SUBSET Nat
    BY <1>1, <1>2
  <2>2. PICK k \in T : \A l \in T : k <= l
    BY <1>3, <2>1, LeastNatural
  <2> DEFINE r == made[k]
  <2>3. k \in DOMAIN made /\ ReceiptTyped(k)
    BY <1>2 DEF ChainTyped
  <2>4. Range(r.parents) \subseteq Hashes(chain) /\ TaintHolds(chain, r, Agents)
    BY DEF VerifyChain, DagAndTaint
  <2>5. \A p \in Range(r.parents) : p < k /\ Owed[p] \subseteq made[p].taint
    <3>1. Range(r.parents) \subseteq 1 .. k - 1
      BY <2>3, ParentsBelow
    <3>2. ASSUME NEW p \in Range(r.parents) PROVE p < k /\ Owed[p] \subseteq made[p].taint
      <4>1. p \in Nat /\ k \in Nat /\ p < k
        BY <1>1, <2>3, <3>1
      <4>2. p \notin T
        BY <2>2, <4>1
      <4> QED BY <2>4, <4>1, <4>2
    <3> QED BY <3>2
  <2>6. Inherited(chain, r) = UNION {made[p].taint : p \in Range(r.parents)}
    BY <2>4 DEF Inherited
  <2>7. Owed[k] \subseteq Inherited(chain, r) \ Cleared(r)
    <3>1. ASSUME NEW t \in Owed[k] PROVE t \in Inherited(chain, r) /\ t \notin Cleared(r)
      <4>1. t \notin Cleared(r)
        BY <2>3, OwedFrom
      <4>2. PICK p \in Range(r.parents) : t \in Owed[p] \/ t \in made[p].taint
        BY <2>3, OwedFrom
      <4>3. t \in made[p].taint
        BY <2>5, <4>2
      <4> QED BY <2>6, <4>1, <4>2, <4>3
    <3> QED BY <3>1
  <2>8. r.agent \in Agents
    BY <2>3 DEF ReceiptTyped
  <2>9. CASE r.parents = <<>>
    <3>1. Range(r.parents) = {}
      BY <2>9 DEF Range
    <3> QED BY <2>2, <2>6, <2>7, <3>1
  <2>10. CASE r.parents # <<>> /\ r.op = "sanitisation"
    <3>1. SanitisationTaint(chain, r, Agents)
      BY <2>4, <2>10 DEF TaintHolds
    <3>2. r.removed \subseteq Cleared(r) /\ r.taint = Inherited(chain, r) \ r.removed
      BY <2>8, <3>1 DEF SanitisationTaint, Cleared
    <3> QED BY <2>2, <2>7, <3>2
  <2>11. CASE r.parents # <<>> /\ r.op # "sanitisation"
    BY <2>2, <2>4, <2>7, <2>11 DEF TaintHolds, MonotonicTaint
  <2> QED BY <2>9, <2>10, <2>11
<1> QED BY <1>3

(* The walk back from a receipt: after n steps what is left to follow is
   numbered n below it. *)
Back(f, h, n) == IF n = 0 THEN {h} ELSE Step(chain, f[n - 1])

LEMMA WalkExists ==
  ASSUME NEW h, NEW N \in Nat
  PROVE  \E f : f = [n \in 0 .. N |-> Back(f, h, n)]
<1> DEFINE Has(k) == \E f : f = [n \in 0 .. k |-> Back(f, h, n)]
           T == {k \in 0 .. N : ~Has(k)}
<1>1. Has(0)
  <2> DEFINE f == [n \in 0 .. 0 |-> {h}]
  <2>1. f = [n \in 0 .. 0 |-> Back(f, h, n)]
    BY DEF Back
  <2> HIDE DEF f
  <2> QED BY <2>1
<1>2. ASSUME NEW k \in 0 .. N - 1, Has(k) PROVE Has(k + 1)
  <2>1. PICK f : f = [n \in 0 .. k |-> Back(f, h, n)]
    BY <1>2
  <2> DEFINE g == [n \in 0 .. k + 1 |-> IF n = k + 1 THEN Back(f, h, n) ELSE f[n]]
  <2>2. ASSUME NEW n \in 0 .. k + 1 PROVE Back(g, h, n) = Back(f, h, n)
    <3>1. n # 0 => n - 1 \in 0 .. k /\ g[n - 1] = f[n - 1]
      OBVIOUS
    <3> HIDE DEF g
    <3> QED BY <3>1 DEF Back
  <2>3. \A n \in 0 .. k + 1 : g[n] = Back(g, h, n)
    <3> SUFFICES ASSUME NEW n \in 0 .. k + 1 PROVE g[n] = Back(f, h, n)
      BY <2>2
    <3> QED BY <2>1
  <2>4. g = [n \in 0 .. k + 1 |-> g[n]]
    OBVIOUS
  <2> HIDE DEF g
  <2>5. g = [n \in 0 .. k + 1 |-> Back(g, h, n)]
    BY <2>3, <2>4
  <2> QED BY <2>5
<1> HIDE DEF Has
<1>3. ASSUME T # {} PROVE FALSE
  <2>1. T \in SUBSET Nat
    OBVIOUS
  <2>2. PICK k \in T : \A l \in T : k <= l
    BY <1>3, <2>1, LeastNatural
  <2>3. k # 0 /\ k - 1 \in 0 .. N - 1 /\ k - 1 \notin T
    BY <1>1, <2>2
  <2>4. Has(k - 1)
    BY <2>3
  <2>5. Has((k - 1) + 1) /\ (k - 1) + 1 = k
    BY <1>2, <2>3, <2>4
  <2> QED BY <2>2, <2>5
<1>4. Has(N)
  BY <1>3
<1> QED BY <1>4 DEF Has

LEMMA TraceReaches ==
  ASSUME ChainTyped, NEW caps, VerifyChain(chain, caps, FALSE), NEW h \in Hashes(chain),
         NEW g \in Trace(chain, h)
  PROVE  Range(made[g].parents) \subseteq Trace(chain, h)
<1> DEFINE f == CHOOSE w : w = [n \in 0 .. MaxReceipts |-> Back(w, h, n)]
           Closed(n) == /\ f[n] \subseteq Hashes(chain)
                        /\ \A k \in f[n] : k > h - n => Range(made[k].parents) \subseteq f[n]
           T == {n \in 0 .. MaxReceipts : ~Closed(n)}
<1>1. DOMAIN made = 1 .. Len(made) /\ Len(made) \in Nat /\ Len(made) <= MaxReceipts /\ MaxReceipts \in Nat
  BY AppendIs, ProvenanceAssumption DEF ChainTyped
<1>2. Hashes(chain) \subseteq DOMAIN made /\ h \in 1 .. Len(made)
  BY <1>1, VerifiedLines DEF Hashes, Records
<1>3. \A k \in Hashes(chain) : Range(made[k].parents) \subseteq Hashes(chain) \cap 1 .. k - 1
  <2>1. \A k \in Hashes(chain) : Range(made[k].parents) \subseteq Hashes(chain)
    BY DEF VerifyChain, DagAndTaint
  <2>2. \A k \in Hashes(chain) : Range(made[k].parents) \subseteq 1 .. k - 1
    BY <1>2, ParentsBelow
  <2> QED BY <2>1, <2>2
<1>4. f = [n \in 0 .. MaxReceipts |-> Back(f, h, n)]
  <2>1. \E w : w = [n \in 0 .. MaxReceipts |-> Back(w, h, n)]
    BY <1>1, WalkExists
  <2> QED BY <2>1
<1>5. Trace(chain, h) = f[MaxReceipts]
  BY DEF Trace, Back
<1> HIDE DEF f
<1>6. Closed(0)
  <2>1. f[0] = {h}
    BY <1>1, <1>4 DEF Back
  <2> QED BY <1>2, <2>1
<1>7. ASSUME NEW n \in 0 .. MaxReceipts - 1, Closed(n) PROVE Closed(n + 1)
  <2>1. f[n + 1] = Step(chain, f[n])
    <3>1. n + 1 \in 0 .. MaxReceipts /\ n + 1 # 0 /\ (n + 1) - 1 = n
      BY <1>1
    <3>2. f[n + 1] = IF n + 1 = 0 THEN {h} ELSE Step(chain, f[(n + 1) - 1])
      BY <1>4, <3>1 DEF Back
    <3> QED BY <3>1, <3>2
  <2>2. /\ f[n] \subseteq f[n + 1]
        /\ \A k \in f[n] : Range(made[k].parents) \subseteq f[n + 1]
        /\ \A p \in f[n + 1] : p \in f[n] \/ \E k \in f[n] : p \in Range(made[k].parents)
    BY <1>3, <1>7, <2>1 DEF Step
  <2>3. f[n + 1] \subseteq Hashes(chain)
    BY <1>3, <1>7, <2>2
  <2>4. ASSUME NEW p \in f[n + 1], p > h - (n + 1) PROVE Range(made[p].parents) \subseteq f[n + 1]
    <3>1. CASE p \in f[n]
      BY <2>2, <3>1
    <3>2. CASE p \notin f[n]
      <4>1. PICK k \in f[n] : p \in Range(made[k].parents)
        BY <2>2, <3>2
      <4>2. ~(k > h - n)
        BY <1>7, <3>2, <4>1
      <4>3. k \in Nat /\ p \in Nat /\ h \in Nat /\ n \in Nat /\ p < k
        BY <1>1, <1>2, <1>3, <1>7, <4>1
      <4> QED BY <2>4, <4>2, <4>3
    <3> QED BY <3>1, <3>2
  <2> QED BY <2>3, <2>4
<1> HIDE DEF Closed
<1>8. ASSUME T # {} PROVE FALSE
  <2>1. T \in SUBSET Nat
    BY <1>1
  <2>2. PICK k \in T : \A l \in T : k <= l
    BY <1>8, <2>1, LeastNatural
  <2>3. k # 0 /\ k - 1 \in 0 .. MaxReceipts - 1 /\ k - 1 \notin T
    BY <1>1, <1>6, <2>2
  <2>4. Closed(k - 1)
    BY <1>1, <2>3
  <2>5. Closed((k - 1) + 1) /\ (k - 1) + 1 = k
    BY <1>7, <2>3, <2>4
  <2> QED BY <2>2, <2>5
<1>9. Closed(MaxReceipts)
  BY <1>1, <1>8
<1>10. g \in f[MaxReceipts] /\ g > h - MaxReceipts
  <2>1. g \in DOMAIN made
    BY <1>2, <1>5, <1>9 DEF Closed
  <2> QED BY <1>1, <1>2, <1>5, <2>1
<1> QED BY <1>5, <1>9, <1>10 DEF Closed

LEMMA TaintIsSound == ChainTyped => TaintSound
BY TaintReaches, TraceReaches DEF TaintSound

----------------------------------------------------------------------------

(* Whatever becomes of the file: in a chain that verifies every receipt carries
   each tag of its ancestors that nobody entitled removed, trace finds all of
   them, and leases, authorities, findings and anchors stand on evidence that
   comes before; and what agents that keep to the rules append, through loggers
   that close and reopen, verifies (verify_chain, ProvenanceLogger). *)
THEOREM ChainsProve == Spec => []ChainProves
<1>1. ProvenanceInv => ChainProves
  BY TaintIsSound, EvidenceIsSound DEF ProvenanceInv, ChainProves, KeptInv, HonestChainVerifies
<1> QED BY <1>1, AlwaysProvenance, PTL

(* A revocation that is appended to a chain that verifies leaves a chain that
   verifies (_verify_cascade_revocation). *)
THEOREM ThePastStands == Spec => PastStands
<1>1. ProvenanceInv /\ [Next]_vars => [PastSpared]_vars
  BY PastStep DEF ProvenanceInv
<1> QED BY <1>1, AlwaysProvenance, PTL DEF Spec, PastStands

----------------------------------------------------------------------------
(* The registry. *)

Types == {"header", "register", "register_pq", "revoke"}
Entries == [type : Types, key : Keys \cup PqKeys \cup {"none"}, issuer : Names \cup {"none"},
            signed : BOOLEAN, index : Nat, prev : Nat, id : Nat, ts : Nat]

(* es is how far o, who holds it, has read the file. *)
PrefixOf(es, of) == Len(es) <= Len(of) /\ \A i \in 1 .. Len(es) : es[i] = of[i]

PqHolds(es) == \A i \in DOMAIN es : es[i].type = "register_pq" => es[i].key \in PqKeys

RegistryTyped ==
    /\ log \in Seq(Entries) /\ PqHolds(log)
    /\ mem \in [Writers -> Seq(Entries)]
    /\ copy \in [Orgs -> Seq(Entries)]
    /\ clock \in Nat

InTurn ==
    /\ \A w \in Writers : mem[w] # <<>> => mem[w] = log
    /\ \A w, v \in Writers : mem[w] # <<>> /\ mem[v] # <<>> => w = v

RegistryInv ==
    /\ RegistryTyped
    /\ \A o \in Orgs : PrefixOf(copy[o], log)
    /\ ~shared => InTurn /\ VerifyChainEntries(log) /\ UniqueAmong(log, Keys)

LEMMA LatestRegistration ==
  ASSUME NEW es \in Seq(Entries), NEW k, Registers(es, k) # {}
  PROVE  \E i \in Registers(es, k) :
            /\ \A n \in Registers(es, k) : n <= i
            /\ Resolve(es, k) = [issuer |-> es[i].issuer,
                                 revoked |-> \E j \in i + 1 .. Len(es) : es[j].type = "revoke" /\ es[j].key = k]
<1> DEFINE R == Registers(es, k)
           i == CHOOSE j \in R : \A n \in R : n <= j
<1>1. Len(es) \in Nat /\ DOMAIN es = 1 .. Len(es)
  OBVIOUS
<1>2. R \in SUBSET (1 .. Len(es))
  BY <1>1 DEF Registers
<1>3. \E m \in R : \A n \in R : n <= m
  <2> HIDE DEF R
  <2> QED BY <1>1, <1>2, GreatestUpTo DEF R
<1>4. i \in R /\ \A n \in R : n <= i
  BY <1>3
<1>5. Resolve(es, k) = [issuer |-> es[i].issuer,
                        revoked |-> \E j \in i + 1 .. Len(es) : es[j].type = "revoke" /\ es[j].key = k]
  BY DEF Resolve
<1> HIDE DEF i, R
<1> QED BY <1>4, <1>5 DEF R

LEMMA ActiveIs ==
  ASSUME NEW es \in Seq(Entries), NEW k
  PROVE  /\ Active(es, k) <=>
              \E i \in Registers(es, k) :
                 /\ \A n \in Registers(es, k) : n <= i
                 /\ Resolve(es, k).issuer = es[i].issuer
                 /\ \A j \in i + 1 .. Len(es) : ~(es[j].type = "revoke" /\ es[j].key = k)
<1>1. CASE Registers(es, k) = {}
  BY <1>1 DEF Active, Resolve, NoRecord
<1>2. CASE Registers(es, k) # {}
  <2>1. PICK i \in Registers(es, k) :
            /\ \A n \in Registers(es, k) : n <= i
            /\ Resolve(es, k) = [issuer |-> es[i].issuer,
                                 revoked |-> \E j \in i + 1 .. Len(es) : es[j].type = "revoke" /\ es[j].key = k]
    BY <1>2, LatestRegistration
  <2>2. Active(es, k) <=> \A j \in i + 1 .. Len(es) : ~(es[j].type = "revoke" /\ es[j].key = k)
    BY <2>1 DEF Active
  <2>3. Resolve(es, k).issuer = es[i].issuer
    BY <2>1
  <2>4. ASSUME NEW n \in Registers(es, k), \A m \in Registers(es, k) : m <= n
        PROVE  n = i
    <3>1. n <= i /\ i <= n
      BY <2>1, <2>4
    <3>2. n \in Int /\ i \in Int
      BY DEF Registers
    <3> QED BY <3>1, <3>2
  <2> QED BY <2>1, <2>2, <2>3, <2>4
<1> QED BY <1>1, <1>2


LEMMA ResolveGrown ==
  ASSUME NEW es \in Seq(Entries), NEW e \in Entries, NEW k, e.key # k \/ e.type = "header"
  PROVE  Resolve(Append(es, e), k) = Resolve(es, k)
<1> DEFINE fs == Append(es, e)
<1>1. /\ fs \in Seq(Entries) /\ Len(fs) = Len(es) + 1 /\ Len(es) \in Nat
      /\ DOMAIN fs = 1 .. Len(es) + 1 /\ DOMAIN es = 1 .. Len(es)
      /\ fs[Len(es) + 1] = e
      /\ \A i \in 1 .. Len(es) : fs[i] = es[i]
  OBVIOUS
<1> HIDE DEF fs
<1>2. Registers(fs, k) = Registers(es, k)
  BY <1>1 DEF Registers
<1>3. CASE Registers(es, k) = {}
  BY <1>2, <1>3 DEF Resolve, fs
<1>4. CASE Registers(es, k) # {}
  <2>1. PICK i \in Registers(es, k) :
            /\ \A n \in Registers(es, k) : n <= i
            /\ Resolve(es, k) = [issuer |-> es[i].issuer,
                                 revoked |-> \E j \in i + 1 .. Len(es) : es[j].type = "revoke" /\ es[j].key = k]
    BY <1>4, LatestRegistration
  <2>2. PICK l \in Registers(fs, k) :
            /\ \A n \in Registers(fs, k) : n <= l
            /\ Resolve(fs, k) = [issuer |-> fs[l].issuer,
                                 revoked |-> \E j \in l + 1 .. Len(fs) : fs[j].type = "revoke" /\ fs[j].key = k]
    BY <1>1, <1>2, <1>4, LatestRegistration
  <2>3. i \in 1 .. Len(es) /\ l \in 1 .. Len(es)
    BY <1>1, <1>2 DEF Registers
  <2>4. i = l
    BY <1>2, <2>1, <2>2, <2>3
  <2>5. (\E j \in l + 1 .. Len(fs) : fs[j].type = "revoke" /\ fs[j].key = k)
          <=> \E j \in i + 1 .. Len(es) : es[j].type = "revoke" /\ es[j].key = k
    BY <1>1, <2>3, <2>4
  <2>6. fs[l].issuer = es[i].issuer
    BY <1>1, <2>3, <2>4
  <2> QED BY <2>1, <2>2, <2>5, <2>6 DEF fs
<1> QED BY <1>3, <1>4

LEMMA ResolveRegistered ==
  ASSUME NEW es \in Seq(Entries), NEW e \in Entries, e.type \in {"register", "register_pq"}
  PROVE  Resolve(Append(es, e), e.key).issuer = e.issuer
<1> DEFINE fs == Append(es, e)
<1>1. /\ fs \in Seq(Entries) /\ Len(fs) = Len(es) + 1 /\ Len(es) \in Nat
      /\ DOMAIN fs = 1 .. Len(es) + 1 /\ fs[Len(es) + 1] = e
  OBVIOUS
<1> HIDE DEF fs
<1>2. Len(es) + 1 \in Registers(fs, e.key)
  BY <1>1 DEF Registers
<1>3. PICK i \in Registers(fs, e.key) :
          /\ \A n \in Registers(fs, e.key) : n <= i
          /\ Resolve(fs, e.key) = [issuer |-> fs[i].issuer,
                                   revoked |-> \E j \in i + 1 .. Len(fs) : fs[j].type = "revoke" /\ fs[j].key = e.key]
  BY <1>1, <1>2, LatestRegistration
<1>4. i \in 1 .. Len(es) + 1 /\ Len(es) + 1 <= i
  BY <1>1, <1>2, <1>3 DEF Registers
<1>5. i = Len(es) + 1
  BY <1>1, <1>4
<1> QED BY <1>1, <1>3, <1>5 DEF fs

LEMMA ResolveRevoked ==
  ASSUME NEW es \in Seq(Entries), NEW e \in Entries, e.type = "revoke"
  PROVE  ~Active(Append(es, e), e.key)
<1> DEFINE fs == Append(es, e)
<1>1. /\ fs \in Seq(Entries) /\ Len(fs) = Len(es) + 1 /\ Len(es) \in Nat
      /\ DOMAIN fs = 1 .. Len(es) + 1 /\ fs[Len(es) + 1] = e
  OBVIOUS
<1> HIDE DEF fs
<1>2. SUFFICES ASSUME Active(fs, e.key) PROVE FALSE
  BY DEF fs
<1>3. PICK i \in Registers(fs, e.key) :
          \A j \in i + 1 .. Len(fs) : ~(fs[j].type = "revoke" /\ fs[j].key = e.key)
  BY <1>1, <1>2, ActiveIs
<1>4. i \in 1 .. Len(es) + 1 /\ fs[i].type # "revoke"
  BY <1>1 DEF Registers
<1>5. Len(es) + 1 \in i + 1 .. Len(fs)
  BY <1>1, <1>4
<1> QED BY <1>1, <1>3, <1>5

(* A name that is free in the file is held by one key afterwards. *)
LEMMA UniqueGrown ==
  ASSUME NEW es \in Seq(Entries), NEW e \in Entries, UniqueAmong(es, Keys),
         e.type = "register_pq" => e.key \in PqKeys,
         e.type = "register" =>
            \A other \in Keys \ {e.key} : Active(es, other) => Resolve(es, other).issuer # e.issuer
  PROVE  UniqueAmong(Append(es, e), Keys)
<1> DEFINE fs == Append(es, e)
<1>1. ASSUME NEW k \in Keys, e.key # k \/ e.type = "header"
      PROVE  (Active(fs, k) <=> Active(es, k)) /\ Resolve(fs, k) = Resolve(es, k)
  BY <1>1, ResolveGrown DEF Active
<1>2. e.type = "revoke" => ~Active(fs, e.key)
  BY ResolveRevoked
<1>3. e.type = "register" => Resolve(fs, e.key).issuer = e.issuer
  BY ResolveRegistered
<1>4. e.type = "register_pq" => e.key \notin Keys
  BY HandshakeAssumption
<1>5. e.type \in Types
  BY DEF Entries
<1> HIDE DEF fs
<1>6. SUFFICES ASSUME NEW k \in Keys, NEW n \in Keys, Active(fs, k), Active(fs, n),
                      Resolve(fs, k).issuer = Resolve(fs, n).issuer, k # n
               PROVE  FALSE
  BY DEF UniqueAmong, fs
<1>7. CASE e.type = "header" \/ e.key \notin {k, n}
  BY <1>1, <1>6, <1>7 DEF UniqueAmong
<1>8. CASE e.type = "register" /\ e.key = k
  BY <1>1, <1>3, <1>6, <1>8
<1>9. CASE e.type = "register" /\ e.key = n
  BY <1>1, <1>3, <1>6, <1>9
<1> QED BY <1>2, <1>4, <1>5, <1>6, <1>7, <1>8, <1>9 DEF Types

LEMMA ChainGrown ==
  ASSUME NEW es \in Seq(Entries), NEW e \in Entries, VerifyChainEntries(es),
         e.index = Len(es), e.prev = Tail_(es)
  PROVE  VerifyChainEntries(Append(es, e))
<1> DEFINE fs == Append(es, e)
<1>1. /\ Len(es) \in Nat /\ DOMAIN fs = 1 .. Len(es) + 1 /\ DOMAIN es = 1 .. Len(es)
      /\ fs[Len(es) + 1] = e
      /\ \A i \in 1 .. Len(es) : fs[i] = es[i]
  OBVIOUS
<1>2. /\ Len(es) = 0 => e.prev = 0
      /\ Len(es) # 0 => e.prev = es[Len(es)].id
  BY <1>1 DEF Tail_, Last
<1> HIDE DEF fs
<1>3. ASSUME NEW i \in 1 .. Len(es) + 1
      PROVE  fs[i].index = i - 1 /\ fs[i].prev = IF i = 1 THEN 0 ELSE fs[i - 1].id
  <2>1. CASE i = Len(es) + 1
    <3>1. fs[i] = e /\ i - 1 = Len(es)
      BY <1>1, <2>1
    <3>2. CASE Len(es) = 0
      BY <1>2, <2>1, <3>1, <3>2
    <3>3. CASE Len(es) # 0
      <4>1. fs[i - 1] = es[Len(es)] /\ i # 1
        BY <1>1, <2>1, <3>3
      <4> QED BY <1>2, <3>1, <3>3, <4>1
    <3> QED BY <3>2, <3>3
  <2>2. CASE i \in 1 .. Len(es)
    <3>1. fs[i] = es[i] /\ (i # 1 => fs[i - 1] = es[i - 1])
      BY <1>1, <2>2
    <3>2. i \in DOMAIN es
      BY <1>1, <2>2
    <3> QED BY <3>1, <3>2 DEF VerifyChainEntries
  <2> QED BY <1>1, <2>1, <2>2
<1>4. VerifyChainEntries(fs)
  BY <1>1, <1>3 DEF VerifyChainEntries
<1> QED BY <1>4 DEF fs

LEMMA PrefixGrown ==
  ASSUME NEW es \in Seq(Entries), NEW of \in Seq(Entries), NEW e \in Entries, PrefixOf(es, of)
  PROVE  PrefixOf(es, Append(of, e))
BY DEF PrefixOf

----------------------------------------------------------------------------
(* Every step of the registry. *)

LEMMA EntryIs ==
  ASSUME RegistryTyped, NEW w \in Writers, NEW body,
         body.type \in Types, body.key \in Keys \cup PqKeys \cup {"none"}, body.issuer \in Names \cup {"none"}
  PROVE  /\ Entry(w, body) \in Entries
         /\ Entry(w, body).type = body.type /\ Entry(w, body).key = body.key
         /\ Entry(w, body).issuer = body.issuer
         /\ Entry(w, body).index = Len(mem[w]) /\ Entry(w, body).prev = Tail_(mem[w])
<1>1. mem[w] \in Seq(Entries) /\ Len(mem[w]) \in Nat /\ Len(log) + 1 \in Nat /\ clock \in Nat
  BY DEF RegistryTyped
<1>2. Tail_(mem[w]) \in Nat
  <2>1. CASE mem[w] = <<>>
    BY <2>1 DEF Tail_
  <2>2. CASE mem[w] # <<>>
    <3>1. Last(mem[w]) \in Entries
      BY <1>1, <2>2 DEF Last
    <3> QED BY <2>2, <3>1 DEF Tail_, Entries
  <2> QED BY <2>1, <2>2
<1> QED BY <1>1, <1>2 DEF Entry, Entries

(* A writer writes what it has in memory: the whole of the invariant survives
   an entry that registers no name that is taken. *)
LEMMA WriteKeeps ==
  ASSUME RegistryInv, NEW w \in Writers, NEW body,
         body.type \in Types, body.key \in Keys \cup PqKeys \cup {"none"}, body.issuer \in Names \cup {"none"},
         body.type = "register_pq" => body.key \in PqKeys,
         body.type = "register" => NameFree(w, body.key, body.issuer),
         WriteEntry(w, body), UNCHANGED <<copy, clock>>,
         ~shared' => ~shared /\ mem[w] = log /\ \A v \in Writers : mem[v] # <<>> => v = w
  PROVE  RegistryInv'
<1> DEFINE e == Entry(w, body)
<1>1. /\ e \in Entries /\ e.type = body.type /\ e.key = body.key /\ e.issuer = body.issuer
      /\ e.index = Len(mem[w]) /\ e.prev = Tail_(mem[w])
  BY EntryIs DEF RegistryInv
<1>2. log' = Append(log, e) /\ mem' = [mem EXCEPT ![w] = Append(@, e)]
  BY DEF WriteEntry
<1> HIDE DEF e
<1>3. log \in Seq(Entries) /\ mem \in [Writers -> Seq(Entries)] /\ copy \in [Orgs -> Seq(Entries)]
  BY DEF RegistryInv, RegistryTyped
<1>4. RegistryTyped'
  <2>1. log' \in Seq(Entries) /\ mem' \in [Writers -> Seq(Entries)]
    BY <1>1, <1>2, <1>3
  <2>2. PqHolds(log')
    <3>1. PqHolds(log)
      BY DEF RegistryInv, RegistryTyped
    <3> QED BY <1>1, <1>2, <1>3, <3>1 DEF PqHolds
  <2> QED BY <2>1, <2>2 DEF RegistryInv, RegistryTyped
<1>5. \A o \in Orgs : PrefixOf(copy'[o], log')
  BY <1>1, <1>2, <1>3, PrefixGrown DEF RegistryInv
<1>6. ASSUME ~shared'
      PROVE  InTurn' /\ VerifyChainEntries(log') /\ UniqueAmong(log', Keys)
  <2>1. /\ ~shared /\ mem[w] = log /\ \A v \in Writers : mem[v] # <<>> => v = w
        /\ VerifyChainEntries(log) /\ UniqueAmong(log, Keys)
    BY <1>6 DEF RegistryInv
  <2>2. InTurn'
    <3>1. \A v \in Writers : mem'[v] # <<>> => v = w
      BY <1>2, <1>3, <2>1
    <3>2. mem'[w] = log'
      BY <1>2, <1>3, <2>1
    <3> QED BY <3>1, <3>2 DEF InTurn
  <2>3. VerifyChainEntries(log')
    BY <1>1, <1>2, <1>3, <2>1, ChainGrown
  <2>4. UniqueAmong(log', Keys)
    <3>1. e.type = "register" =>
            \A other \in Keys \ {e.key} : Active(log, other) => Resolve(log, other).issuer # e.issuer
      BY <1>1, <2>1 DEF NameFree
    <3> QED BY <1>1, <1>2, <1>3, <2>1, <3>1, UniqueGrown
  <2> QED BY <2>2, <2>3, <2>4
<1> QED BY <1>4, <1>5, <1>6 DEF RegistryInv

LEMMA FetchIs ==
  ASSUME RegistryTyped, NEW o \in Orgs, NEW n, Fetch(o, n)
  PROVE  /\ copy' = [copy EXCEPT ![o] = SubSeq(log, 1, n)]
         /\ n \in 1 .. Len(log) /\ SubSeq(log, 1, n) \in Seq(Entries)
         /\ Len(SubSeq(log, 1, n)) = n
         /\ \A i \in 1 .. n : SubSeq(log, 1, n)[i] = log[i]
         /\ Len(copy[o]) <= n
<1>1. log \in Seq(Entries) /\ Len(log) \in Nat /\ n \in 1 .. Len(log) /\ copy[o] \in Seq(Entries)
  BY DEF RegistryTyped, Fetch
<1>2. /\ SubSeq(log, 1, n) \in Seq(Entries) /\ Len(SubSeq(log, 1, n)) = n
      /\ \A i \in 1 .. n : SubSeq(log, 1, n)[i] = log[i]
  BY <1>1
<1>3. Len(SubSeq(log, 1, n)) - 1 >= Len(copy[o]) - 1
  BY DEF Fetch, CheckFreshness
<1>4. Len(copy[o]) \in Nat
  BY <1>1
<1> QED BY <1>1, <1>2, <1>3, <1>4 DEF Fetch

LEMMA RegistryStep ==
  ASSUME RegistryInv, RegNext \/ UNCHANGED registryVars
  PROVE  RegistryInv'
<1>1. /\ log \in Seq(Entries) /\ mem \in [Writers -> Seq(Entries)]
      /\ copy \in [Orgs -> Seq(Entries)] /\ clock \in Nat
      /\ Len(log) \in Nat
  BY DEF RegistryInv, RegistryTyped
<1>2. ASSUME NEW w \in Writers, OpenRegistry(w) PROVE RegistryInv'
  <2>1. CASE log = <<>>
    <3>1. Header.type = "header" /\ Header.key = "none" /\ Header.issuer = "none"
      BY DEF Header
    <3>2. ASSUME ~shared'
          PROVE  ~shared /\ mem[w] = log /\ \A v \in Writers : mem[v] # <<>> => v = w
      BY <1>2, <2>1, <3>2 DEF OpenRegistry
    <3>3. WriteEntry(w, Header) /\ UNCHANGED <<copy, clock>>
      BY <1>2, <2>1 DEF OpenRegistry
    <3> QED BY <3>1, <3>2, <3>3, WriteKeeps DEF Types
  <2>2. CASE log # <<>>
    <3>1. /\ log' = log /\ mem' = [mem EXCEPT ![w] = log] /\ UNCHANGED <<copy, clock>>
          /\ shared' = (shared \/ \E v \in Writers \ {w} : mem[v] # <<>>)
      BY <1>2, <2>2 DEF OpenRegistry
    <3>2. RegistryTyped'
      BY <1>1, <3>1 DEF RegistryInv, RegistryTyped, PqHolds
    <3>3. \A o \in Orgs : PrefixOf(copy[o], log)'
      BY <3>1 DEF RegistryInv
    <3>4. ASSUME ~shared' PROVE InTurn' /\ VerifyChainEntries(log') /\ UniqueAmong(log', Keys)
      <4>1. ~shared /\ \A v \in Writers \ {w} : mem[v] = <<>>
        BY <3>1, <3>4
      <4>2. InTurn'
        BY <1>1, <3>1, <4>1 DEF InTurn
      <4> QED BY <3>1, <4>1, <4>2 DEF RegistryInv
    <3> QED BY <3>2, <3>3, <3>4 DEF RegistryInv
  <2> QED BY <2>1, <2>2
<1>3. ASSUME NEW w \in Writers, CloseRegistry(w) PROVE RegistryInv'
  <2>1. log' = log /\ mem' = [mem EXCEPT ![w] = <<>>] /\ copy' = copy /\ clock' = clock /\ shared' = shared
    BY <1>3 DEF CloseRegistry
  <2>2. RegistryTyped'
    BY <1>1, <2>1 DEF RegistryInv, RegistryTyped, PqHolds
  <2>3. \A o \in Orgs : PrefixOf(copy[o], log)'
    BY <2>1 DEF RegistryInv
  <2>4. ASSUME ~shared' PROVE InTurn' /\ VerifyChainEntries(log') /\ UniqueAmong(log', Keys)
    <3>1. ~shared /\ InTurn
      BY <2>1, <2>4 DEF RegistryInv
    <3>2. InTurn'
      BY <1>1, <2>1, <3>1 DEF InTurn
    <3> QED BY <2>1, <3>1, <3>2 DEF RegistryInv
  <2> QED BY <2>2, <2>3, <2>4 DEF RegistryInv
<1>4. ASSUME NEW w \in Writers, mem[w] # <<>>, shared' = shared, ~shared'
      PROVE  ~shared /\ mem[w] = log /\ \A v \in Writers : mem[v] # <<>> => v = w
  BY <1>4 DEF RegistryInv, InTurn
<1>5. ASSUME NEW w \in Writers, NEW k \in Keys, NEW n \in Names, Publish(w, k, n) PROVE RegistryInv'
  <2> DEFINE body == [type |-> "register", key |-> k, issuer |-> n]
  <2>1. body.type = "register" /\ body.key = k /\ body.issuer = n
    OBVIOUS
  <2>2. WriteEntry(w, body) /\ UNCHANGED <<copy, clock>> /\ NameFree(w, k, n) /\ mem[w] # <<>> /\ shared' = shared
    BY <1>5 DEF Publish
  <2> HIDE DEF body
  <2> QED BY <1>4, <2>1, <2>2, WriteKeeps DEF Types
<1>6. ASSUME NEW w \in Writers, NEW q \in PqKeys, NEW n \in Names, PublishPqKey(w, q, n) PROVE RegistryInv'
  <2> DEFINE body == [type |-> "register_pq", key |-> q, issuer |-> n]
  <2>1. body.type = "register_pq" /\ body.key = q /\ body.issuer = n
    OBVIOUS
  <2>2. WriteEntry(w, body) /\ UNCHANGED <<copy, clock>> /\ mem[w] # <<>> /\ shared' = shared
    BY <1>6 DEF PublishPqKey
  <2> HIDE DEF body
  <2> QED BY <1>4, <2>1, <2>2, WriteKeeps DEF Types
<1>7. ASSUME NEW w \in Writers, NEW k \in Keys \cup PqKeys, Revoke(w, k) PROVE RegistryInv'
  <2> DEFINE body == [type |-> "revoke", key |-> k, issuer |-> "none"]
  <2>1. body.type = "revoke" /\ body.key = k /\ body.issuer = "none"
    OBVIOUS
  <2>2. WriteEntry(w, body) /\ UNCHANGED <<copy, clock>> /\ mem[w] # <<>> /\ shared' = shared
    BY <1>7 DEF Revoke
  <2> HIDE DEF body
  <2> QED BY <1>4, <2>1, <2>2, WriteKeeps DEF Types
<1>8. ASSUME NEW o \in Orgs, NEW n, Fetch(o, n) PROVE RegistryInv'
  <2>1. /\ copy' = [copy EXCEPT ![o] = SubSeq(log, 1, n)]
        /\ n \in 1 .. Len(log) /\ SubSeq(log, 1, n) \in Seq(Entries)
        /\ Len(SubSeq(log, 1, n)) = n
        /\ \A i \in 1 .. n : SubSeq(log, 1, n)[i] = log[i]
    BY <1>8, FetchIs DEF RegistryInv
  <2>2. log' = log /\ mem' = mem /\ clock' = clock /\ shared' = shared
    BY <1>8 DEF Fetch
  <2>3. RegistryTyped'
    BY <1>1, <2>1, <2>2 DEF RegistryInv, RegistryTyped, PqHolds
  <2>4. PrefixOf(SubSeq(log, 1, n), log)
    BY <1>1, <2>1 DEF PrefixOf
  <2>5. \A p \in Orgs : PrefixOf(copy'[p], log')
    BY <1>1, <2>1, <2>2, <2>4 DEF RegistryInv
  <2> QED BY <2>2, <2>3, <2>5 DEF RegistryInv, InTurn
<1>9. ASSUME ClockTick PROVE RegistryInv'
  BY <1>1, <1>9 DEF ClockTick, RegistryInv, RegistryTyped, InTurn, PqHolds
<1>10. ASSUME UNCHANGED registryVars PROVE RegistryInv'
  BY <1>10 DEF registryVars, RegistryInv, RegistryTyped, InTurn, PqHolds
<1> QED BY <1>2, <1>3, <1>5, <1>6, <1>7, <1>8, <1>9, <1>10 DEF RegNext

----------------------------------------------------------------------------
(* What travels between the organisations. *)

(* An acknowledgement that accepts is about a request that was accepted. *)
Sent(m) ==
    \/ m.kind = "request" /\ m.call \in Calls /\ m.key = OrgKey[m.call.from]
    \/ /\ m.kind = "ack" /\ m.call \in Calls
       /\ m.decision \in {"ACCEPT", "REJECT"}
       /\ m.decision = "ACCEPT" =>
            \E r \in Range(accepted[m.call.to]) : r.kind = "request" /\ r.call = m.call
    \/ m.kind = "passport" /\ m.key \in Keys
    \/ m.kind = "handoff" /\ m.receipt \in Handoffs

CallsTyped ==
    /\ \A m \in net : Sent(m)
    /\ seen \in [Orgs -> SUBSET (Calls \cup Handoffs)]
    /\ accepted \in [Orgs -> Seq(net)]
    /\ verdict \in [Calls -> {"none", "ACCEPT", "REJECT"}]

(* What was accepted is remembered. *)
Remembered ==
    \A o \in Orgs : \A m \in Range(accepted[o]) :
        /\ m.kind = "request" /\ Dedup => m.call \in seen[o]
        /\ m.kind = "handoff" => m.receipt \in seen[o]

CallsInv == CallsTyped /\ Remembered /\ AtMostOnce /\ AckAgreement /\ ActsUnderOwnName

LEMMA Appended ==
  ASSUME NEW S, NEW s \in Seq(S), NEW m \in S
  PROVE  /\ Append(s, m) \in Seq(S)
         /\ Range(Append(s, m)) = Range(s) \cup {m}
         /\ IsInjective(s) /\ m \notin Range(s) => IsInjective(Append(s, m))
<1> DEFINE t == Append(s, m)
<1>1. /\ t \in Seq(S) /\ Len(s) \in Nat /\ DOMAIN s = 1 .. Len(s)
      /\ DOMAIN t = 1 .. Len(s) + 1 /\ t[Len(s) + 1] = m
      /\ \A i \in 1 .. Len(s) : t[i] = s[i]
  OBVIOUS
<1> HIDE DEF t
<1>2. Range(t) = Range(s) \cup {m}
  <2>1. ASSUME NEW x \in Range(t) PROVE x \in Range(s) \cup {m}
    BY <1>1, <2>1 DEF Range
  <2>2. ASSUME NEW x \in Range(s) PROVE x \in Range(t)
    BY <1>1, <2>2 DEF Range
  <2>3. m \in Range(t)
    BY <1>1 DEF Range
  <2> QED BY <2>1, <2>2, <2>3
<1>3. ASSUME IsInjective(s), m \notin Range(s) PROVE IsInjective(t)
  <2>1. \A i \in 1 .. Len(s) : t[i] # m
    BY <1>1, <1>3 DEF Range
  <2> QED BY <1>1, <1>3, <2>1 DEF IsInjective
<1> QED BY <1>1, <1>2, <1>3 DEF t

(* What a key is accepted under is registered in the operator's log. *)
LEMMA KeyIsRegistered ==
  ASSUME RegistryInv, NEW o \in Orgs, NEW k \in Keys, Active(copy[o], k)
  PROVE  \E i \in DOMAIN log : /\ log[i].type = "register" /\ log[i].key = k
                               /\ log[i].issuer = Resolve(copy[o], k).issuer
<1>1. /\ copy[o] \in Seq(Entries) /\ PrefixOf(copy[o], log) /\ PqHolds(log)
      /\ log \in Seq(Entries) /\ Len(log) \in Nat
  BY DEF RegistryInv, RegistryTyped
<1>2. PICK i \in Registers(copy[o], k) : Resolve(copy[o], k).issuer = copy[o][i].issuer
  BY <1>1, ActiveIs
<1>3. i \in DOMAIN log /\ copy[o][i] = log[i]
  BY <1>1 DEF Registers, PrefixOf
<1>4. log[i].type \in {"register", "register_pq"} /\ log[i].key = k
  BY <1>3 DEF Registers
<1>5. log[i].type = "register"
  BY <1>1, <1>3, <1>4, HandshakeAssumption DEF PqHolds
<1> QED BY <1>2, <1>3, <1>4, <1>5

(* Nothing is let through. *)
LEMMA SendKeeps ==
  ASSUME CallsInv, net \subseteq net', \A m \in net' \ net : Sent(m),
         \A p \in Orgs : seen[p] \subseteq seen'[p],
         seen' \in [Orgs -> SUBSET (Calls \cup Handoffs)],
         UNCHANGED <<accepted, verdict, registryVars>>
  PROVE  CallsInv'
<1>1. CallsTyped'
  <2>1. \A x \in net' : Sent(x)'
    BY DEF CallsInv, CallsTyped, Sent
  <2>2. accepted' \in [Orgs -> Seq(net')]
    <3>1. accepted' = accepted /\ accepted \in [Orgs -> Seq(net)]
      BY DEF CallsInv, CallsTyped
    <3>2. \A o \in Orgs : accepted[o] \in Seq(net')
      BY <3>1
    <3> QED BY <3>1, <3>2
  <2> QED BY <2>1, <2>2 DEF CallsInv, CallsTyped
<1>2. Remembered'
  BY DEF CallsInv, Remembered
<1> QED BY <1>1, <1>2 DEF CallsInv, AtMostOnce, AckAgreement, ActsUnderOwnName, registryVars

(* o lets m through: the conditions on the message and on what it remembers. *)
LEMMA LetThrough ==
  ASSUME CallsInv, NEW o \in Orgs, NEW m \in net,
         accepted' = [accepted EXCEPT ![o] = Append(@, m)],
         net \subseteq net', \A x \in net' \ net : Sent(x)', \A p \in Orgs : seen[p] \subseteq seen'[p],
         seen' \in [Orgs -> SUBSET (Calls \cup Handoffs)], verdict' = verdict, UNCHANGED registryVars,
         Dedup => m \notin Range(accepted[o]),
         m.kind = "request" /\ Dedup => m.call \in seen'[o],
         m.kind = "handoff" => m.receipt \in seen'[o],
         m.kind \in {"request", "passport"} =>
            \E i \in DOMAIN log : log[i].type = "register" /\ log[i].key = m.key /\ log[i].issuer = m.issuer
  PROVE  CallsInv'
<1>1. accepted \in [Orgs -> Seq(net)]
  BY DEF CallsInv, CallsTyped
<1>2. /\ Append(accepted[o], m) \in Seq(net)
      /\ Range(Append(accepted[o], m)) = Range(accepted[o]) \cup {m}
      /\ IsInjective(accepted[o]) /\ m \notin Range(accepted[o]) => IsInjective(Append(accepted[o], m))
  BY <1>1, Appended
<1>3. \A p \in Orgs : p # o => accepted'[p] = accepted[p]
  BY <1>1
<1>4. accepted'[o] = Append(accepted[o], m)
  BY <1>1
<1>5. \A p \in Orgs : Range(accepted[p]) \subseteq Range(accepted'[p])
  BY <1>2, <1>3, <1>4
<1>6. \A p \in Orgs : \A x \in Range(accepted'[p]) : x \in Range(accepted[p]) \/ (p = o /\ x = m)
  BY <1>2, <1>3, <1>4
<1>7. CallsTyped'
  <2>1. accepted' \in [Orgs -> Seq(net')]
    <3>1. accepted' \in [Orgs -> Seq(net)]
      BY <1>1, <1>2
    <3>2. \A p \in Orgs : accepted'[p] \in Seq(net')
      BY <3>1
    <3> QED BY <3>1, <3>2
  <2>2. \A x \in net' : Sent(x)'
    <3> SUFFICES ASSUME NEW x \in net PROVE Sent(x)'
      OBVIOUS
    <3>1. Sent(x)
      BY DEF CallsInv, CallsTyped
    <3>2. x.kind = "ack" => x.call.to \in Orgs
      BY <3>1, HandshakeAssumption DEF Sent
    <3> QED BY <1>5, <3>1, <3>2 DEF Sent
  <2> QED BY <2>1, <2>2 DEF CallsInv, CallsTyped
<1>8. Remembered'
  BY <1>6 DEF CallsInv, Remembered
<1>9. AtMostOnce'
  BY <1>2, <1>3, <1>4 DEF CallsInv, AtMostOnce
<1>10. AckAgreement'
  <2> SUFFICES ASSUME NEW c \in Calls, verdict[c] = "ACCEPT"
               PROVE  \E r \in Range(accepted'[c.to]) : r.kind = "request" /\ r.call = c /\ r.key = OrgKey[c.from]
    BY DEF AckAgreement
  <2>1. PICK r \in Range(accepted[c.to]) : r.kind = "request" /\ r.call = c /\ r.key = OrgKey[c.from]
    BY DEF CallsInv, AckAgreement
  <2>2. c.to \in Orgs
    BY HandshakeAssumption
  <2> QED BY <1>5, <2>1, <2>2
<1>11. ActsUnderOwnName'
  BY <1>6 DEF CallsInv, ActsUnderOwnName, registryVars
<1> QED BY <1>7, <1>8, <1>9, <1>10, <1>11 DEF CallsInv

----------------------------------------------------------------------------
(* Every step of the organisations. *)

LEMMA AcceptCallKeeps ==
  ASSUME RegistryInv, CallsInv, NEW o \in Orgs, NEW m \in net, AcceptCall(o, m), UNCHANGED registryVars
  PROVE  CallsInv'
<1>1. /\ m.call \in Calls /\ m.key = OrgKey[m.call.from] /\ m.kind = "request" /\ m.call.to = o
      /\ OrgKey[m.call.from] \in Keys
  BY HandshakeAssumption DEF CallsInv, CallsTyped, Sent, AcceptCall
<1>2. seen \in [Orgs -> SUBSET (Calls \cup Handoffs)] /\ accepted \in [Orgs -> Seq(net)]
  BY DEF CallsInv, CallsTyped
<1>3. /\ seen' \in [Orgs -> SUBSET (Calls \cup Handoffs)]
      /\ \A p \in Orgs : seen[p] \subseteq seen'[p]
      /\ Dedup => m.call \in seen'[o]
  BY <1>1, <1>2 DEF AcceptCall
<1>4. CASE Acceptable(o, m)
  <2>1. accepted' = [accepted EXCEPT ![o] = Append(@, m)] /\ verdict' = verdict
    BY <1>4 DEF AcceptCall
  <2>2. net' = net \cup {Ack(o, m, "ACCEPT")}
    BY <1>4 DEF AcceptCall
  <2>3. accepted'[o] = Append(accepted[o], m)
    BY <1>2, <2>1
  <2>4. m \in Range(accepted'[o])
    BY <1>2, <2>3, Appended
  <2>5. Sent(Ack(o, m, "ACCEPT"))'
    <3>1. /\ Ack(o, m, "ACCEPT").kind = "ack" /\ Ack(o, m, "ACCEPT").call = m.call
          /\ Ack(o, m, "ACCEPT").decision = "ACCEPT"
      BY DEF Ack
    <3> QED BY <1>1, <2>4, <3>1 DEF Sent, Ack
  <2>6. Dedup => m \notin Range(accepted[o])
    BY <1>1, <1>4 DEF Acceptable, Handled, CallsInv, Remembered
  <2>7. \E i \in DOMAIN log : log[i].type = "register" /\ log[i].key = m.key /\ log[i].issuer = m.issuer
    <3>1. Active(copy[o], m.key) /\ Resolve(copy[o], m.key).issuer = m.issuer /\ m.key \in Keys
      BY <1>1, <1>4 DEF Acceptable
    <3> QED BY <3>1, KeyIsRegistered
  <2> QED BY <1>1, <1>3, <2>1, <2>2, <2>5, <2>6, <2>7, LetThrough
<1>5. CASE ~Acceptable(o, m)
  <2>1. accepted' = accepted /\ verdict' = verdict /\ net' = net \cup {Ack(o, m, "REJECT")}
    BY <1>5 DEF AcceptCall
  <2>2. Sent(Ack(o, m, "REJECT"))
    BY <1>1 DEF Ack, Sent
  <2> QED BY <1>3, <2>1, <2>2, SendKeeps
<1> QED BY <1>4, <1>5

LEMMA CallsStep ==
  ASSUME RegistryInv, CallsInv, HsNext, UNCHANGED registryVars
  PROVE  CallsInv'
<1>1. /\ seen \in [Orgs -> SUBSET (Calls \cup Handoffs)] /\ accepted \in [Orgs -> Seq(net)]
      /\ verdict \in [Calls -> {"none", "ACCEPT", "REJECT"}]
      /\ \A m \in net : Sent(m)
  BY DEF CallsInv, CallsTyped
<1>2. ASSUME NEW c \in Calls, BuildRequest(c) PROVE CallsInv'
  <2> DEFINE m == [kind |-> "request", call |-> c, key |-> OrgKey[c.from], issuer |-> c.claims]
  <2>1. Sent(m)
    BY DEF Sent
  <2>2. net' = net \cup {m} /\ UNCHANGED <<seen, accepted, verdict>>
    BY <1>2 DEF BuildRequest
  <2> HIDE DEF m
  <2> QED BY <1>1, <2>1, <2>2, SendKeeps
<1>3. ASSUME NEW c \in Calls, NEW m \in net, VerifyAck(c, m) PROVE CallsInv'
  <2>1. /\ verdict' = [verdict EXCEPT ![c] = m.decision] /\ UNCHANGED <<net, seen, accepted>>
        /\ m.kind = "ack" /\ m.call = c
    BY <1>3 DEF VerifyAck, CheckAckBindings
  <2>2. m.decision \in {"ACCEPT", "REJECT"} /\ Sent(m)
    BY <1>1, <2>1 DEF Sent
  <2>3. CallsTyped'
    BY <2>1, <2>2 DEF CallsInv, CallsTyped, Sent
  <2>4. AckAgreement'
    <3> SUFFICES ASSUME NEW d \in Calls, verdict'[d] = "ACCEPT"
                 PROVE  \E r \in Range(accepted[d.to]) : r.kind = "request" /\ r.call = d /\ r.key = OrgKey[d.from]
      BY <2>1 DEF AckAgreement
    <3>1. CASE d = c
      <4>1. m.decision = "ACCEPT"
        BY <1>1, <2>1, <3>1
      <4>2. PICK r \in Range(accepted[c.to]) : r.kind = "request" /\ r.call = c
        BY <2>1, <2>2, <4>1 DEF Sent
      <4>3. c.to \in Orgs
        BY HandshakeAssumption
      <4>4. r \in net
        BY <1>1, <4>2, <4>3 DEF Range
      <4>5. Sent(r)
        BY <1>1, <4>4
      <4>6. r.key = OrgKey[c.from]
        BY <4>2, <4>5 DEF Sent
      <4> QED BY <3>1, <4>2, <4>6
    <3>2. CASE d # c
      <4>1. verdict[d] = "ACCEPT"
        BY <1>1, <2>1, <3>2
      <4> QED BY <4>1 DEF CallsInv, AckAgreement
    <3> QED BY <3>1, <3>2
  <2> QED BY <2>1, <2>3, <2>4 DEF CallsInv, Remembered, AtMostOnce, ActsUnderOwnName, registryVars
<1>4. ASSUME NEW o \in Orgs, NEW n, NEW ttl, IssuePassport(o, n, ttl) PROVE CallsInv'
  <2> DEFINE m == [kind |-> "passport", key |-> OrgKey[o], issuer |-> n,
                   expires |-> IF ttl = 0 THEN 0 ELSE clock + ttl]
  <2>1. Sent(m)
    BY HandshakeAssumption DEF Sent
  <2>2. net' = net \cup {m} /\ UNCHANGED <<seen, accepted, verdict>>
    BY <1>4 DEF IssuePassport
  <2> HIDE DEF m
  <2> QED BY <1>1, <2>1, <2>2, SendKeeps
<1>5. ASSUME NEW o \in Orgs, NEW m \in net, VerifyPassport(o, m) PROVE CallsInv'
  <2>1. /\ m.kind = "passport" /\ m \notin Range(accepted[o])
        /\ Active(copy[o], m.key) /\ Resolve(copy[o], m.key).issuer = m.issuer
        /\ accepted' = [accepted EXCEPT ![o] = Append(@, m)] /\ UNCHANGED <<net, seen, verdict>>
    BY <1>5 DEF VerifyPassport, PassportValid
  <2>2. m.key \in Keys
    BY <1>1, <2>1 DEF Sent
  <2>3. \E i \in DOMAIN log : log[i].type = "register" /\ log[i].key = m.key /\ log[i].issuer = m.issuer
    BY <2>1, <2>2, KeyIsRegistered
  <2> QED BY <1>1, <2>1, <2>3, LetThrough
<1>6. ASSUME NEW h \in Handoffs, EmitHandoff(h) PROVE CallsInv'
  <2> DEFINE m == [kind |-> "handoff", receipt |-> h]
  <2>1. Sent(m)
    BY DEF Sent
  <2>2. net' = net \cup {m} /\ UNCHANGED <<seen, accepted, verdict>>
    BY <1>6 DEF EmitHandoff
  <2> HIDE DEF m
  <2> QED BY <1>1, <2>1, <2>2, SendKeeps
<1>7. ASSUME NEW o \in Orgs, NEW m \in net, NEW i, VerifyHandoff(o, m, i) PROVE CallsInv'
  <2>1. /\ m.kind = "handoff" /\ seen' = [seen EXCEPT ![o] = @ \cup {m.receipt}]
        /\ UNCHANGED <<net, verdict>>
    BY <1>7 DEF VerifyHandoff
  <2>2. m.receipt \in Handoffs
    BY <1>1, <2>1 DEF Sent
  <2>3. /\ seen' \in [Orgs -> SUBSET (Calls \cup Handoffs)]
        /\ \A p \in Orgs : seen[p] \subseteq seen'[p]
        /\ m.receipt \in seen'[o]
    BY <1>1, <2>1, <2>2
  <2>4. CASE HandoffFresh(o, m) /\ HandoffBinds(m.receipt, i)
    <3>1. accepted' = [accepted EXCEPT ![o] = Append(@, m)]
      BY <1>7, <2>4 DEF VerifyHandoff
    <3>2. m \notin Range(accepted[o])
      BY <2>1, <2>4 DEF HandoffFresh, CallsInv, Remembered
    <3> QED BY <2>1, <2>3, <3>1, <3>2, LetThrough
  <2>5. CASE ~(HandoffFresh(o, m) /\ HandoffBinds(m.receipt, i))
    <3>1. accepted' = accepted
      BY <1>7, <2>5 DEF VerifyHandoff
    <3> QED BY <2>1, <2>3, <3>1, SendKeeps
  <2> QED BY <2>4, <2>5
<1> QED BY <1>2, <1>3, <1>4, <1>5, <1>6, <1>7, AcceptCallKeeps DEF HsNext

(* A line that is written takes no registration away. *)
LEMMA LogGrows ==
  ASSUME RegistryInv, RegNext
  PROVE  \A i \in DOMAIN log : i \in DOMAIN log' /\ log'[i] = log[i]
<1>1. log \in Seq(Entries)
  BY DEF RegistryInv, RegistryTyped
<1>2. ASSUME NEW e, log' = Append(log, e)
      PROVE  \A i \in DOMAIN log : i \in DOMAIN log' /\ log'[i] = log[i]
  BY <1>1, <1>2
<1>3. ASSUME NEW w, NEW body, WriteEntry(w, body)
      PROVE  \A i \in DOMAIN log : i \in DOMAIN log' /\ log'[i] = log[i]
  BY <1>2, <1>3 DEF WriteEntry
<1> QED BY <1>3 DEF RegNext, OpenRegistry, CloseRegistry, Publish, PublishPqKey, Revoke, Fetch, ClockTick

HandshakeInv == RegistryInv /\ CallsInv

LEMMA HandshakeStarts == HandshakeInit => HandshakeInv
<1> SUFFICES ASSUME HandshakeInit PROVE HandshakeInv
  OBVIOUS
<1>1. /\ log = <<>> /\ clock = 0 /\ mem = [w \in Writers |-> <<>>] /\ copy = [o \in Orgs |-> <<>>]
  BY DEF HandshakeInit, RegInit
<1>2. RegistryTyped
  BY <1>1 DEF RegistryTyped, PqHolds
<1>3. \A o \in Orgs : PrefixOf(copy[o], log)
  BY <1>1 DEF PrefixOf
<1>4. InTurn
  BY <1>1 DEF InTurn
<1>5. VerifyChainEntries(log)
  BY <1>1 DEF VerifyChainEntries
<1>6. UniqueAmong(log, Keys)
  <2>1. \A k : Registers(log, k) = {}
    BY <1>1 DEF Registers
  <2> QED BY <2>1 DEF UniqueAmong, Active, Resolve, NoRecord
<1>7. /\ net = {} /\ seen = [o \in Orgs |-> {}] /\ accepted = [o \in Orgs |-> <<>>]
      /\ verdict = [c \in Calls |-> "none"]
  BY DEF HandshakeInit, HsInit
<1>8. \A o \in Orgs : accepted[o] = <<>> /\ Range(accepted[o]) = {}
  BY <1>7 DEF Range
<1>9. CallsTyped
  BY <1>7 DEF CallsTyped
<1>10. Remembered /\ AtMostOnce /\ AckAgreement /\ ActsUnderOwnName
  BY <1>7, <1>8 DEF Remembered, AtMostOnce, AckAgreement, ActsUnderOwnName, IsInjective
<1> QED BY <1>2, <1>3, <1>4, <1>5, <1>6, <1>9, <1>10 DEF HandshakeInv, RegistryInv, CallsInv

LEMMA HandshakeStep == HandshakeInv /\ [HandshakeNext]_handshakeVars => HandshakeInv'
<1> SUFFICES ASSUME HandshakeInv, [HandshakeNext]_handshakeVars PROVE HandshakeInv'
  OBVIOUS
<1> USE DEF HandshakeInv
<1>1. CASE RegNext /\ UNCHANGED callVars
  <2>1. RegistryInv'
    BY <1>1, RegistryStep
  <2>2. CallsTyped'
    BY <1>1 DEF callVars, CallsInv, CallsTyped, Sent
  <2>3. ActsUnderOwnName'
    BY <1>1, LogGrows DEF callVars, CallsInv, ActsUnderOwnName
  <2> QED BY <1>1, <2>1, <2>2, <2>3 DEF callVars, CallsInv, Remembered, AtMostOnce, AckAgreement
<1>2. CASE HsNext /\ UNCHANGED registryVars
  BY <1>2, RegistryStep, CallsStep
<1>3. CASE UNCHANGED handshakeVars
  <2>1. UNCHANGED registryVars /\ UNCHANGED callVars
    BY <1>3 DEF handshakeVars
  <2>2. RegistryInv'
    BY <2>1, RegistryStep
  <2>3. CallsTyped'
    BY <2>1 DEF callVars, CallsInv, CallsTyped, Sent
  <2> QED BY <2>1, <2>2, <2>3
          DEF callVars, registryVars, CallsInv, Remembered, AtMostOnce, AckAgreement, ActsUnderOwnName
<1> QED BY <1>1, <1>2, <1>3 DEF HandshakeNext

LEMMA AlwaysHandshake == HandshakeSpec => []HandshakeInv
BY HandshakeStarts, HandshakeStep, PTL DEF HandshakeSpec

(* Whatever is delivered late, twice or out of order: a call is acted on at most
   once by a responder that keeps its replay set and only under the name the
   registry gives the key, an acknowledgement that the initiator verifies is about
   the call it made, and a registry that one process at a time has open loads
   (accept_call, verify_ack, TrustRegistry.verify_integrity). *)
THEOREM HandshakesAgree == HandshakeSpec => []HandshakeAgrees
<1>1. HandshakeInv => HandshakeAgrees
  BY DEF HandshakeInv, RegistryInv, CallsInv, HandshakeAgrees, LogLoads
<1> QED BY <1>1, AlwaysHandshake, PTL

(* A copy that is read later is at least as long, and both are the beginning of
   one file. *)
LEMMA CopiesGrow ==
  ASSUME RegistryInv, [HandshakeNext]_handshakeVars, NEW o \in Orgs
  PROVE  copy[o] \in Seq(Entries) /\ copy'[o] \in Seq(Entries) /\ PrefixOf(copy[o], copy'[o])
<1>1. /\ copy \in [Orgs -> Seq(Entries)] /\ log \in Seq(Entries)
      /\ PrefixOf(copy[o], log)
  BY DEF RegistryInv, RegistryTyped
<1>2. CASE copy' = copy
  BY <1>1, <1>2 DEF PrefixOf
<1>3. ASSUME NEW p \in Orgs, NEW n, Fetch(p, n)
      PROVE  copy'[o] \in Seq(Entries) /\ PrefixOf(copy[o], copy'[o])
  <2>1. /\ copy' = [copy EXCEPT ![p] = SubSeq(log, 1, n)]
        /\ n \in 1 .. Len(log) /\ SubSeq(log, 1, n) \in Seq(Entries)
        /\ Len(SubSeq(log, 1, n)) = n
        /\ \A i \in 1 .. n : SubSeq(log, 1, n)[i] = log[i]
        /\ Len(copy[p]) <= n
    BY <1>3, FetchIs DEF RegistryInv
  <2>2. CASE p = o
    <3>1. copy'[o] = SubSeq(log, 1, n)
      BY <1>1, <2>1, <2>2
    <3>2. \A i \in 1 .. Len(copy[o]) : i \in 1 .. n
      BY <1>1, <2>1, <2>2
    <3> QED BY <1>1, <2>1, <2>2, <3>1, <3>2 DEF PrefixOf
  <2>3. CASE p # o
    BY <1>1, <2>1, <2>3 DEF PrefixOf
  <2> QED BY <2>2, <2>3
<1>4. copy' = copy \/ \E p \in Orgs, n \in 1 .. MaxEntries : Fetch(p, n)
  BY DEF HandshakeNext, RegNext, handshakeVars, registryVars, OpenRegistry, CloseRegistry, Publish,
         PublishPqKey, Revoke, ClockTick
<1> QED BY <1>1, <1>2, <1>3, <1>4

LEMMA ForwardStep ==
  ASSUME RegistryInv, [HandshakeNext]_handshakeVars
  PROVE  Forward
<1> SUFFICES ASSUME NEW o \in Orgs, NEW k \in Keys,
                    Resolve(copy[o], k) # NoRecord, Resolve(copy[o], k).revoked, Active(copy'[o], k),
                    \A i \in Registers(copy'[o], k) : ~(i > Len(copy[o]))
             PROVE  FALSE
  BY DEF Forward
<1> DEFINE es == copy[o]
           fs == copy'[o]
<1>1. es \in Seq(Entries) /\ fs \in Seq(Entries) /\ PrefixOf(es, fs)
  BY CopiesGrow
<1>2. ~Active(es, k) /\ Active(fs, k) /\ Registers(es, k) # {}
  BY DEF Active, Resolve
<1>3. \A i \in Registers(fs, k) : ~(i > Len(es))
  OBVIOUS
<1> HIDE DEF es, fs
<1>4. PICK l \in Registers(fs, k) :
          /\ \A n \in Registers(fs, k) : n <= l
          /\ \A j \in l + 1 .. Len(fs) : ~(fs[j].type = "revoke" /\ fs[j].key = k)
  BY <1>1, <1>2, ActiveIs
<1>5. l \in 1 .. Len(es) /\ Len(es) \in Nat /\ Len(fs) \in Nat /\ Len(es) <= Len(fs)
  BY <1>1, <1>3 DEF Registers, PrefixOf
<1>6. \A i \in 1 .. Len(es) : es[i] = fs[i]
  BY <1>1 DEF PrefixOf
<1>7. \A i : i \in Registers(es, k) => i \in Registers(fs, k)
  BY <1>1, <1>5, <1>6 DEF Registers
<1>8. l \in Registers(es, k)
  BY <1>1, <1>5, <1>6 DEF Registers
<1>9. \A j \in l + 1 .. Len(es) : ~(es[j].type = "revoke" /\ es[j].key = k)
  BY <1>4, <1>5, <1>6
<1>10. Active(es, k)
  <2>1. PICK i \in Registers(es, k) :
            /\ \A n \in Registers(es, k) : n <= i
            /\ Resolve(es, k) = [issuer |-> es[i].issuer,
                                 revoked |-> \E j \in i + 1 .. Len(es) : es[j].type = "revoke" /\ es[j].key = k]
    BY <1>1, <1>2, LatestRegistration
  <2>2. i <= l /\ l <= i /\ i \in Int /\ l \in Int
    BY <1>4, <1>5, <1>7, <1>8, <2>1 DEF Registers
  <2>3. i = l
    BY <2>2
  <2> QED BY <1>9, <2>1, <2>3 DEF Active
<1> QED BY <1>2, <1>10

(* Whatever copies of the registry an organisation is served, a key it has seen
   revoked is active for it again only by a registration beyond the copy it had
   (_check_freshness). *)
THEOREM RevocationsAreNotRolledBack == HandshakeSpec => RegistryForward
<1>1. HandshakeInv /\ [HandshakeNext]_handshakeVars => [Forward]_handshakeVars
  BY ForwardStep DEF HandshakeInv
<1> QED BY <1>1, AlwaysHandshake, PTL DEF HandshakeSpec, RegistryForward

----------------------------------------------------------------------------
(* The graph that explains a decision. *)

AllIds == {corpus.root} \cup UNION {Range(Stored(h).parents) : h \in DOMAIN corpus.receipts}
Pending == [id : AllIds, hop : Nat]

(* A reference the walk has still to account for. *)
Owing ==
    {ReceiptNode(queue[i].id) : i \in DOMAIN queue}
      \cup (IF pc = "delegation" THEN {DelegationNode(token.id)} ELSE {})
      \cup (IF pc \in {"delegation", "policy"} THEN {PolicyNode(at)} ELSE {})

Unresolved(n) == IF n[1] = "receipt" THEN ~Decoded(n[2]) ELSE ~InLedger(n[2])

IsGraph(g) ==
    g = [nodes |-> g.nodes, edges |-> g.edges, unknown |-> g.unknown, pruned |-> g.pruned,
         truncated |-> g.truncated]

WalkTyped ==
    /\ corpus \in Corpora
    /\ queue \in Seq(Pending)
    /\ pc \in {"walk", "delegation", "policy", "done"}
    /\ IsGraph(graph)
    /\ IsFiniteSet(graph.nodes) /\ Cardinality(graph.nodes) <= corpus.breadth
    /\ pc = "done" => queue = <<>>

WalkInv ==
    /\ WalkTyped
    /\ \A n \in graph.nodes : Cites(n) \subseteq graph.nodes \cup graph.unknown \cup graph.pruned \cup Owing
    /\ graph.pruned # {} => graph.truncated
    /\ \A n \in graph.unknown : Unresolved(n)

(* A step keeps the records, so what a node cites is the same. *)
LEMMA SameCites ==
  ASSUME corpus' = corpus, NEW n
  PROVE  Cites(n)' = Cites(n) /\ Unresolved(n)' = Unresolved(n)
BY DEF Cites, Stored, Unresolved, Decoded, InLedger

(* A step that accounts for what was owing: nodes, unknown and pruned only grow,
   and what is no longer owing is among them. *)
LEMMA Accounts ==
  ASSUME WalkInv, corpus' = corpus, NEW n, WalkTyped',
         graph.unknown \subseteq graph'.unknown, graph.pruned \subseteq graph'.pruned,
         graph.nodes \subseteq graph'.nodes, graph'.nodes \subseteq graph.nodes \cup {n},
         Owing \subseteq graph'.nodes \cup graph'.unknown \cup graph'.pruned \cup Owing',
         n \in graph'.nodes =>
            Cites(n) \subseteq graph'.nodes \cup graph'.unknown \cup graph'.pruned \cup Owing',
         graph'.pruned # graph.pruned => graph'.truncated,
         graph.truncated => graph'.truncated,
         \A m \in graph'.unknown \ graph.unknown : Unresolved(m)
  PROVE  WalkInv'
<1>1. \A m \in graph'.nodes :
          Cites(m) \subseteq graph'.nodes \cup graph'.unknown \cup graph'.pruned \cup Owing'
  BY DEF WalkInv
<1>2. \A m \in graph'.nodes : Cites(m)' = Cites(m)
  BY SameCites
<1>3. graph'.pruned # {} => graph'.truncated
  BY DEF WalkInv
<1>4. \A m \in graph'.unknown : Unresolved(m)'
  <2>1. \A m \in graph'.unknown : Unresolved(m)
    BY DEF WalkInv
  <2> QED BY <2>1, SameCites
<1> QED BY <1>1, <1>2, <1>3, <1>4 DEF WalkInv

(* A node that is added fits in the breadth; one that is refused is pruned. *)
LEMMA AddNodeIs ==
  ASSUME WalkTyped, NEW n
  PROVE  /\ IsGraph(AddNode(graph, n)) /\ AddNode(graph, n).unknown = graph.unknown
         /\ IF Refused(n)
              THEN /\ AddNode(graph, n).nodes = graph.nodes /\ AddNode(graph, n).truncated
                   /\ AddNode(graph, n).pruned = graph.pruned \cup {n}
              ELSE /\ AddNode(graph, n).nodes = graph.nodes \cup {n}
                   /\ AddNode(graph, n).pruned = graph.pruned
                   /\ AddNode(graph, n).truncated = graph.truncated
         /\ IsFiniteSet(AddNode(graph, n).nodes)
         /\ Cardinality(AddNode(graph, n).nodes) <= corpus.breadth
<1>1. IsGraph(graph)
  BY DEF WalkTyped
<1>2. IsFiniteSet(graph.nodes) /\ Cardinality(graph.nodes) <= corpus.breadth
  BY DEF WalkTyped
<1>3. CASE Refused(n)
  <2>1. AddNode(graph, n) = [graph EXCEPT !.pruned = @ \cup {n}, !.truncated = TRUE]
    BY <1>3 DEF AddNode
  <2> QED BY <1>1, <1>2, <1>3, <2>1 DEF IsGraph
<1>4. CASE ~Refused(n)
  <2>1. AddNode(graph, n) = [graph EXCEPT !.nodes = @ \cup {n}]
    BY <1>4 DEF AddNode
  <2>2. IsFiniteSet(graph.nodes \cup {n}) /\ Cardinality(graph.nodes \cup {n}) <= corpus.breadth
    <3>1. corpus.breadth \in Nat /\ Cardinality(graph.nodes) \in Nat
      BY <1>2, ChainGraphAssumption, FS_CardinalityType DEF WalkTyped
    <3>2. CASE n \in graph.nodes
      <4>1. graph.nodes \cup {n} = graph.nodes
        BY <3>2
      <4> QED BY <1>2, <4>1
    <3>3. CASE n \notin graph.nodes
      <4>1. ~(Cardinality(graph.nodes) >= corpus.breadth)
        BY <1>4, <3>3 DEF Refused, Full
      <4>2. IsFiniteSet(graph.nodes \cup {n}) /\ Cardinality(graph.nodes \cup {n}) = Cardinality(graph.nodes) + 1
        BY <1>2, <3>3, FS_AddElement
      <4> QED BY <3>1, <4>1, <4>2
    <3> QED BY <3>2, <3>3
  <2> QED BY <1>1, <1>4, <2>1, <2>2 DEF IsGraph
<1> QED BY <1>3, <1>4

LEMMA HeadIs ==
  ASSUME WalkTyped, queue # <<>>
  PROVE  /\ Head(queue) = queue[1] /\ Head(queue) \in Pending
         /\ Tail(queue) \in Seq(Pending)
         /\ \A i \in DOMAIN queue : i = 1 \/ \E j \in DOMAIN Tail(queue) : Tail(queue)[j] = queue[i]
<1>1. queue \in Seq(Pending) /\ Len(queue) \in Nat /\ Len(queue) > 0 /\ DOMAIN queue = 1 .. Len(queue)
  BY DEF WalkTyped
<1>2. Tail(queue) \in Seq(Pending) /\ Len(Tail(queue)) = Len(queue) - 1
      /\ DOMAIN Tail(queue) = 1 .. Len(queue) - 1
      /\ \A j \in 1 .. Len(queue) - 1 : Tail(queue)[j] = queue[j + 1]
  BY <1>1
<1>3. ASSUME NEW i \in DOMAIN queue, i # 1
      PROVE  \E j \in DOMAIN Tail(queue) : Tail(queue)[j] = queue[i]
  <2>1. i - 1 \in 1 .. Len(queue) - 1 /\ (i - 1) + 1 = i
    BY <1>1, <1>3
  <2> QED BY <1>2, <2>1
<1> QED BY <1>1, <1>2, <1>3
LEMMA EdgesAre ==
  ASSUME NEW g, IsGraph(g), NEW from, NEW ns
  PROVE  LET e == AddEdges(g, from, ns) IN
         /\ IsGraph(e) /\ e.nodes = g.nodes /\ e.unknown = g.unknown /\ e.pruned = g.pruned
         /\ e.truncated = g.truncated
BY DEF IsGraph, AddEdges

LEMMA PruneIs ==
  ASSUME NEW g, IsGraph(g), NEW n
  PROVE  LET e == Prune(g, n) IN
         /\ IsGraph(e) /\ e.nodes = g.nodes /\ e.unknown = g.unknown /\ e.pruned = g.pruned \cup {n}
         /\ e.truncated
<1>1. Prune(g, n) = [g EXCEPT !.pruned = @ \cup {n}, !.truncated = TRUE]
  BY DEF Prune
<1> QED BY <1>1 DEF IsGraph

LEMMA UnknownIs ==
  ASSUME NEW g, IsGraph(g), NEW n
  PROVE  LET e == UnknownRef(g, n) IN
         /\ IsGraph(e) /\ e.nodes = g.nodes /\ e.unknown = g.unknown \cup {n} /\ e.pruned = g.pruned
         /\ e.truncated = g.truncated
BY DEF IsGraph, UnknownRef

----------------------------------------------------------------------------
(* Every step of the walk. *)

(* A turn of the queue that ends without visiting the receipt. *)
LEMMA TurnEnds ==
  ASSUME WalkInv, pc = "walk", queue # <<>>, queue' = Tail(queue), UNCHANGED <<corpus, at, token, pc>>,
         IsGraph(graph'), graph'.nodes = graph.nodes,
         graph.unknown \subseteq graph'.unknown, graph.pruned \subseteq graph'.pruned,
         ReceiptNode(Head(queue).id) \in graph'.unknown \cup graph'.pruned,
         graph'.pruned # graph.pruned => graph'.truncated,
         graph.truncated => graph'.truncated,
         \A m \in graph'.unknown \ graph.unknown : Unresolved(m)
  PROVE  WalkInv'
<1>1. WalkTyped
  BY DEF WalkInv
<1>2. /\ Head(queue) = queue[1] /\ Tail(queue) \in Seq(Pending)
      /\ \A i \in DOMAIN queue : i = 1 \/ \E j \in DOMAIN Tail(queue) : Tail(queue)[j] = queue[i]
  BY <1>1, HeadIs
<1>3. Pending' = Pending
  BY DEF Pending, AllIds, Stored
<1>4. WalkTyped'
  BY <1>1, <1>2, <1>3 DEF WalkTyped
<1>5. Owing \subseteq graph'.unknown \cup graph'.pruned \cup Owing'
  <2> SUFFICES ASSUME NEW i \in DOMAIN queue
               PROVE  ReceiptNode(queue[i].id) \in graph'.unknown \cup graph'.pruned \cup Owing'
    BY DEF Owing
  <2>1. CASE i = 1
    BY <1>2, <2>1
  <2>2. CASE i # 1
    <3>1. PICK j \in DOMAIN queue' : queue'[j] = queue[i]
      BY <1>2, <2>2
    <3> QED BY <3>1 DEF Owing
  <2> QED BY <2>1, <2>2
<1>6. CASE graph.nodes = {}
  BY <1>4, <1>5, <1>6, SameCites DEF WalkInv
<1>7. ASSUME NEW n \in graph.nodes PROVE WalkInv'
  <2>1. Cites(n) \subseteq graph'.nodes \cup graph'.unknown \cup graph'.pruned \cup Owing'
    BY <1>5 DEF WalkInv
  <2> QED BY <1>4, <1>5, <2>1, Accounts
<1> QED BY <1>6, <1>7

LEMMA TurnsKeep ==
  ASSUME WalkInv, VisitTooDeep \/ VisitUnknown \/ VisitRefused
  PROVE  WalkInv'
<1>1. IsGraph(graph) /\ WalkTyped
  BY DEF WalkInv, WalkTyped
<1>2. CASE VisitTooDeep
  <2>1. /\ pc = "walk" /\ queue # <<>> /\ queue' = Tail(queue) /\ UNCHANGED <<corpus, at, token, pc>>
        /\ graph' = Prune(graph, ReceiptNode(Head(queue).id))
    BY <1>2 DEF VisitTooDeep
  <2> QED BY <1>1, <2>1, PruneIs, TurnEnds
<1>3. CASE VisitUnknown
  <2>1. /\ pc = "walk" /\ queue # <<>> /\ queue' = Tail(queue) /\ UNCHANGED <<corpus, at, token, pc>>
        /\ graph' = UnknownRef(graph, ReceiptNode(Head(queue).id)) /\ ~Decoded(Head(queue).id)
    BY <1>3 DEF VisitUnknown
  <2>2. Unresolved(ReceiptNode(Head(queue).id))
    BY <2>1 DEF Unresolved, ReceiptNode
  <2> QED BY <1>1, <2>1, <2>2, UnknownIs, TurnEnds
<1>4. CASE VisitRefused
  <2>1. /\ pc = "walk" /\ queue # <<>> /\ queue' = Tail(queue) /\ UNCHANGED <<corpus, at, token, pc>>
        /\ graph' = AddNode(graph, ReceiptNode(Head(queue).id)) /\ Refused(ReceiptNode(Head(queue).id))
    BY <1>4 DEF VisitRefused
  <2> QED BY <1>1, <2>1, AddNodeIs, TurnEnds
<1> QED BY <1>2, <1>3, <1>4

(* The receipts that were queued stay queued, and its parents join them. *)
LEMMA VisitQueues ==
  ASSUME WalkInv, Visit
  PROVE  /\ queue' \in Seq(Pending)
         /\ \A i \in DOMAIN queue : i = 1 \/ \E j \in DOMAIN queue' : queue'[j] = queue[i]
         /\ \A p \in Range(Stored(Head(queue).id).parents) : \E j \in DOMAIN queue' : queue'[j].id = p
<1> DEFINE h == Head(queue).id
           hop == Head(queue).hop
           ps == Stored(h).parents
           more == [k \in DOMAIN ps |-> [id |-> ps[k], hop |-> hop + 1]]
<1>1. WalkTyped /\ queue # <<>> /\ Decoded(h) /\ queue' = Tail(queue) \o more
  BY DEF WalkInv, Visit
<1>2. /\ Head(queue) = queue[1] /\ Head(queue) \in Pending /\ Tail(queue) \in Seq(Pending)
      /\ \A i \in DOMAIN queue : i = 1 \/ \E j \in DOMAIN Tail(queue) : Tail(queue)[j] = queue[i]
  BY <1>1, HeadIs
<1>3. h \in AllIds /\ hop + 1 \in Nat
  BY <1>2 DEF Pending
<1>4. ps \in Seq(Range(ps))
  BY <1>1, ChainGraphAssumption DEF WalkTyped, Decoded, Stored
<1>5. Range(ps) \subseteq AllIds
  BY <1>1 DEF AllIds, Decoded
<1> HIDE DEF ps, h, hop
<1>6. DOMAIN ps = 1 .. Len(ps) /\ Len(ps) \in Nat /\ \A k \in DOMAIN ps : ps[k] \in AllIds
  BY <1>4, <1>5
<1>7. more \in Seq(Pending) /\ DOMAIN more = 1 .. Len(ps) /\ Len(more) = Len(ps)
      /\ \A k \in 1 .. Len(ps) : more[k].id = ps[k]
  BY <1>3, <1>6 DEF Pending
<1> HIDE DEF more
<1>8. queue' \in Seq(Pending)
  BY <1>1, <1>2, <1>7
<1> DEFINE t == Tail(queue)
<1>9. t \in Seq(Pending) /\ Len(t) \in Nat /\ DOMAIN t = 1 .. Len(t)
  BY <1>2
<1> HIDE DEF t
<1>10. /\ DOMAIN (t \o more) = 1 .. Len(t) + Len(ps)
       /\ \A i \in 1 .. Len(t) : (t \o more)[i] = t[i]
       /\ \A i \in 1 .. Len(ps) : (t \o more)[Len(t) + i] = more[i]
  BY <1>6, <1>7, <1>9
<1>11. \A i \in DOMAIN t : i \in DOMAIN queue' /\ queue'[i] = t[i]
  BY <1>1, <1>6, <1>9, <1>10 DEF t
<1>12. ASSUME NEW p \in Range(ps) PROVE \E j \in DOMAIN queue' : queue'[j].id = p
  <2>1. PICK k \in 1 .. Len(ps) : ps[k] = p
    BY <1>6, <1>12 DEF Range
  <2>2. Len(t) + k \in DOMAIN queue' /\ queue'[Len(t) + k].id = p
    BY <1>1, <1>6, <1>7, <1>9, <1>10, <2>1 DEF t
  <2> QED BY <2>2
<1> QED BY <1>2, <1>8, <1>11, <1>12 DEF t, ps, h

LEMMA VisitKeeps ==
  ASSUME WalkInv, Visit
  PROVE  WalkInv'
<1> DEFINE h == Head(queue).id
           n == ReceiptNode(h)
<1>1. /\ WalkTyped /\ IsGraph(graph) /\ pc = "walk" /\ queue # <<>>
      /\ ~Refused(n) /\ at' = h /\ corpus' = corpus
      /\ graph' = AddEdges(AddNode(graph, n), n, {ReceiptNode(p) : p \in Range(Stored(h).parents)})
      /\ token'.id = Stored(h).token
      /\ pc' = IF Stored(h).token = NoToken THEN "policy" ELSE "delegation"
  BY DEF WalkInv, WalkTyped, Visit
<1>2. /\ queue' \in Seq(Pending)
      /\ \A i \in DOMAIN queue : i = 1 \/ \E j \in DOMAIN queue' : queue'[j] = queue[i]
      /\ \A p \in Range(Stored(h).parents) : \E j \in DOMAIN queue' : queue'[j].id = p
  BY VisitQueues
<1>3. Head(queue) = queue[1]
  BY <1>1, HeadIs
<1>4. /\ IsGraph(graph') /\ graph'.nodes = graph.nodes \cup {n} /\ graph'.unknown = graph.unknown
      /\ graph'.pruned = graph.pruned /\ graph'.truncated = graph.truncated
      /\ IsFiniteSet(graph'.nodes) /\ Cardinality(graph'.nodes) <= corpus.breadth
  BY <1>1, AddNodeIs, EdgesAre
<1> HIDE DEF h
<1>5. Pending' = Pending
  BY <1>1 DEF Pending, AllIds, Stored
<1>6. WalkTyped'
  BY <1>1, <1>2, <1>4, <1>5 DEF WalkTyped
<1>7. Owing \subseteq graph'.nodes \cup Owing'
  <2> SUFFICES ASSUME NEW i \in DOMAIN queue PROVE ReceiptNode(queue[i].id) \in graph'.nodes \cup Owing'
    BY <1>1 DEF Owing
  <2>1. CASE i = 1
    BY <1>3, <1>4, <2>1 DEF h
  <2>2. CASE i # 1
    <3>1. PICK j \in DOMAIN queue' : queue'[j] = queue[i]
      BY <1>2, <2>2
    <3> QED BY <3>1 DEF Owing
  <2> QED BY <2>1, <2>2
<1>8. Cites(n) \subseteq Owing'
  <2>1. n[1] = "receipt" /\ n[2] = h
    BY DEF ReceiptNode
  <2>2. ASSUME NEW p \in Range(Stored(h).parents) PROVE ReceiptNode(p) \in Owing'
    <3>1. PICK j \in DOMAIN queue' : queue'[j].id = p
      BY <1>2, <2>2
    <3> QED BY <3>1 DEF Owing
  <2>3. Stored(h).token # NoToken => DelegationNode(Stored(h).token) \in Owing'
    BY <1>1 DEF Owing
  <2>4. PolicyNode(h) \in Owing'
    BY <1>1 DEF Owing
  <2> QED BY <2>1, <2>2, <2>3, <2>4 DEF Cites
<1> HIDE DEF n
<1> QED BY <1>1, <1>4, <1>6, <1>7, <1>8, Accounts

(* A hop that ends the line of delegations. *)
LEMMA HopEnds ==
  ASSUME WalkInv, pc = "delegation", pc' = "policy", UNCHANGED <<corpus, queue, at, token>>,
         IsGraph(graph'), graph'.nodes = graph.nodes,
         graph.unknown \subseteq graph'.unknown, graph.pruned \subseteq graph'.pruned,
         DelegationNode(token.id) \in graph'.unknown \cup graph'.pruned,
         graph'.pruned # graph.pruned => graph'.truncated,
         graph.truncated => graph'.truncated,
         \A m \in graph'.unknown \ graph.unknown : Unresolved(m)
  PROVE  WalkInv'
<1>1. Pending' = Pending
  BY DEF Pending, AllIds, Stored
<1>2. WalkTyped'
  BY <1>1 DEF WalkInv, WalkTyped
<1>3. Owing \subseteq graph'.unknown \cup graph'.pruned \cup Owing'
  BY DEF Owing
<1>4. \A n \in graph.nodes : Cites(n) \subseteq graph'.nodes \cup graph'.unknown \cup graph'.pruned \cup Owing'
  BY <1>3 DEF WalkInv
<1>5. CASE graph.nodes = {}
  BY <1>2, <1>5, SameCites DEF WalkInv
<1>6. ASSUME NEW n \in graph.nodes PROVE WalkInv'
  BY <1>2, <1>3, <1>4, Accounts
<1> QED BY <1>5, <1>6

LEMMA HopsKeep ==
  ASSUME WalkInv, HopUnknown \/ HopTooDeep \/ HopRefused
  PROVE  WalkInv'
<1> DEFINE n == DelegationNode(token.id)
<1>1. IsGraph(graph) /\ WalkTyped
  BY DEF WalkInv, WalkTyped
<1>2. CASE HopUnknown
  <2>1. /\ pc = "delegation" /\ pc' = "policy" /\ UNCHANGED <<corpus, queue, at, token>>
        /\ graph' = AddEdges(UnknownRef(graph, n), token.from, {n}) /\ ~InLedger(token.id)
    BY <1>2 DEF HopUnknown
  <2>2. Unresolved(n)
    BY <2>1 DEF Unresolved, DelegationNode
  <2> QED BY <1>1, <2>1, <2>2, UnknownIs, EdgesAre, HopEnds
<1>3. CASE HopTooDeep
  <2>1. /\ pc = "delegation" /\ pc' = "policy" /\ UNCHANGED <<corpus, queue, at, token>>
        /\ graph' = AddEdges(Prune(graph, n), token.from, {n})
    BY <1>3 DEF HopTooDeep
  <2> QED BY <1>1, <2>1, PruneIs, EdgesAre, HopEnds
<1>4. CASE HopRefused
  <2>1. /\ pc = "delegation" /\ pc' = "policy" /\ UNCHANGED <<corpus, queue, at, token>>
        /\ graph' = AddEdges(AddNode(graph, n), token.from, {n}) /\ Refused(n)
    BY <1>4 DEF HopRefused
  <2> QED BY <1>1, <2>1, AddNodeIs, EdgesAre, HopEnds
<1> QED BY <1>2, <1>3, <1>4

LEMMA HopKeeps ==
  ASSUME WalkInv, Hop
  PROVE  WalkInv'
<1> DEFINE n == DelegationNode(token.id)
<1>1. /\ WalkTyped /\ IsGraph(graph) /\ pc = "delegation" /\ ~Refused(n)
      /\ graph' = AddEdges(AddNode(graph, n), token.from, {n} \ {token.from})
      /\ token'.id = corpus.ledger[token.id]
      /\ pc' = IF corpus.ledger[token.id] = NoToken THEN "policy" ELSE "delegation"
      /\ UNCHANGED <<corpus, queue, at>>
  BY DEF WalkInv, WalkTyped, Hop
<1>2. /\ IsGraph(graph') /\ graph'.nodes = graph.nodes \cup {n} /\ graph'.unknown = graph.unknown
      /\ graph'.pruned = graph.pruned /\ graph'.truncated = graph.truncated
      /\ IsFiniteSet(graph'.nodes) /\ Cardinality(graph'.nodes) <= corpus.breadth
  BY <1>1, AddNodeIs, EdgesAre
<1>3. Pending' = Pending
  BY <1>1 DEF Pending, AllIds, Stored
<1>4. WalkTyped'
  BY <1>1, <1>2, <1>3 DEF WalkTyped
<1>5. Owing \subseteq graph'.nodes \cup Owing'
  BY <1>1, <1>2 DEF Owing
<1>6. Cites(n) \subseteq Owing'
  <2>1. n[1] = "delegation" /\ n[2] = token.id
    BY DEF DelegationNode
  <2>2. corpus.ledger[token.id] # NoToken => DelegationNode(corpus.ledger[token.id]) \in Owing'
    BY <1>1 DEF Owing
  <2> QED BY <2>1, <2>2 DEF Cites
<1> HIDE DEF n
<1> QED BY <1>1, <1>2, <1>4, <1>5, <1>6, Accounts

LEMMA BindKeeps ==
  ASSUME WalkInv, BindPolicy
  PROVE  WalkInv'
<1> DEFINE n == PolicyNode(at)
<1>1. /\ WalkTyped /\ IsGraph(graph) /\ pc = "policy" /\ pc' = "walk" /\ UNCHANGED <<corpus, queue, at, token>>
  BY DEF WalkInv, WalkTyped, BindPolicy
<1>2. Pending' = Pending
  BY <1>1 DEF Pending, AllIds, Stored
<1>3. Cites(n) = {}
  BY DEF Cites, PolicyNode
<1>4. CASE Stored(at).bound
  <2>1. graph' = AddEdges(AddNode(graph, n), ReceiptNode(at), {n})
    BY <1>4 DEF BindPolicy
  <2>2. /\ IsGraph(graph') /\ graph'.unknown = graph.unknown
        /\ graph.nodes \subseteq graph'.nodes /\ graph'.nodes \subseteq graph.nodes \cup {n}
        /\ graph.pruned \subseteq graph'.pruned /\ n \in graph'.nodes \cup graph'.pruned
        /\ graph'.pruned # graph.pruned => graph'.truncated
        /\ graph.truncated => graph'.truncated
        /\ IsFiniteSet(graph'.nodes) /\ Cardinality(graph'.nodes) <= corpus.breadth
    BY <1>1, <2>1, AddNodeIs, EdgesAre
  <2>3. WalkTyped'
    BY <1>1, <1>2, <2>2 DEF WalkTyped
  <2>4. Owing \subseteq graph'.nodes \cup graph'.unknown \cup graph'.pruned \cup Owing'
    BY <1>1, <2>2 DEF Owing
  <2> HIDE DEF n
  <2> QED BY <1>1, <1>3, <2>2, <2>3, <2>4, Accounts
<1>5. CASE ~Stored(at).bound
  <2>1. graph' = graph
    BY <1>5 DEF BindPolicy
  <2>2. WalkTyped'
    BY <1>1, <1>2, <2>1 DEF WalkTyped
  <2>3. Owing \subseteq {n} \cup Owing'
    BY <1>1 DEF Owing
  <2>4. ASSUME NEW m \in graph.nodes PROVE n \notin Cites(m)
    <3>1. ASSUME NEW h, PolicyNode(h) = n PROVE ~Stored(h).bound
      BY <1>5, <3>1 DEF PolicyNode
    <3>2. \A x : ReceiptNode(x) # n /\ DelegationNode(x) # n
      BY DEF ReceiptNode, DelegationNode, PolicyNode
    <3> QED BY <3>1, <3>2 DEF Cites
  <2>5. \A m \in graph'.nodes : Cites(m)' \subseteq graph'.nodes \cup graph'.unknown \cup graph'.pruned \cup Owing'
    BY <1>1, <2>1, <2>3, <2>4, SameCites DEF WalkInv
  <2> QED BY <1>1, <2>1, <2>2, <2>5, SameCites DEF WalkInv
<1> QED BY <1>4, <1>5

LEMMA FinishKeeps ==
  ASSUME WalkInv, Finish
  PROVE  WalkInv'
<1>1. Pending' = Pending
  BY DEF Finish, Pending, AllIds, Stored
<1>2. WalkTyped'
  BY <1>1 DEF Finish, WalkInv, WalkTyped
<1>3. Owing' = Owing
  BY DEF Finish, Owing
<1> QED BY <1>2, <1>3, SameCites DEF Finish, WalkInv

LEMMA WalkStarts == GraphInit => WalkInv
<1> SUFFICES ASSUME GraphInit PROVE WalkInv
  OBVIOUS
<1>1. /\ corpus \in Corpora /\ pc = "walk" /\ graph.nodes = {} /\ graph.pruned = {} /\ IsGraph(graph)
      /\ \A n \in graph.unknown : n = ReceiptNode(corpus.root) /\ ~Decoded(corpus.root)
  BY DEF GraphInit, EmptyGraph, IsGraph
<1>2. queue \in Seq(Pending)
  <2>1. [id |-> corpus.root, hop |-> 0] \in Pending
    BY DEF Pending, AllIds
  <2> QED BY <2>1 DEF GraphInit
<1>3. IsFiniteSet(graph.nodes) /\ Cardinality(graph.nodes) = 0
  BY <1>1, FS_EmptySet
<1>4. WalkTyped
  BY <1>1, <1>2, <1>3, ChainGraphAssumption DEF WalkTyped
<1>5. \A n \in graph.unknown : Unresolved(n)
  BY <1>1 DEF Unresolved, ReceiptNode
<1> QED BY <1>1, <1>4, <1>5 DEF WalkInv

LEMMA WalkStep == WalkInv /\ [GraphNext]_graphVars => WalkInv'
<1> SUFFICES ASSUME WalkInv, [GraphNext]_graphVars PROVE WalkInv'
  OBVIOUS
<1>1. CASE UNCHANGED graphVars
  <2>1. UNCHANGED <<corpus, graph, queue, at, token, pc>>
    BY <1>1 DEF graphVars
  <2>2. Pending' = Pending
    BY <2>1 DEF Pending, AllIds, Stored
  <2>3. WalkTyped' /\ Owing' = Owing
    BY <2>1, <2>2 DEF WalkInv, WalkTyped, Owing
  <2> QED BY <2>1, <2>3, SameCites DEF WalkInv
<1> QED BY <1>1, TurnsKeep, VisitKeeps, HopsKeep, HopKeeps, BindKeeps, FinishKeeps DEF GraphNext

(* Whatever the records hold and however deep or wide the walk may go, the graph
   stays within its breadth, and every reference of a node is a node, unknown or
   pruned when it is returned (resolve_chain_graph). *)
THEOREM GraphsAreComplete == GraphSpec => []GraphComplete
<1>1. WalkInv => GraphComplete
  <2> SUFFICES ASSUME WalkInv PROVE GraphComplete
    OBVIOUS
  <2>1. GraphTypeOK
    BY DEF GraphTypeOK, WalkInv, WalkTyped
  <2>2. ASSUME pc = "done" PROVE Owing = {}
    BY <2>2 DEF WalkInv, WalkTyped, Owing
  <2>3. \A n \in graph.unknown : IF n[1] = "receipt" THEN ~Decoded(n[2]) ELSE ~InLedger(n[2])
    BY DEF WalkInv, Unresolved
  <2> QED BY <2>1, <2>2, <2>3 DEF GraphComplete, NothingSkipped, WalkInv
<1>2. GraphSpec => []WalkInv
  BY WalkStarts, WalkStep, PTL DEF GraphSpec
<1> QED BY <1>1, <1>2, PTL
==============================================================================
