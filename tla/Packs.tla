------------------------------- MODULE Packs -------------------------------
(***************************************************************************)
(* Evidence handed to an auditor: the coloured report over a receipt chain  *)
(* (audit_export.py), the audit pack that bundles chain, keys, proofs,      *)
(* manifest and page under one signed index (audit_pack.py), and the        *)
(* compliance pack with its certificate (compliance_pack.py).  All three    *)
(* read a chain the gateway may still be appending to, file by file.        *)
(*                                                                         *)
(* A digest is the content itself; a signature is the pair of the key and   *)
(* what it was made over.  The page is the body it renders.                 *)
(***************************************************************************)
EXTENDS Naturals, Sequences, FiniteSets, SequencesExt, FiniteSetsExt

CONSTANTS
    Lines,       \* chain lines: [node, by, flaw]
    Proofs,      \* proof documents: [hash, sound, status]
    Caps,        \* capabilities given: sequences of [node, cites]
    Custodian,   \* the auditor's key
    Stranger,    \* any other key
    Gateway,     \* the key the bundled receipts are signed with
    MaxLines,    \* bound: chain lines
    MaxEdits     \* bound: changes to a pack on disk

VARIABLES
    chain,    \* the live receipt chain
    inputs,   \* [proofs, caps] given to the build
    read,     \* the chain as each read of a build saw it
    pack,     \* the pack on disk: <<[files, index, signature]>> or <<>>
    issued,   \* what the custodian has signed: index bodies and manifest bodies
    edits,    \* changes made to the pack so far
    cdir,     \* the compliance pack's directory: [files, cert]
    creads    \* the chain as each read of a compliance build saw it

vars == <<chain, inputs, read, pack, issued, edits, cdir, creads>>

NoCert == [signed |-> FALSE]

Init ==
    /\ chain = <<>>
    /\ inputs \in [proofs : SUBSET Proofs, caps : Caps]
    /\ read = <<>>
    /\ pack = <<>>
    /\ issued = {}
    /\ edits = 0
    /\ cdir = [files |-> <<>>, cert |-> NoCert]
    /\ creads = <<>>

-----------------------------------------------------------------------------
(* build_report *)

Worst(S) == IF "red" \in S THEN "red" ELSE IF "amber" \in S THEN "amber" ELSE "green"

(* verify_chain's findings: by line, except a missing parent, which names the
   receipt; a line that does not parse has no receipt to name. *)
Findings(lines, keys) ==
    {i \in DOMAIN lines : lines[i].flaw # "none" \/ lines[i].by \notin keys}

ChainValid(lines, keys) == Findings(lines, keys) = {}

(* _load_receipts, _group_receipt_nodes: the line that carries no receipt is
   passed over. *)
NodeOfLine(lines, i) == IF lines[i].flaw = "torn" THEN {} ELSE {lines[i].node}

(* _attribute_findings: red on the node the line or receipt belongs to, else
   a finding of the whole report. *)
Attribute_LineOnly(lines, keys, loaded) ==   \* wrong: receipt findings are lost
    LET F == {i \in Findings(lines, keys) : lines[i].flaw # "orphan"} IN
    [red |-> UNION {NodeOfLine(loaded, i) : i \in F \cap DOMAIN loaded},
     global |-> {i \in F : i \notin DOMAIN loaded \/ NodeOfLine(loaded, i) = {}}]

Attribute(lines, keys, loaded) ==
    LET F == Findings(lines, keys) IN
    [red |-> UNION {NodeOfLine(loaded, i) : i \in F \cap DOMAIN loaded},
     global |-> {i \in F : i \notin DOMAIN loaded \/ NodeOfLine(loaded, i) = {}}]

(* _proof_verdict: a proof whose hash is not its own is never more than amber. *)
ProofColour(p) ==
    IF ~p.sound THEN "amber"
    ELSE IF p.status = "PROVEN" THEN "green"
    ELSE IF p.status = "REFUTED" THEN "red"
    ELSE "amber"

(* _build_proof_obligations: only hash-verified proofs may be cited. *)
Trusted(proofs, hash) == {p \in proofs : p.sound /\ p.hash = hash}

(* _join_capabilities_to_proofs: the last capability for the tool decides. *)
JoinProof(node, caps, proofs) ==
    LET mine == SelectSeq(caps, LAMBDA c : c.node = node) IN
    IF mine = <<>> \/ Last(mine).cites = "" THEN "green"
    ELSE LET T == Trusted(proofs, Last(mine).cites) IN
         IF T = {} THEN "amber" ELSE Worst({ProofColour(p) : p \in T})

(* The body: verdict, receipts and digest come from three reads of the file. *)
Report(verdictOf, loaded, digestOf, keys, proofs, caps) ==
    LET at == Attribute(verdictOf, keys, loaded)
        seen == UNION {NodeOfLine(loaded, i) : i \in DOMAIN loaded}
    IN
    [valid |-> ChainValid(verdictOf, keys),
     nodes |-> [n \in seen |-> Worst({JoinProof(n, caps, proofs)} \cup
                                      (IF n \in at.red THEN {"red"} ELSE {}))],
     obligations |-> [p \in proofs |-> ProofColour(p)],
     findings |-> at.global,
     digest |-> digestOf]

-----------------------------------------------------------------------------
(* Audit pack *)

Paths == {"chain.jsonl", "manifest.json", "report.html", "pubkeys", "proofs", "capabilities"}

(* _sign_index, sign_manifest *)
Signed(key, body) == [key |-> key, over |-> body]

AppendLine(l) ==
    /\ Len(chain) < MaxLines
    /\ chain' = Append(chain, l)
    /\ UNCHANGED <<inputs, read, pack, issued, edits, cdir, creads>>

(* build_report inside build_pack reads the chain three times. *)
ReadChain ==
    /\ Len(read) < 3
    /\ pack = <<>>
    /\ chain # <<>>
    /\ read' = Append(read, chain)
    /\ UNCHANGED <<chain, inputs, pack, issued, edits, cdir, creads>>

(* build_pack from the manifest on: the chain is copied by a fourth read,
   every member is written and hashed, the index is signed last. *)
BuildPack ==
    LET body == Report(read[1], read[2], read[3], {Gateway}, inputs.proofs, inputs.caps)
        files == [p \in Paths |->
            CASE p = "chain.jsonl"   -> chain
              [] p = "manifest.json" -> [body |-> body, signature |-> Signed(Custodian, body)]
              [] p = "report.html"   -> body
              [] p = "pubkeys"       -> {Gateway}
              [] p = "proofs"        -> inputs.proofs
              [] p = "capabilities"  -> inputs.caps]
    IN
    /\ Len(read) = 3
    /\ pack = <<>>
    /\ pack' = <<[files |-> files, index |-> files, signature |-> Signed(Custodian, files)]>>
    /\ issued' = issued \cup {files, body}
    /\ read' = <<>>
    /\ UNCHANGED <<chain, inputs, edits, cdir, creads>>

(* A change to one file of the pack. *)
AlteredFile(q, p) ==
    CASE p = "chain.jsonl"   -> {Front(q.files[p])} \cup {<<l>> : l \in Lines}
      [] p = "manifest.json" ->
            LET b == Report(q.files["chain.jsonl"], q.files["chain.jsonl"], q.files["chain.jsonl"],
                            q.files["pubkeys"], q.files["proofs"], q.files["capabilities"])
            IN {[body |-> b, signature |-> Signed(Stranger, b)],
                [q.files[p] EXCEPT !.body = [b EXCEPT !.findings = {}]]}
      [] p = "report.html"   -> {[q.files[p] EXCEPT !.findings = {}, !.valid = TRUE]}
      [] p = "pubkeys"       -> {{Gateway, Stranger}, {}}
      [] p = "proofs"        -> {{}}
      [] p = "capabilities"  -> {<<>>}

EditFile(p) ==
    /\ pack # <<>> /\ edits < MaxEdits
    /\ p = "chain.jsonl" => pack[1].files[p] # <<>>
    /\ \E c \in AlteredFile(pack[1], p) : pack' = <<[pack[1] EXCEPT !.files[p] = c]>>
    /\ edits' = edits + 1
    /\ UNCHANGED <<chain, inputs, read, issued, cdir, creads>>

(* The index is rewritten to the files as they are, or to fewer of them; the
   custodian's signature is kept or another key signs. *)
EditIndex ==
    /\ pack # <<>> /\ edits < MaxEdits
    /\ \E P \in {Paths} \cup {Paths \ {p} : p \in Paths} :
       \E resign \in BOOLEAN :
          LET index == [p \in P |-> pack[1].files[p]] IN
          pack' = <<[pack[1] EXCEPT !.index = index,
                        !.signature = IF resign THEN Signed(Stranger, index) ELSE @]>>
    /\ edits' = edits + 1
    /\ UNCHANGED <<chain, inputs, read, issued, cdir, creads>>

(* _verify_index_signature: the key comes with the index. *)
IndexSigned_Blind(q) == q.signature.key \in {Custodian, Stranger}   \* wrong: what was signed is not compared

IndexSigned(q) == q.signature.over = q.index

(* _verify_pack_integrity: what the index names must be there, as hashed;
   _resolve_member confines it to the pack. *)
Resolved(q) == {p \in DOMAIN q.index : q.files[p] = q.index[p]}

IntegrityHolds(q) == Resolved(q) = DOMAIN q.index

(* _verify_pack_manifest, verify_manifest *)
ManifestHolds(q) ==
    LET m == q.files["manifest.json"] IN
    /\ "manifest.json" \in Resolved(q)
    /\ m.signature.over = m.body
    /\ IndexSigned(q)
    /\ m.signature.key = q.signature.key

(* _load_pack_members: only what passed the integrity check is read. *)
Member(q, p, none) == IF p \in Resolved(q) THEN q.files[p] ELSE none

(* _verify_pack_chain *)
PackChainValid(q) ==
    /\ "chain.jsonl" \in Resolved(q)
    /\ Member(q, "pubkeys", {}) # {}
    /\ ChainValid(q.files["chain.jsonl"], Member(q, "pubkeys", {}))

(* _verify_pack_reproducibility *)
Reproducible(q) ==
    LET c == q.files["chain.jsonl"] IN
    /\ {"chain.jsonl", "manifest.json", "report.html"} \subseteq Resolved(q)
    /\ Member(q, "pubkeys", {}) # {}
    /\ q.files["manifest.json"].body =
          Report(c, c, c, Member(q, "pubkeys", {}), Member(q, "proofs", {}), Member(q, "capabilities", <<>>))
    /\ q.files["report.html"] = q.files["manifest.json"].body

(* verify_pack, with the signer pinned or not. *)
VerifyPack(q, pinned) ==
    /\ IndexSigned(q)
    /\ IntegrityHolds(q)
    /\ ManifestHolds(q)
    /\ pinned => q.signature.key = Custodian
    /\ PackChainValid(q)
    /\ Reproducible(q)

-----------------------------------------------------------------------------
(* Compliance pack *)

(* _decision_rows: what of a chain counts as a decision. *)
DecisionRows(lines) == SelectSeq(lines, LAMBDA l : l.flaw # "torn")

(* build_pack of compliance_pack.py reads the chain for the verdict, for the
   extracts and the retention statement, and for digest and count. *)
ReadForCompliance ==
    /\ Len(creads) < 2
    /\ chain # <<>>
    /\ creads' = Append(creads, chain)
    /\ UNCHANGED <<chain, inputs, read, pack, issued, edits, cdir>>

CertVerdict_Certified(valid) == "certified"   \* wrong: an invalid chain is certified

CertVerdict(valid) == IF valid THEN "certified" ELSE "invalid"

(* The rest of build_pack: without an operator key no certificate is written,
   and the one of an earlier build stays where it is. *)
BuildCompliance(withKey) ==
    LET valid == ChainValid(creads[1], {Gateway})
        files == <<valid, DecisionRows(creads[2])>>
        cert == [signed |-> TRUE, pack |-> files, digest |-> chain, verdict |-> CertVerdict(valid),
                 count |-> Len(DecisionRows(chain))]
    IN
    /\ Len(creads) = 2
    /\ cdir' = [files |-> files, cert |-> IF withKey THEN cert ELSE cdir.cert]
    /\ creads' = <<>>
    /\ UNCHANGED <<chain, inputs, read, pack, issued, edits>>

NextCompliance ==
    \/ \E l \in Lines : AppendLine(l)
    \/ ReadForCompliance
    \/ \E k \in BOOLEAN : BuildCompliance(k)

NextPack ==
    \/ \E l \in Lines : AppendLine(l)
    \/ ReadChain
    \/ BuildPack
    \/ \E p \in Paths : EditFile(p)
    \/ EditIndex

Next == NextPack \/ NextCompliance

Spec == Init /\ [][Next]_vars

-----------------------------------------------------------------------------
(* Properties *)

TypeOK ==
    /\ Len(chain) <= MaxLines
    /\ Len(read) <= 3 /\ Len(creads) <= 2
    /\ edits \in 0 .. MaxEdits
    /\ Len(pack) <= 1

(* A pack that verifies under the pinned custodian is one the custodian
   built, of a stretch of the live chain as it stood: neither a change to any
   file or to the index, nor a receipt appended between the build's reads,
   gives a pack that verifies and tells something else (verify_pack). *)
PackGenuine ==
    pack # <<>> /\ VerifyPack(pack[1], TRUE) =>
        /\ pack[1].index \in issued /\ DOMAIN pack[1].index = Paths
        /\ pack[1].files = pack[1].index
        /\ IsPrefix(pack[1].files["chain.jsonl"], chain)
        /\ pack[1].files["manifest.json"].body.digest = pack[1].files["chain.jsonl"]

(* What a reader of the body is shown: a flawed line shows as a red node or a
   finding, and no node is green whose capability cites a proof that is not a
   trusted PROVEN one (build_report). *)
ShownHonestly(body, lines, keys, caps, proofs) ==
    /\ \A i \in DOMAIN lines : lines[i].flaw # "none" \/ lines[i].by \notin keys =>
          \/ i \in body.findings
          \/ lines[i].node \in DOMAIN body.nodes /\ body.nodes[lines[i].node] = "red"
    /\ \A n \in DOMAIN body.nodes : body.nodes[n] = "green" =>
          \A k \in DOMAIN caps :
             /\ caps[k].node = n /\ caps[k].cites # ""
             /\ \A j \in DOMAIN caps : j > k => caps[j].node # n
             => \E p \in proofs : p.hash = caps[k].cites /\ p.sound /\ p.status = "PROVEN"

(* Every body the build signs is honest about the reads it was made from, even
   when the chain grew between them. *)
ReportHonest ==
    Len(read) = 3 =>
        ShownHonestly(Report(read[1], read[2], read[3], {Gateway}, inputs.proofs, inputs.caps),
                      read[1], {Gateway}, inputs.caps, inputs.proofs)

(* A certificate vouches for the files it was built with: certified only when
   the chain verified at the first read.  Digest and count are of a later
   read, so they may tell of decisions the extracts do not have, never of
   fewer; and a build without a key leaves an older certificate beside newer
   files (build_pack of compliance_pack.py). *)
CertificateOfRead ==
    cdir.cert.signed =>
        /\ cdir.cert.verdict = "certified" <=> cdir.cert.pack[1]
        /\ IsPrefix(cdir.cert.pack[2], DecisionRows(cdir.cert.digest))
        /\ cdir.cert.count >= Len(cdir.cert.pack[2])
=============================================================================
