-------------------------------- MODULE Keys --------------------------------
(***************************************************************************)
(* Keys and signatures: the gateway's signing key, made by whoever boots     *)
(* first and loaded by everyone after (gateway.py), keys held by a key       *)
(* service that may rotate them (kms.py), hybrid signatures over receipts    *)
(* and chain records (pq.py, provenance.py, audit.py), and the one-off       *)
(* conversion of an old chain, which checks every signature on its way.      *)
(***************************************************************************)
EXTENDS Naturals, Sequences, FiniteSets, SequencesExt

CONSTANTS
    Gateways,      \* gateway processes sharing one data directory
    Backends,      \* subset of {"local", "vault"}
    LegacyChains,  \* chains to convert: sequences of [jws, signed]
    MaxKeys,       \* bound: keys generated, and key versions
    MaxSigned,     \* bound: receipts signed
    MaxCrashes     \* bound: process deaths

VARIABLES
    backend,  \* the configured signer_backend
    file,     \* the key file: [there, key]; created but not written has NoKey
    gw,       \* per gateway: [pc, key]
    keys,     \* keys generated so far
    version,  \* the key service's latest version
    signed,   \* receipts: [by, pinned], by whom and under which key id
    stale,    \* gateways whose key was rotated since they pinned it
    crashes,  \* process deaths
    legacy,   \* the old chain
    out       \* the converted chain: [lines, read, state]

vars == <<backend, file, gw, keys, version, signed, stale, crashes, legacy, out>>
bootVars == <<backend, file, gw, keys, version, signed, stale, crashes>>

NoKey == 0

Init ==
    /\ backend \in Backends
    /\ file = [there |-> FALSE, key |-> NoKey]
    /\ gw = [g \in Gateways |-> [pc |-> "down", key |-> NoKey]]
    /\ keys = 0
    /\ version = 1
    /\ signed = {}
    /\ stale = {}
    /\ crashes = 0
    /\ legacy \in LegacyChains
    /\ out = [lines |-> <<>>, read |-> 0, state |-> "running"]

-----------------------------------------------------------------------------
(* Booting: _load_or_create_local_signer *)

GoTo(g, pc) == gw' = [gw EXCEPT ![g].pc = pc]

(* Is there a key file? *)
CheckKey(g) ==
    /\ backend = "local"
    /\ gw[g].pc = "down"
    /\ GoTo(g, IF file.there THEN "load" ELSE "create")
    /\ UNCHANGED <<backend, file, keys, version, signed, stale, crashes, legacy, out>>

(* Corrupt material fails closed: the boot is refused, nothing is regenerated. *)
LoadKey(g) ==
    /\ gw[g].pc = "load"
    /\ gw' = [gw EXCEPT ![g] = IF file.key # NoKey THEN [pc |-> "up", key |-> file.key]
                               ELSE [pc |-> "down", key |-> NoKey]]
    /\ UNCHANGED <<backend, file, keys, version, signed, stale, crashes, legacy, out>>

CreateKey_Truncate(g) ==   \* wrong: the file is opened without O_EXCL
    /\ gw[g].pc = "create"
    /\ keys < MaxKeys
    /\ keys' = keys + 1
    /\ file' = [there |-> TRUE, key |-> NoKey]
    /\ gw' = [gw EXCEPT ![g] = [pc |-> "write", key |-> keys + 1]]
    /\ UNCHANGED <<backend, version, signed, stale, crashes, legacy, out>>

(* O_EXCL: whoever comes second is refused and has not booted. *)
CreateKey(g) ==
    /\ gw[g].pc = "create"
    /\ keys < MaxKeys
    /\ keys' = keys + 1
    /\ IF ~file.there
       THEN /\ file' = [there |-> TRUE, key |-> NoKey]
            /\ gw' = [gw EXCEPT ![g] = [pc |-> "write", key |-> keys + 1]]
       ELSE /\ GoTo(g, "down")
            /\ UNCHANGED file
    /\ UNCHANGED <<backend, version, signed, stale, crashes, legacy, out>>

WriteKey(g) ==
    /\ gw[g].pc = "write"
    /\ file' = [file EXCEPT !.key = gw[g].key]
    /\ GoTo(g, "up")
    /\ UNCHANGED <<backend, keys, version, signed, stale, crashes, legacy, out>>

(* create_signer, _init_gate_identity: the public key is read once and its id
   pinned in the gate's statement. *)
BootKms(g) ==
    /\ backend = "vault"
    /\ gw[g].pc = "down"
    /\ gw' = [gw EXCEPT ![g] = [pc |-> "up", key |-> version]]
    /\ stale' = stale \ {g}
    /\ UNCHANGED <<backend, file, keys, version, signed, crashes, legacy, out>>

(* The service rotates the key: it signs with the new version from now on. *)
Rotate ==
    /\ backend = "vault"
    /\ version < MaxKeys
    /\ version' = version + 1
    /\ stale' = {g \in Gateways : gw[g].pc = "up"}
    /\ UNCHANGED <<backend, file, gw, keys, signed, crashes, legacy, out>>

(* A receipt: the local signer signs with the key it has, VaultSigner.sign with
   the service's latest; both under the id pinned at boot. *)
Sign(g) ==
    /\ gw[g].pc = "up"
    /\ Cardinality(signed) < MaxSigned
    /\ signed' = signed \cup {[by |-> IF backend = "local" THEN gw[g].key ELSE version,
                               pinned |-> gw[g].key, stale |-> g \in stale]}
    /\ UNCHANGED <<backend, file, gw, keys, version, stale, crashes, legacy, out>>

Crash(g) ==
    /\ gw[g].pc # "down"
    /\ crashes < MaxCrashes
    /\ crashes' = crashes + 1
    /\ gw' = [gw EXCEPT ![g] = [pc |-> "down", key |-> NoKey]]
    /\ UNCHANGED <<backend, file, keys, version, signed, stale, legacy, out>>

-----------------------------------------------------------------------------
(* Conversion: migrate_chain_envelope writes as it reads and raises at the
   first line without a JWS, or whose signature does not verify. *)
MigrateLine_Copies(l) == TRUE   \* wrong: the signature is not checked

MigrateLine(l) == l.jws /\ l.signed

MigrateChain ==
    /\ out.state = "running"
    /\ out' = IF out.read = Len(legacy) THEN [out EXCEPT !.state = "done"]
              ELSE IF MigrateLine(legacy[out.read + 1])
                   THEN [out EXCEPT !.read = @ + 1, !.lines = Append(@, legacy[out.read + 1])]
                   ELSE [out EXCEPT !.state = "raised"]
    /\ UNCHANGED <<bootVars, legacy>>

NextBoot ==
    \/ \E g \in Gateways :
          CheckKey(g) \/ LoadKey(g) \/ CreateKey(g) \/ WriteKey(g) \/ BootKms(g) \/ Sign(g) \/ Crash(g)
    \/ Rotate

Next == NextBoot \/ MigrateChain

Spec == Init /\ [][Next]_vars

-----------------------------------------------------------------------------
(* Hybrid signatures.  A receipt is [segments, header, ed, pq]: the header says
   which profile it is and pins a key, ed is the header the Ed25519 signature
   was made over, pq the key of the second signature, "" when it is damaged. *)

(* _enforce_header, _enforce_crit: a hybrid receipt pins its key id. *)
HeaderHolds(r) == r.header.pq1 => r.header.pqk # ""

(* _verify_signature_hybrid, parse_hybrid_signature, verify_hybrid: both or
   nothing. *)
HybridHolds(r, known) ==
    /\ r.header.pq1
    /\ r.header.pqk \in known
    /\ r.ed = r.header
    /\ r.pq = r.header.pqk

VerifyV1_Declared(r) == r.ed = r.header   \* wrong: a hybrid header may pass the classical way

(* _verify_signature_v1: a header that declares the hybrid profile never
   verifies the classical way. *)
VerifyV1(r) == ~r.header.pq1 /\ r.ed = r.header

(* _verify_signature and the strict mode of _parse_chain_line. *)
VerifyReceipt(r, known, requirePq) ==
    /\ HeaderHolds(r)
    /\ \/ r.segments = 4 /\ HybridHolds(r, known)
       \/ r.segments = 3 /\ VerifyV1(r)
    /\ requirePq => r.segments = 4

(* verify_record_hybrid behind _verify_checkpoint and the header check: the
   body that is signed covers neither key id nor second signature. *)
VerifyRecord(r, known, requirePq) ==
    /\ requirePq => r.pqk # ""
    /\ r.pqk # "" => r.pqk \in known /\ r.pq = r.pqk

(* HybridSigner.sign_both *)
HybridReceipt ==
    LET h == [pq1 |-> TRUE, pqk |-> "k"] IN [segments |-> 4, header |-> h, ed |-> h, pq |-> "k"]

(* What a hybrid receipt can become when parts of it are lost or changed but
   nothing is signed anew. *)
Damaged(r) ==
    {d \in [segments : {3, 4}, header : [pq1 : BOOLEAN, pqk : {"", "k", "other"}],
            ed : {r.ed}, pq : {"", "k"}] : d # r}

(* A hybrid receipt that lost any part of its second signature verifies
   nowhere, strict or not: the header it was signed with keeps saying that
   there are two.  A hybrid record has no such header, so without its fields
   it passes as a classical one everywhere but in strict mode
   (_verify_signature_v1, verify_record_hybrid). *)
NoDowngrade(known) ==
    /\ \A strict \in BOOLEAN : VerifyReceipt(HybridReceipt, known, strict) <=> "k" \in known
    /\ \A r \in Damaged(HybridReceipt), strict \in BOOLEAN : ~VerifyReceipt(r, known, strict)
    /\ \A r \in [pqk : {"", "k", "other"}, pq : {"", "k"}] :
          /\ VerifyRecord(r, known, TRUE) => r.pqk \in known /\ r.pq = "k"
          /\ r.pqk # "" /\ VerifyRecord(r, known, FALSE) => r.pqk \in known /\ r.pq = "k"

-----------------------------------------------------------------------------
(* Properties *)

TypeOK ==
    /\ file \in [there : BOOLEAN, key : 0 .. MaxKeys]
    /\ \A g \in Gateways : gw[g].pc \in {"down", "create", "load", "write", "up"}
    /\ version \in 1 .. MaxKeys
    /\ stale \subseteq Gateways

(* Every receipt ever signed verifies under the key that is there: gateways
   that boot together, die half-way or meet a half-written file never sign
   with two keys; with a key service it holds for as long as the key was not
   rotated under a running gateway (_init_signer: "receipts verify across
   restarts"). *)
NoReceiptOrphaned ==
    /\ backend = "local" => \A r \in signed : file.key = r.by /\ r.pinned = r.by
    /\ \A r \in signed : r.by = r.pinned \/ r.stale

(* The converted chain holds only receipts whose signature verified, in order
   and from the first on; a conversion that ends well has them all, and one
   that stops leaves the part before the bad line behind. *)
MigrationFaithful ==
    /\ out.lines = SubSeq(legacy, 1, Len(out.lines))
    /\ \A k \in DOMAIN out.lines : out.lines[k].jws /\ out.lines[k].signed
    /\ out.state = "done" => Len(out.lines) = Len(legacy)
=============================================================================
