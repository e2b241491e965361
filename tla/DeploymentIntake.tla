-------------------------- MODULE DeploymentIntake --------------------------
(***************************************************************************)
(* The intake of portal-signed policy deployments                          *)
(* (raucle/deployment_intake.py, POST /api/deployments/accept).            *)
(*                                                                         *)
(* The endpoint is a plain function, so requests run in parallel threads   *)
(* of one gate process.  A request verifies its receipt, claims the nonce  *)
(* in a cache object of its own (the lock of NonceCache is in that object  *)
(* and orders nothing between requests), emits the gate receipt, replaces  *)
(* the policy file, reloads it and audits the deployment.  The process may *)
(* die at any step and is restarted.                                       *)
(***************************************************************************)
EXTENDS Integers, Sequences, SequencesExt

CONSTANTS
    Threads,       \* request threads of the gate: requests in progress at once
    Jws,           \* portal receipts in circulation, each with its artefact
    Nonce,         \* Nonce[j]: the nonce the portal signed
    Fault,         \* Fault[j]: what is wrong with j, "none" if nothing
    Expected,      \* Expected[j]: the hex digits of artefact_sha256 in the receipt
    Digest,        \* Digest[j]: the hex digits of the hash of the artefact sent with it
    Installed,     \* the policy in force at the start
    NoRules,       \* no rule at all: every call is denied
    CacheMax,      \* nonces kept in the cache file
    MaxRequests,   \* bound: requests
    MaxIOFaults,   \* bound: cache, receipt, audit or reload failures
    MaxCrashes     \* bound: restarts of the gate

Faults == {"none", "bad_signature", "malformed_artefact", "unloadable"}

ASSUME IntakeAssumption ==
    /\ {Installed, NoRules} \cap Jws = {}
    /\ Installed # NoRules
    /\ Fault \in [Jws -> Faults]
    /\ {Expected, Digest} \subseteq [Jws -> Seq(0 .. 15)]
    /\ Nonce \in [Jws -> Nat]
    /\ CacheMax \in Nat \ {0}
    /\ {MaxRequests, MaxIOFaults, MaxCrashes} \subseteq Nat

VARIABLES
    policy,    \* the policy file: the artefact of a receipt, or Installed
    live,      \* the rules in memory: those of an artefact, or NoRules
    cache,     \* the nonce cache file
    receipts,  \* artefacts the gate has signed a receipt for, in order
    audit,     \* events of the audit chain
    pc,        \* pc[t]: next step of thread t
    req,       \* req[t]: the receipt it handles
    seen,      \* seen[t]: the nonces it loaded
    read,      \* read[t]: the rules it loaded
    answers,   \* answers given, with the policy file as it was changed by them
    claims,    \* history: nonces claimed, in order
    used       \* how much of each bound has been used, and how many requests
               \* were submitted while another was in progress

vars == <<policy, live, cache, receipts, audit, pc, req, seen, read, answers, claims, used>>

Steps == {"idle", "verify", "nonce", "claim", "receipt", "write", "reload", "install",
          "audit"}

(* _load_rules: a file that does not load is logged and skipped. *)
Rules(p) == IF p \in Jws /\ Fault[p] = "unloadable" THEN NoRules ELSE p

Init ==
    /\ policy = Installed
    /\ live = Installed
    /\ cache = <<>>
    /\ receipts = <<>>
    /\ audit = <<>>
    /\ pc = [t \in Threads |-> "idle"]
    /\ req = [t \in Threads |-> Installed]
    /\ seen = [t \in Threads |-> <<>>]
    /\ read = [t \in Threads |-> NoRules]
    /\ answers = {}
    /\ claims = <<>>
    /\ used = [requests |-> 0, faults |-> 0, crashes |-> 0, overlaps |-> 0]

Quiet == \A t \in Threads : pc[t] = "idle"

Goto(t, step) == pc' = [pc EXCEPT ![t] = step]

Audited(t, kind) == audit' = Append(audit, [jws |-> req[t], kind |-> kind])

(* The answer to the caller; a refusal records whether it was audited and
   whether the request had replaced the policy file. *)
Answer(t, status, audited) ==
    /\ answers' = answers \cup {[jws |-> req[t], status |-> status, audited |-> audited,
                                 wrote |-> pc[t] \in {"reload", "install", "audit"}]}
    /\ Goto(t, "idle")

IOFault ==
    /\ used.faults < MaxIOFaults
    /\ used' = [used EXCEPT !.faults = @ + 1]

----------------------------------------------------------------------------
(* accept_deployment *)

Submit(t, j) ==
    /\ pc[t] = "idle"
    /\ used.requests < MaxRequests
    /\ used' = [used EXCEPT !.requests = @ + 1,
                            !.overlaps = IF Quiet THEN @ ELSE @ + 1]
    /\ req' = [req EXCEPT ![t] = j]
    /\ Goto(t, "verify")
    /\ UNCHANGED <<policy, live, cache, receipts, audit, seen, read, answers, claims>>

(* The digest of the artefact ends with the one in the receipt, which may be
   the end of a digest only, or empty. *)
DigestMatches(j) == IsSuffix(Expected[j], Digest[j])

(* What is found wrong, in the order of verify_portal_jws, the digest
   comparison and parse_artefact, which looks at the structure only. *)
Found(j) == IF Fault[j] # "bad_signature" /\ ~DigestMatches(j) THEN "digest_mismatch" ELSE Fault[j]

Refuses_SkipDigest(j) ==   \* wrong: the artefact is not compared with the receipt
    Fault[j] \in {"bad_signature", "malformed_artefact"}

(* An artefact that the policy loader will not take passes. *)
Refuses(j) == Found(j) \in {"bad_signature", "digest_mismatch", "malformed_artefact"}

VerifyRefused(t) ==
    /\ pc[t] = "verify"
    /\ Refuses(req[t])
    /\ Audited(t, Found(req[t]))
    /\ Answer(t, "refused", TRUE)
    /\ UNCHANGED <<policy, live, cache, receipts, req, seen, read, claims, used>>

(* The audit of a refusal raises: after a bad signature the refusal stands,
   after a bad artefact or a replay the caller sees a server error. *)
RefusalAuditFails(t) ==
    /\ \/ pc[t] = "verify" /\ Refuses(req[t])
       \/ pc[t] = "claim" /\ Nonce[req[t]] \in Range(seen[t])
    /\ IOFault
    /\ Answer(t, IF pc[t] = "verify" /\ Fault[req[t]] = "bad_signature"
                 THEN "refused" ELSE "error", FALSE)
    /\ UNCHANGED <<policy, live, cache, receipts, audit, req, seen, read, claims>>

Verify(t) ==
    /\ pc[t] = "verify"
    /\ ~Refuses(req[t])
    /\ Goto(t, "nonce")
    /\ UNCHANGED <<policy, live, cache, receipts, audit, req, seen, read, answers, claims, used>>

Newest(n, s) == SubSeq(s, IF Len(s) > n THEN Len(s) - n + 1 ELSE 1, Len(s))

(* open_nonce_cache: a cache of this request's own, loaded from the file. *)
OpenNonceCache(t) ==
    /\ pc[t] = "nonce"
    /\ seen' = [seen EXCEPT ![t] = Newest(CacheMax, cache)]
    /\ Goto(t, "claim")
    /\ UNCHANGED <<policy, live, cache, receipts, audit, req, read, answers, claims, used>>

Replayed(t) ==
    /\ pc[t] = "claim"
    /\ Nonce[req[t]] \in Range(seen[t])
    /\ Audited(t, "replayed_nonce")
    /\ Answer(t, "refused", TRUE)
    /\ UNCHANGED <<policy, live, cache, receipts, req, seen, read, claims, used>>

Claim_Short(t) ==   \* wrong: one nonce too few is kept
    LET all == Append(seen[t], Nonce[req[t]]) IN
    /\ pc[t] = "claim"
    /\ Nonce[req[t]] \notin Range(seen[t])
    /\ cache' = Newest(CacheMax - 1, all)
    /\ claims' = Append(claims, Nonce[req[t]])
    /\ Goto(t, "receipt")
    /\ UNCHANGED <<policy, live, receipts, audit, req, seen, read, answers, used>>

(* claim: the nonce is persisted before anything is applied. *)
Claim(t) ==
    LET all == Append(seen[t], Nonce[req[t]]) IN
    /\ pc[t] = "claim"
    /\ Nonce[req[t]] \notin Range(seen[t])
    /\ cache' = Newest(CacheMax, all)
    /\ claims' = Append(claims, Nonce[req[t]])
    /\ Goto(t, "receipt")
    /\ UNCHANGED <<policy, live, receipts, audit, req, seen, read, answers, used>>

(* nonce_cache_unavailable: 503, and no audit event. *)
ClaimFails(t) ==
    /\ pc[t] = "claim"
    /\ Nonce[req[t]] \notin Range(seen[t])
    /\ IOFault
    /\ Answer(t, "refused", FALSE)
    /\ UNCHANGED <<policy, live, cache, receipts, audit, req, seen, read, claims>>

EmitGateReceipt(t) ==
    /\ pc[t] = "receipt"
    /\ receipts' = Append(receipts, req[t])
    /\ Goto(t, "write")
    /\ UNCHANGED <<policy, live, cache, audit, req, seen, read, answers, claims, used>>

(* receipt_emission_failed: 503, and no audit event; the nonce is spent. *)
ReceiptFails(t) ==
    /\ pc[t] = "receipt"
    /\ IOFault
    /\ Answer(t, "refused", FALSE)
    /\ UNCHANGED <<policy, live, cache, receipts, audit, req, seen, read, claims>>

WritePolicy(t) ==
    /\ pc[t] = "write"
    /\ policy' = req[t]
    /\ Goto(t, "reload")
    /\ UNCHANGED <<live, cache, receipts, audit, req, seen, read, answers, claims, used>>

(* The directory, the temporary file or its renaming fails: the caller sees a
   server error, the file is as it was and the nonce is spent. *)
WriteFails(t) ==
    /\ pc[t] = "write"
    /\ IOFault
    /\ Answer(t, "error", FALSE)
    /\ UNCHANGED <<policy, live, cache, receipts, audit, req, seen, read, claims>>

(* reload_policies reads the file as it is now, and installs what it read. *)
ReloadRead(t) ==
    /\ pc[t] = "reload"
    /\ read' = [read EXCEPT ![t] = Rules(policy)]
    /\ Goto(t, "install")
    /\ UNCHANGED <<policy, live, cache, receipts, audit, req, seen, answers, claims, used>>

ReloadInstall_Dropped(t) ==   \* wrong: the loaded rules are not installed
    /\ pc[t] = "install"
    /\ Goto(t, "audit")
    /\ UNCHANGED <<policy, live, cache, receipts, audit, req, seen, read, answers, claims, used>>

ReloadInstall(t) ==
    /\ pc[t] = "install"
    /\ live' = read[t]
    /\ Goto(t, "audit")
    /\ UNCHANGED <<policy, cache, receipts, audit, req, seen, read, answers, claims, used>>

(* reload_failed: 503, audited. *)
ReloadFails(t) ==
    /\ pc[t] = "reload"
    /\ IOFault
    /\ Audited(t, "reload_failed")
    /\ Answer(t, "refused", TRUE)
    /\ UNCHANGED <<policy, live, cache, receipts, req, seen, read, claims>>

(* The reload fails and so does the audit of it: a server error. *)
ReloadAuditFails(t) ==
    /\ pc[t] = "reload"
    /\ IOFault
    /\ Answer(t, "error", FALSE)
    /\ UNCHANGED <<policy, live, cache, receipts, audit, req, seen, read, claims>>

AuditDeployed(t) ==
    /\ pc[t] = "audit"
    /\ Audited(t, "policy_deployed")
    /\ Answer(t, "accepted", TRUE)
    /\ UNCHANGED <<policy, live, cache, receipts, req, seen, read, claims, used>>

(* The append to the audit chain raises: the caller sees a server error. *)
AuditFails(t) ==
    /\ pc[t] = "audit"
    /\ IOFault
    /\ Answer(t, "error", FALSE)
    /\ UNCHANGED <<policy, live, cache, receipts, audit, req, seen, read, claims>>

(* The gate dies with its requests and loads the policy file when it is
   started again. *)
Restart ==
    /\ used.crashes < MaxCrashes
    /\ used' = [used EXCEPT !.crashes = @ + 1]
    /\ live' = Rules(policy)
    /\ pc' = [t \in Threads |-> "idle"]
    /\ UNCHANGED <<policy, cache, receipts, audit, req, seen, read, answers, claims>>

Step(t) ==
    \/ VerifyRefused(t) \/ RefusalAuditFails(t) \/ Verify(t)
    \/ OpenNonceCache(t) \/ Replayed(t) \/ Claim(t) \/ ClaimFails(t)
    \/ EmitGateReceipt(t) \/ ReceiptFails(t)
    \/ WritePolicy(t) \/ WriteFails(t)
    \/ ReloadRead(t) \/ ReloadInstall(t) \/ ReloadFails(t) \/ ReloadAuditFails(t)
    \/ AuditDeployed(t) \/ AuditFails(t)

Next ==
    \/ \E t \in Threads, j \in Jws : Submit(t, j)
    \/ \E t \in Threads : Step(t)
    \/ Restart

Spec == Init /\ [][Next]_vars
----------------------------------------------------------------------------
(* Properties *)

Artefacts == Jws \cup {Installed}

(* Type invariant. *)
TypeOK ==
    /\ policy \in Artefacts
    /\ live \in Artefacts \cup {NoRules}
    /\ cache \in Seq(Nat) /\ Len(cache) <= CacheMax
    /\ receipts \in Seq(Jws)
    /\ audit \in Seq([jws : Jws, kind : (Faults \ {"none", "unloadable"}) \cup
                        {"digest_mismatch", "replayed_nonce", "reload_failed", "policy_deployed"}])
    /\ pc \in [Threads -> Steps]
    /\ req \in [Threads -> Artefacts]
    /\ seen \in [Threads -> Seq(Nat)]
    /\ read \in [Threads -> Artefacts \cup {NoRules}]
    /\ answers \subseteq [jws : Jws, status : {"accepted", "refused", "error"},
                          audited : BOOLEAN, wrote : BOOLEAN]
    /\ claims \in Seq(Nat)
    /\ used \in [requests : Nat, faults : Nat, crashes : Nat, overlaps : Nat]

(* Only an artefact that came with a receipt of the pinned portal, has a digest
   that ends with the receipt's and was receipted by the gate under its own key
   ever reaches the policy file, whatever requests run at once and wherever the gate
   dies (verify, digest, receipt first).  A receipt with an empty digest binds
   no artefact, one with the end of a digest binds that much of it. *)
OnlyReceiptedPolicies ==
    policy # Installed =>
        /\ Fault[policy] \in {"none", "unloadable"}
        /\ IsSuffix(Expected[policy], Digest[policy])
        /\ policy \in Range(receipts)

(* A nonce is taken again only after CacheMax others (NonceCache,
   _NONCE_CACHE_MAX). *)
ReplayWindow ==
    \A i, k \in DOMAIN claims : i < k /\ claims[i] = claims[k] => k - i > CacheMax

(* Once a request is over the gate enforces the policy file, or its caller was
   told that the deployment failed, after the file had been replaced. *)
EnforcesTheFile ==
    Quiet => \/ live = Rules(policy)
             \/ \E a \in answers : a.jws = policy /\ a.status # "accepted" /\ a.wrote

(* THE INTAKE.  Whatever requests overlap and wherever the gate dies, only what
   was verified and receipted reaches the policy file; and until one request
   begins beside another, with failures and restarts, no nonce comes back within
   the window and the gate enforces the file (accept_deployment, NonceCache,
   reload_policies).  Requests that overlap break both. *)
IntakeHolds ==
    /\ OnlyReceiptedPolicies
    /\ used.overlaps = 0 => ReplayWindow /\ EnforcesTheFile
=============================================================================
