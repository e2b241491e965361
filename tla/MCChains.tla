------------------------------ MODULE MCChains ------------------------------
(***************************************************************************)
(* What the gate writes down and what is read back from it, one scene      *)
(* each: the deployment intake, the audit chain with one sink and with     *)
(* two, the receipt store, replays of the history, evidence and compliance *)
(* packs, records disposal and authorship receipts, and time stamps.  In a *)
(* scene its part takes every step it can; the others are off.  The last   *)
(* scene takes no step: it is where pure functions are checked.            *)
(***************************************************************************)
EXTENDS DeploymentIntake, FiniteSets, TLC

CONSTANT None
VARIABLE scene

VARIABLES exists, file, torn, sinks, mem, ended, spent, stale
VARIABLES segs, handle, lock, writers, rec, acked, index, feeding, fed,
          signed, seals, restarts, faults
VARIABLES calls, lines, known, retained, losses
VARIABLES packed, inputs, reads, pack, issued, changes, cdir, creads
VARIABLES disposed, dir, job, runs, edits, slots, pending, authored, removed, overlap
VARIABLES ledger, request, nonces, tokens, minted, doc, now
VARIABLES ofRecord, waiting, rows, walk, rebuilds

intakeVars == <<policy, live, cache, receipts, audit, pc, req, seen, read, answers, claims, used>>
auditVars == <<exists, file, torn, sinks, mem, ended, spent>>
storeVars == <<segs, handle, lock, writers, rec, acked, index, feeding, fed,
               signed, seals, restarts, faults>>
historyVars == <<calls, lines, known, retained, losses>>
packVars == <<packed, inputs, reads, pack, issued, changes, cdir, creads>>
recordVars == <<disposed, dir, job, runs, edits, slots, pending, authored, removed, overlap>>
stampVars == <<ledger, request, nonces, tokens, minted, doc, now>>
pageVars == <<ofRecord, waiting, rows, walk, rebuilds>>

----------------------------------------------------------------------------
(* The intake *)

CONSTANTS j1, j2, j3, jbad, jweak, th1

(* j3 is a second receipt the portal signed with the nonce of j1. *)
SharedNonce == [j \in Jws |-> CASE j = j1 -> 1 [] j = j3 -> 1 [] j = j2 -> 2
                                [] j = jbad -> 3 [] j = jweak -> 4]

(* jweak parses and does not load. *)
MixedFaults == [j \in Jws |-> IF j = jweak THEN "unloadable" ELSE "none"]

(* The receipt of j2 leaves the digest empty, that of jweak has the end of it,
   and that of jbad is of another artefact. *)
Sent == [j \in Jws |-> IF j = jbad THEN <<2, 7>> ELSE <<1, 7>>]
Pinned == [j \in Jws |-> CASE j = j2 -> <<>> [] j = jweak -> <<7>> [] OTHER -> <<1, 7>>]

(* Requests that overlap, with one failure or restart; or more of them, one
   after the other. *)
Limits == [parallel |-> 3, serial |-> 5]

InScene ==
    /\ used.requests <= Limits[scene]
    /\ scene = "parallel" => /\ \A t \in Threads : req[t] # j3
                             /\ used.faults + used.crashes <= 1
    /\ scene = "serial" => \A t \in Threads : /\ t # th1 => pc[t] = "idle"
                                             /\ req[t] # jbad

----------------------------------------------------------------------------
(* The instances *)

L == INSTANCE AuditChain WITH
        Sinks <- {"s1", "s2"}, Signed <- TRUE, Every <- 2,
        CrashPoints <- {"header", "open", "checkpoint"},
        MaxEvents <- 7, MaxSessions <- 4, MaxCrashes <- 2, MaxTorn <- 2,
        pc <- sinks, used <- spent

S == INSTANCE ReceiptStore WITH
        Writers <- {"w1", "w2"}, MaxSegment <- 2, MaxReceipts <- 4, MaxSeals <- 1,
        MaxRestarts <- 2, MaxFaults <- 1, pc <- writers

(* Three rules of one tool: r2 is of one source only, r2 is not encodable. *)
Sourced == "r1" :> {"", "s"} @@ "r2" :> {"s"} @@ "r3" :> {"", "s"}
Permitted == "r1" :> {"a", "b"} @@ "r2" :> {"a"} @@ "r3" :> {"b"}
Escalated == "r1" :> {"b"} @@ "r2" :> {} @@ "r3" :> {}
Shape == "a" :> "n" @@ "b" :> "n" @@ "c" :> "m"

H == INSTANCE History WITH
        Args <- {"a", "b", "c"}, Sources <- {"", "s"}, Blank <- "", RuleIds <- {"r1", "r2", "r3"},
        Matches <- Sourced, Permits <- Permitted, Escalates <- Escalated,
        Encodable <- {"r1", "r3"}, ShapeOf <- Shape,
        Files <- {<<>>, <<"r1">>, <<"r2">>, <<"r3">>, <<"r2", "r1">>},
        MaxChain <- 1, MaxLines <- 2, MaxEdits <- 2, chain <- calls, edits <- losses

ChainLines == {[node |-> "m", by |-> "g", flaw |-> "none"],
               [node |-> "n", by |-> "g", flaw |-> "orphan"],
               [node |-> "n", by |-> "g", flaw |-> "torn"]}
GivenProofs == {[hash |-> "h", sound |-> TRUE, status |-> "PROVEN"],
                [hash |-> "r", sound |-> TRUE, status |-> "REFUTED"]}
GivenCaps == {<<[node |-> "m", cites |-> "h"]>>,
              <<[node |-> "m", cites |-> "h"], [node |-> "m", cites |-> "r"]>>}

P == INSTANCE Packs WITH
        Lines <- ChainLines, Proofs <- GivenProofs, Caps <- GivenCaps,
        Custodian <- "aud", Stranger <- "x", Gateway <- "g", MaxLines <- 2, MaxEdits <- 2,
        chain <- packed, read <- reads, edits <- changes

OfKind(k, i, t) == [id |-> i, ts |-> t, kind |-> k, edited |-> FALSE]
AuditChains == {<<OfKind("meta", 1, 0), OfKind("event", 2, 1), OfKind("torn", 3, 1),
                  OfKind("event", 4, 2), OfKind("meta", 5, 0), OfKind("event", 6, 2),
                  OfKind("event", 7, 3)>>,
                <<OfKind("meta", 1, 0), OfKind("event", 2, 1), OfKind("event", 3, 1)>>}
GivenSpans == {[from |-> 1, to |-> 1], [from |-> 1, to |-> 2], [from |-> 2, to |-> 3],
               [from |-> 4, to |-> 4]}

R == INSTANCE Records WITH
        Chains <- AuditChains, Spans <- GivenSpans, Dirs <- {"d1", "d2"}, Operator <- "op",
        Stranger <- "x", MaxRuns <- 3, MaxEdits <- 2, Sessions <- {"s1", "s2"},
        MaxReceipts <- 4, MaxRemovals <- 1, chain <- disposed, signed <- authored

T == INSTANCE TimeStamps WITH
        Retentions <- {0, 2}, CertEnd <- 1, MaxLines <- 3, MaxRequests <- 2, MaxAnswers <- 2,
        MaxNow <- 2, Operator <- "op", Stranger <- "x", answers <- tokens

(* Two receipts of one second and one of the next. *)
Issued == <<[iat |-> 1, agent |-> "a"], [iat |-> 1, agent |-> "b"], [iat |-> 2, agent |-> "a"]>>

Q == INSTANCE ReceiptPages WITH
        Payload <- Issued, Limits <- {0, 2, 3}, MaxPage <- 2, Anyone <- "", NoCursor <- None,
        MaxRows <- 4, MaxRestarts <- 1, chain <- ofRecord, restarts <- rebuilds

----------------------------------------------------------------------------
(* A part that is off; the intake stays as it starts. *)

AuditOff == /\ exists = None /\ file = None /\ torn = None /\ sinks = None /\ mem = None
            /\ ended = None /\ spent = None
StoreOff == /\ segs = None /\ handle = None /\ lock = None /\ writers = None /\ rec = None
            /\ acked = None /\ index = None /\ feeding = None /\ fed = None /\ signed = None
            /\ seals = None /\ restarts = None /\ faults = None
HistoryOff == calls = None /\ lines = None /\ known = None /\ retained = None /\ losses = None
PacksOff == /\ packed = None /\ inputs = None /\ reads = None /\ pack = None /\ issued = None
            /\ changes = None /\ cdir = None /\ creads = None
RecordsOff == /\ disposed = None /\ dir = None /\ job = None /\ runs = None /\ edits = None
              /\ slots = None /\ pending = None /\ authored = None /\ removed = None
              /\ overlap = None
StampsOff == /\ ledger = None /\ request = None /\ nonces = None /\ tokens = None
             /\ minted = None /\ doc = None /\ now = None
PagesOff == ofRecord = None /\ waiting = None /\ rows = None /\ walk = None /\ rebuilds = None

IntakeScenes == DOMAIN Limits
AuditScenes == {"sink", "sinks"}
PackScenes == {"pack", "compliance"}
RecordScenes == {"disposal", "authorship"}
Scenes == IntakeScenes \cup AuditScenes \cup PackScenes \cup RecordScenes
          \cup {"store", "history", "stamps", "pages", "algorithms"}

ChainsInit ==
    /\ scene \in Scenes
    /\ stale = FALSE
    /\ Init
    /\ IF scene \in AuditScenes THEN L!Init ELSE AuditOff
    /\ IF scene = "store" THEN S!Init ELSE StoreOff
    /\ IF scene = "history" THEN H!Init ELSE HistoryOff
    /\ IF scene \in PackScenes THEN P!Init ELSE PacksOff
    /\ IF scene \in RecordScenes THEN R!Init ELSE RecordsOff
    /\ IF scene = "stamps" THEN T!Init ELSE StampsOff
    /\ IF scene = "pages" THEN Q!Init ELSE PagesOff

(* One sink that is closed, reopened, and killed between two writes or in the
   middle of one; or two on the same file, as for two events at a time. *)
InAuditScene ==
    /\ scene = "sink" => sinks["s2"] = "closed"
    /\ scene = "sinks" => spent.events <= 3 /\ spent.crashes <= 1 /\ spent.torn = 0

(* A sink writes an event or a checkpoint, and the events it knows of are not
   those in the file; or it writes a header, and there is one already. *)
WritesStale ==
    /\ Len(file') > Len(file)
    /\ IF file'[Len(file')].kind = "chain_meta" THEN L!Lines(file, "chain_meta") # {} ELSE
       \E s \in {"s1", "s2"} : /\ <<mem[s], sinks[s]>>' # <<mem[s], sinks[s]>>
                               /\ mem[s].leaves # L!Hashes(file)

AuditStep ==
    \/ /\ scene \in AuditScenes
       /\ L!Next
       /\ InAuditScene'
       /\ stale' = (stale \/ (scene = "sinks" /\ WritesStale))
    \/ scene \notin AuditScenes /\ UNCHANGED <<auditVars, stale>>

PackStep ==
    \/ scene = "pack" /\ P!NextPack
    \/ scene = "compliance" /\ P!NextCompliance
    \/ scene \notin PackScenes /\ UNCHANGED packVars

RecordStep ==
    \/ scene = "disposal" /\ R!NextDisposal
    \/ scene = "authorship" /\ R!NextAuthorship
    \/ scene \notin RecordScenes /\ UNCHANGED recordVars

ChainsNext ==
    /\ UNCHANGED scene
    /\ scene # "algorithms"
    /\ IF scene \in IntakeScenes THEN Next /\ InScene' ELSE UNCHANGED intakeVars
    /\ AuditStep
    /\ IF scene = "store" THEN S!Next ELSE UNCHANGED storeVars
    /\ IF scene = "history" THEN H!Next ELSE UNCHANGED historyVars
    /\ PackStep
    /\ RecordStep
    /\ IF scene = "stamps" THEN T!Next ELSE UNCHANGED stampVars
    /\ IF scene = "pages" THEN Q!Next ELSE UNCHANGED pageVars

allVars == <<scene, stale, intakeVars, auditVars, storeVars, historyVars, packVars, recordVars,
             stampVars, pageVars>>

ChainsSpec == ChainsInit /\ [][ChainsNext]_allVars

----------------------------------------------------------------------------
(* Inputs of the pure parts *)

SeqUpTo(V, n) == UNION {[1 .. m -> V] : m \in 0 .. n}

Receipts == {r \in SeqUpTo([hash : {"h", "i"}, ts : 0 .. 2, kind : {"decision", "other"}], 2) :
                Len(r) = 2 /\ r[1].hash = r[2].hash => r[1] = r[2]}
Verdicts == {"CLEAN", "SUSPICIOUS", "MALICIOUS"}
Scans == SeqUpTo([input : {"a", "b"}, verdict : Verdicts, decodes : BOOLEAN], 2)
Told == SeqUpTo([ts : 0 .. 2, decides : BOOLEAN, cites : {"h", "i", ""}], 2)

----------------------------------------------------------------------------
(* Properties *)

(* One sink at a time: a chain that was closed verifies, damage stays where it
   happened, and an edit of a verified chain is noticed.  Two sinks on the same
   file, as for two requests that audit at once: the verifier refuses the
   chain exactly when a sink wrote from memory the file had moved on from, or
   a second header, which a sink does that found no file before another one
   created it; so a fork never passes and taking turns never spoils the chain
   (HashChainSink, _resume, verify_chain). *)
ChainVerifies ==
    /\ scene = "sink" => L!ClosedChainVerifies /\ L!DamageIsLocal /\ L!TamperEvident
    /\ scene = "sinks" => (L!Intact(file) <=> ~stale)

(* The receipt store: acknowledged receipts stand in order, sidecars tell the
   truth, the index invents and repeats nothing and no writer meets a closed
   handle; who follows the pages of the index is shown every receipt, and the
   walk to ancestors finds what it should (SegmentedReceiptStore, ReceiptIndex,
   _sign_and_store_receipt, get_receipts). *)
StoreKeeps ==
    /\ scene = "store" => S!AckedKept /\ S!SidecarTrue /\ S!IndexFaithful /\ S!NoClosedHandle
    /\ scene = "pages" => Q!PagesComplete
    /\ scene = "algorithms" =>
          \A parents \in [1 .. 3 -> SUBSET (1 .. 4)], depth \in 0 .. 3 :
              Q!AncestryExact(parents, 1, depth)

(* The receipt store, step by step: a sealed segment is never written again,
   and a rebuild of the index that ends has a row for every receipt
   (_seal_active, rebuild_from_store). *)
SegmentsStand == [][(scene = "store") => S!KeepsSealed /\ S!RebuildsWhole]_allVars

(* Replays neither contradict what a policy decided nor confirm what it did
   not, whatever is lost or edited on the way, and count and sample every
   receipt (recompute_history, replay_counterfactual, replay_chain). *)
ReplayFair ==
    /\ scene = "history" => H!HistoryFair /\ H!ConfirmedIsPolicy /\ H!CounterfactualFair
    /\ scene = "algorithms" =>
          /\ \A scans \in SeqUpTo({"ALLOW", "ALERT", "BLOCK"}, 4), limit \in 1 .. 4 :
                \A off \in [{"ALLOW", "ALERT", "BLOCK"} -> 0 .. 1] :
                   H!SampleFair(scans, limit, off, <<"ALLOW", "ALERT", "BLOCK">>)
          /\ \A scans \in Scans, store \in SUBSET {"a", "b"}, candidate \in [{"a", "b"} -> Verdicts] :
                H!ReplayAccounts(scans, store, candidate)

(* What a third party is handed tells the truth or does not verify: evidence
   and compliance packs built while the chain grows and edited afterwards,
   disposals that were cut short or edited, authorship receipts of sessions
   that overlap, and the projection of receipts and events into one list
   (build_pack, verify_pack, build_destruction, verify_destruction,
   _default_receipt_path, project_pack_chain). *)
PapersHold ==
    /\ scene \in PackScenes => P!PackGenuine /\ P!ReportHonest /\ P!CertificateOfRead
    /\ scene \in RecordScenes => R!DisposalAttested /\ R!RemainderInTurn /\ R!ReceiptsKeptInTurn
    /\ scene = "algorithms" =>
          /\ \A r \in Receipts, e \in Told : R!ProjectionWhole(r, e)
          /\ \A c \in SeqUpTo({1, 2}, 4) : R!CollectedHolds(c, 3)

(* A time stamp that verifies was issued for the head it is shown for, and the
   plan to stamp again invents no anchor and misses just those intact ones that
   every receipt outliving their certificate stands behind (build_anchor,
   verify_anchor, retimestamp_plan). *)
StampsHold == scene = "stamps" => T!AnchorAttests /\ T!PlanExact
=============================================================================
