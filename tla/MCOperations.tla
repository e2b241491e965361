----------------------------- MODULE MCOperations -----------------------------
(***************************************************************************)
(* The parts around the gate, one scene each: the administrators' panel,   *)
(* the detection engine, the signing keys, indicator feeds, the anchoring  *)
(* of an audit chain, pulled audit sources and the egress doors.  In a     *)
(* scene its part takes every step it can; the others are off.  The last   *)
(* scene takes no step: it is where pure functions are checked.            *)
(***************************************************************************)
EXTENDS Integers, Sequences, FiniteSets, TLC

CONSTANT None

VARIABLE scene

VARIABLES users, userFile, policy, inForce, ledger, head, request, config, forwarding,
          buffer, confirmed, forgotten, overlapped, restarted, unledgered, failedSave, used
VARIABLES wired, require, rules, cached, audit, prov, returned, history, turn, lastSeen,
          hour, last, batch
VARIABLES backend, file, gw, keys, version, signed, stale, crashes, legacy, out
VARIABLES feeds, now, dir, tmp, sub, dialled, shared
VARIABLES chain, client, service, statement, anchored
VARIABLES seen, cursor, start, page, more, pc, pulled, faults, pulls, torn, session
VARIABLES door, token, run, sink, effects, answers, calls, fault, clock

panelVars == <<users, userFile, policy, inForce, ledger, head, request, config, forwarding,
               buffer, confirmed, forgotten, overlapped, restarted, unledgered, failedSave, used>>
detectionVars == <<wired, require, rules, cached, audit, prov, returned, history, turn, lastSeen,
                   hour, last, batch>>
keysVars == <<backend, file, gw, keys, version, signed, stale, crashes, legacy, out>>
feedVars == <<feeds, now, dir, tmp, sub, dialled, shared>>
anchorVars == <<chain, client, service, statement, anchored>>
pullVars == <<seen, cursor, start, page, more, pc, pulled, faults, pulls, torn, session>>
egressVars == <<door, token, run, sink, effects, answers, calls, fault, clock>>

----------------------------------------------------------------------------
(* The instances *)

P == INSTANCE AdminPanel WITH
        Threads <- {"t1", "t2"}, Keys <- {"root", "ops"}, AdminKey <- "root",
        Contents <- {"c1", "c2", "bad"}, Valid <- {"c1", "c2"}, Empty <- "empty",
        BufferCap <- 1, MaxLedger <- 3, MaxChanges <- 3, MaxEvents <- 2, MaxRestarts <- 1

(* Two marks a text may carry; "m" is the worse one.  r2 is a rule to load. *)
Marks == "r1" :> "m" @@ "r2" :> "n" @@ "o1" :> "m" @@ "t1" :> "m"
Scores == "r1" :> 40 @@ "r2" :> 20 @@ "o1" :> 40 @@ "t1" :> 40
Meaning == "m" :> 40 @@ "n" :> 0

D == INSTANCE Detection WITH
        Texts <- {<<"n">>, <<"m">>, <<"n", "n", "m">>}, RuleMark <- Marks, RuleScore <- Scores,
        Semantic <- Meaning, Builtin <- {"r1"}, Loadable <- {"r2"}, OutputRules <- {"o1"},
        ToolRules <- {"t1"}, MaxInput <- 2, MaxPattern <- 2, Mode <- "strict", Window <- 6,
        Sids <- {"s1"}, TTL <- 1, MaxClock <- 2, MaxTurns <- 6, MaxEvents <- 2, clock <- hour

OldChains == UNION {[1 .. n -> [jws : BOOLEAN, signed : BOOLEAN]] : n \in 0 .. 3}

K == INSTANCE Keys WITH
        Gateways <- {"g1", "g2"}, Backends <- {"local", "vault"}, LegacyChains <- OldChains,
        MaxKeys <- 4, MaxSigned <- 2, MaxCrashes <- 3

(* Two publishers, one of whom may also sign under the other's name. *)
Issuers == {[key |-> "k1", issuer |-> "A"], [key |-> "k2", issuer |-> "B"],
            [key |-> "k2", issuer |-> "A"]}

F == INSTANCE Federation WITH
        Publishers <- {"k1", "k2"}, Signers <- Issuers, FeedIds <- {"x", "y"}, Patterns <- {"p"},
        Subscribers <- {"s1", "s2"}, Public <- {"8"}, Private <- {"10"}, MaxFeeds <- 2, MaxNow <- 1,
        Bodies <- {"x", "y"}, MaxEvents <- 2, MaxPolls <- 2

C == INSTANCE Connectors WITH
        Events <- 5, PageSize <- 2, MaxFaults <- 2, MaxPulls <- 3, sink <- pulled

E == INSTANCE Egress WITH
        Contexts <- {"c1", "c2"}, Agents <- {"a"}, Tokens <- {"t1", "t2"},
        Bound <- "t1" :> "a" @@ "t2" :> "b", Permits <- "t1" :> {"x"} @@ "t2" :> {"x", "y"},
        Actions <- {"x", "y"}, UrlAllows <- {"x"}, UrlGated <- {"x", "y"}, Harmful <- {"y"},
        Custody <- {"writer", "sink"}, MaxCalls <- 2, MaxFaults <- 1, MaxClock <- 1,
        inForce <- token, faults <- fault

----------------------------------------------------------------------------
(* A part that is off *)

PanelOff == /\ users = None /\ userFile = None /\ policy = None /\ inForce = None /\ ledger = None
            /\ head = None /\ request = None /\ config = None /\ forwarding = None /\ buffer = None
            /\ confirmed = None /\ forgotten = None /\ overlapped = None /\ restarted = None
            /\ unledgered = None /\ failedSave = None /\ used = None
DetectionOff == /\ wired = None /\ require = None /\ rules = None /\ cached = None /\ audit = None
                /\ prov = None /\ returned = None /\ history = None /\ turn = None
                /\ lastSeen = None /\ hour = None /\ last = None /\ batch = None
KeysOff == /\ backend = None /\ file = None /\ gw = None /\ keys = None /\ version = None
           /\ signed = None /\ stale = None /\ crashes = None /\ legacy = None /\ out = None
FeedOff == /\ feeds = None /\ now = None /\ dir = None /\ tmp = None /\ sub = None
           /\ dialled = None /\ shared = None
AnchoringOff == chain = None /\ client = None /\ service = None /\ statement = None /\ anchored = None
ConnectorsOff == /\ seen = None /\ cursor = None /\ start = None /\ page = None /\ more = None
                 /\ pc = None /\ pulled = None /\ faults = None /\ pulls = None /\ torn = None
                 /\ session = None
EgressOff == /\ door = None /\ token = None /\ run = None /\ sink = None /\ effects = None
             /\ answers = None /\ calls = None /\ fault = None /\ clock = None

PanelScenes == {"people", "desk", "siem"}
DetectionScenes == {"scanner", "sessions", "batch"}
Scenes == PanelScenes \cup DetectionScenes \cup {"keys", "feed", "anchor", "pull", "egress", "algorithms"}

SceneInit ==
    /\ scene \in Scenes
    /\ IF scene \in PanelScenes THEN P!Init ELSE PanelOff
    /\ IF scene \in DetectionScenes THEN D!Init ELSE DetectionOff
    /\ IF scene = "keys" THEN K!Init ELSE KeysOff
    /\ IF scene = "feed" THEN F!InitFeed ELSE FeedOff
    /\ IF scene = "anchor" THEN F!InitAnchor ELSE AnchoringOff
    /\ IF scene = "pull" THEN C!Init ELSE ConnectorsOff
    /\ IF scene = "egress" THEN E!Init ELSE EgressOff
    /\ scene = "scanner" => wired # {}
    /\ scene = "sessions" => wired = {} /\ require
    /\ scene = "batch" => wired = {"signer"}

PanelStep ==
    \/ scene = "people" /\ P!PeopleNext
    \/ scene = "desk" /\ P!DeskNext
    \/ scene = "siem" /\ P!SiemNext
    \/ scene \in PanelScenes /\ P!Restart
    \/ scene \notin PanelScenes /\ UNCHANGED panelVars

DetectionStep ==
    \/ scene = "scanner" /\ D!NextScanner
    \/ scene = "sessions" /\ D!NextSession
    \/ scene = "batch" /\ D!NextBatch
    \/ scene \notin DetectionScenes /\ UNCHANGED detectionVars

(* A gateway boots, or an old chain is converted. *)
KeysStep ==
    \/ scene = "keys" /\ legacy = <<>> /\ K!NextBoot
    \/ scene = "keys" /\ legacy # <<>> /\ K!MigrateChain
    \/ scene # "keys" /\ UNCHANGED keysVars

(* What is withdrawn is k1's.  The second subscriber comes in for plain feeds of
   one id, at the start. *)
InFeed ==
    /\ \A f \in feeds : \A i \in f.iocs : i.body.revokes \subseteq {<<"A", "k1", "p">>}
    /\ sub["s2"].pc # "idle" =>
          /\ now = 0
          /\ \A f \in feeds : /\ f.id = "x" /\ f.by = f.key
                              /\ \A i \in f.iocs : i.body.revokes = {} /\ i.body.expires = 0

SceneNext ==
    /\ UNCHANGED scene
    /\ scene # "algorithms"
    /\ PanelStep
    /\ DetectionStep
    /\ KeysStep
    /\ IF scene = "feed" THEN F!NextFeed /\ InFeed' ELSE UNCHANGED feedVars
    /\ IF scene = "anchor" THEN F!NextAnchor ELSE UNCHANGED anchorVars
    /\ IF scene = "pull" THEN C!Next ELSE UNCHANGED pullVars
    /\ IF scene = "egress" THEN E!Next ELSE UNCHANGED egressVars

allVars == <<scene, panelVars, detectionVars, keysVars, feedVars, anchorVars, pullVars, egressVars>>

SceneSpec == SceneInit /\ [][SceneNext]_allVars

----------------------------------------------------------------------------
(* Inputs of the pure parts *)

Partial(S, V) == UNION {[dom -> V] : dom \in SUBSET S}

(* Arguments of a call as the policy drafter sees them. *)
Arg(kind, n) == [kind |-> kind, n |-> n]
Observed == Partial({"f", "g"}, {Arg("string", 0), Arg("string", 1), Arg("int", 0), Arg("int", 12),
                                 Arg("bool", 1), Arg("other", 0)})
Calls(args, names) == {[args |-> a, agent |-> n[1], source |-> n[2], dest |-> n[3]] :
                           a \in args, n \in names}
Named == Calls({<<>>, [f |-> Arg("int", 0)], [f |-> Arg("int", 12)]},
               (0 .. 2) \X (0 .. 2) \X (0 .. 1))
Drafts == UNION {[1 .. n -> kind] : n \in 1 .. 2, kind \in {Calls(Observed, {<<0, 0, 0>>}), Named}}

DraftsCover == \A observed \in Drafts : P!DraftCovers(observed)

(* What an answer's outcome is judged on. *)
Outcomes == [refusals : 0 .. 2, compliance : 0 .. 2, canaries : {FALSE}, secrets : BOOLEAN,
             sensitive : BOOLEAN, asked : BOOLEAN, leaks : BOOLEAN]
CanaryLists == {<<>>, <<"a">>, <<"a", "b">>, <<"a", "b", "c">>}

OutcomesHold ==
    \A list \in CanaryLists, shown \in SUBSET {"a", "b", "c"}, e \in Outcomes :
        D!HarmOutweighs(list, 2, shown, e)

(* Key rings a verifier may hold. *)
NoDowngrades == \A known \in SUBSET {"k", "other"} : K!NoDowngrade(known)

(* Headers of a limited answer. *)
Headers == [retryAfter : {C!Absent, 3}, remaining : {C!Absent, 0, 5}, reset : {C!Absent, 1, 7}]
HintsHold == \A vendor \in {"okta", "entra"}, h \in Headers : C!HintIsVendors(vendor, h, 2)

(* Constraints of a token and of an intent, and calls that may be retried: all
   of the kinds that make guidance, and each of the others with and without a
   list of allowed values. *)
Criteria == [allowed : Partial({"f"}, SUBSET {1, 2}), required : SUBSET {"f"},
             lo : Partial({"g"}, 1 .. 2), hi : Partial({"g"}, 1 .. 2),
             forbidden : {<<>>}, prefix : {<<>>}, combos : {{}}]
OtherKinds == [allowed : {<<>>, "f" :> {1, 2}}, required : {{}}, lo : {<<>>}, hi : {<<>>},
               forbidden : {<<>>, "f" :> {1}}, prefix : {<<>>, "f" :> {1}},
               combos : {{}, {{"f", "g"}}}]
Intents(kinds) ==
    {{}} \cup {{[tools |-> t, constraints |-> k]} : t \in {{}, {"u"}}, k \in kinds}
Retries == Partial({"f", "g"}, 0 .. 3)

GuidanceExact ==
    \A kinds \in {Criteria, OtherKinds} :
        \A c \in kinds, i \in Intents(kinds) : E!RetryExact("u", c, i, Retries)

----------------------------------------------------------------------------
(* Properties *)

(* THE PANEL.  For saves made in turn the ledger breaks exactly where a restarted
   gateway goes on with it, and ends with the policy in force; the forwarder
   does what the configuration says; and a drafted policy permits the calls it
   was drafted from just when they name one agent, source and destination
   (gateway_app.py, _append_policy_ledger, draft_policy). *)
PanelHolds ==
    /\ scene \in PanelScenes => P!LedgerInTurn /\ P!ForwarderFollows
    /\ scene = "algorithms" => DraftsCover

(* SECOND FACTOR.  An account with a confirmed second factor is let in as it was
   promised, but for the two ways in which the panel departs from it: locked
   out until a restart, and let in without a code after it (_check_auth,
   create_admin_app, _persist_users). *)
FactorStands == scene \in PanelScenes => P!FactorExact

(* DETECTION.  A verdict, its receipt and its audit event agree, whatever
   component is missing or fails; a rule set that is named is known; malice
   spread over a session is noticed; a batch answers in order; and no refusal
   outweighs a leak (scanner.py, session.py, middleware.py, outcome.py). *)
DetectionHolds ==
    /\ scene \in DetectionScenes =>
          D!EvidenceAgrees /\ D!RulesetKnown /\ D!MaliceIsNoticed /\ D!BatchInOrder
    /\ scene = "algorithms" => OutcomesHold

(* KEYS.  No restart, race or half-written file makes a gateway sign with a
   second key; a conversion keeps what verified; nothing passes after losing
   its second signature (_load_or_create_local_signer, migrate_chain_envelope,
   _verify_signature_v1). *)
KeysHold ==
    /\ scene = "keys" => K!NoReceiptOrphaned /\ K!MigrationFaithful
    /\ scene = "algorithms" => NoDowngrades

(* FEEDS AND ANCHORS.  Every indicator is signed by the key its feed was merged
   under and, where no two keys go by one name, withdrawn by that key only;
   files are replaced as a whole unless two subscribers share one temporary
   file, and no connection goes to a private address; a chain that checks as anchored is the
   chain whose head was registered (feed.py, verify_transparency_anchor). *)
FederationHolds ==
    /\ scene = "feed" => F!LiveIsVouched /\ F!FilesWhole /\ F!DialsChecked
    /\ scene = "anchor" => F!NoEquivocation

(* PULLS.  A connector hands over every event once, unless its caller dropped a
   page half-way; a limited caller is told the source's own delay
   (connectors/base.py). *)
PullHolds ==
    /\ scene = "pull" => C!OnceAndAll
    /\ scene = "algorithms" => HintsHold

(* EGRESS.  Nothing goes out of a strict door without its receipt or beyond the
   token in force, an answer carries the receipt of its own call, and the
   guidance on a denial describes exactly what would pass but for the kinds of
   constraint it leaves out (broker, urlgate, integrations). *)
EgressHolds ==
    /\ scene = "egress" => E!NoReceiptNoAction /\ E!ActsAreAuthorised /\ E!AnswersOwnReceipt
    /\ scene = "algorithms" => GuidanceExact
=============================================================================
