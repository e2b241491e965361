------------------------------ MODULE Detection ------------------------------
(***************************************************************************)
(* The detection engine: Scanner with its three scans and the evidence each *)
(* leaves (verdict receipt, audit event, provenance record), the rolling    *)
(* sessions of SessionScanner behind RaucleMiddleware, batches on a thread  *)
(* pool, and the outcome verifier with the canaries it looks for.           *)
(*                                                                         *)
(* A text is a sequence of marks; a rule matches a text that holds its mark.*)
(* Scores are percentages; Semantic stands for the second layer, whose      *)
(* arithmetic is not modelled.                                              *)
(***************************************************************************)
EXTENDS Naturals, Sequences, FiniteSets, SequencesExt, FiniteSetsExt

CONSTANTS
    Texts,         \* texts callers send
    RuleMark,      \* [rule -> mark it matches]
    RuleScore,     \* [rule -> 0..100]
    Builtin,       \* rules a Scanner starts with
    Loadable,      \* rules load_rules may add
    OutputRules,   \* OUTPUT_RULES with the DLP rules
    ToolRules,     \* TOOL_CALL_RULES with the DLP rules
    Semantic,      \* [mark -> 0..100]: what the semantic layer makes of it
    MaxInput,      \* MAX_INPUT_LENGTH
    MaxPattern,    \* _PER_PATTERN_MAX_LENGTH
    Mode,          \* "strict", "standard" or "permissive"
    Window,        \* window_size
    Sids,          \* session ids
    TTL,           \* session_ttl
    MaxClock,      \* bound: time
    MaxTurns,      \* bound: turns of a session
    MaxEvents,     \* bound: audit events
    None           \* no hash cached

VARIABLES
    wired,     \* subset of Stages: what the Scanner was built with
    require,   \* require_receipts
    rules,     \* the pattern layer's rules
    cached,    \* _ruleset_hash_cached: a set of rules, or None
    audit,     \* audit events
    prov,      \* provenance records
    returned,  \* results callers got, with the receipt and the rules that decided
    history,   \* [Sids -> window of scores]
    turn,      \* [Sids -> turn number]
    lastSeen,  \* [Sids -> time, or MaxClock + 1 when there is no session]
    clock,     \* monotonic time
    last,      \* the middleware's latest call: what the scan said, what was fired
    batch      \* a scan_batch under way: prompts, results, started

evidence == <<audit, prov, returned, cached>>
sessions == <<history, turn, lastSeen, last>>
fixed == <<wired, require>>
vars == <<wired, require, rules, cached, audit, prov, returned,
          history, turn, lastSeen, clock, last, batch>>

(* The stages of _finalize, in order. *)
Stages == <<"signer", "audit", "provenance">>

NoBatch == [prompts |-> <<>>, results |-> <<>>, done |-> {}]
NoCall == [scan |-> "ALLOW", risk |-> "ALLOW", fired |-> "none", phase |-> "none"]

Init ==
    /\ wired \in {{}, {"signer"}, {"signer", "audit"}, Range(Stages)}
    /\ require \in BOOLEAN
    /\ rules = Builtin
    /\ cached = None
    /\ audit = <<>>
    /\ prov = <<>>
    /\ returned = {}
    /\ history = [s \in Sids |-> <<>>]
    /\ turn = [s \in Sids |-> 0]
    /\ lastSeen = [s \in Sids |-> MaxClock + 1]
    /\ clock = 0
    /\ last = NoCall
    /\ batch = NoBatch

-----------------------------------------------------------------------------
(* Scanning *)

Block == CASE Mode = "strict" -> 40 [] Mode = "standard" -> 70 [] OTHER -> 85
Alert == CASE Mode = "strict" -> 20 [] Mode = "standard" -> 40 [] OTHER -> 60

Truncate(text) == SubSeq(text, 1, IF Len(text) > MaxInput THEN MaxInput ELSE Len(text))

(* _safe_match: a pattern sees the head of the text only. *)
SafeMatch(r, text) ==
    \E k \in DOMAIN text : k <= MaxPattern /\ text[k] = RuleMark[r]

(* PatternLayer.scan: the best score of the rules tried before the budget
   ran out; tried is any part of them. *)
PatternScore(tried, text) ==
    Max({0} \cup {RuleScore[r] : r \in {x \in tried : SafeMatch(x, text)}})

(* PatternLayer.scan_with_rules, then _detect_prompt_mirroring. *)
OutputScore(tried, text, mirrored) ==
    Max({PatternScore(tried, text), IF mirrored THEN 80 ELSE 0})

SemanticScore(text) == Max({0} \cup {Semantic[m] : m \in Range(text)})

(* The verdict and the action go together. *)
Verdict(conf) ==
    IF conf >= Block THEN "MALICIOUS" ELSE IF conf >= Alert THEN "SUSPICIOUS" ELSE "CLEAN"

Action(conf) ==
    IF conf >= Block THEN "BLOCK" ELSE IF conf >= Alert THEN "ALERT" ELSE "ALLOW"

Combined(pattern, semantic) == (35 * pattern + 65 * semantic) \div 100

(* Scanner.scan, scan_output and scan_tool_call up to _finalize. *)
ScanPrompt(text, tried) ==
    LET t == Truncate(text) IN
    [kind |-> "scan", input |-> text, scanned |-> t,
     conf |-> Combined(PatternScore(tried, t), SemanticScore(t))]

ScanOutput(text, tried, mirrored) ==
    LET t == Truncate(text) IN
    [kind |-> "scan_output", input |-> text, scanned |-> t,
     conf |-> Combined(OutputScore(tried, t, mirrored), SemanticScore(t))]

ScanToolCall(text, tried) ==
    LET t == Truncate(text) IN
    [kind |-> "scan_tool_call", input |-> text, scanned |-> t, conf |-> PatternScore(tried, t)]

-----------------------------------------------------------------------------
(* _finalize: receipt, audit event, provenance record *)

(* _ruleset_hash: computed once, by the first stage that asks for it. *)
RulesetHash == IF cached = None THEN rules ELSE cached

(* VerdictSigner.issue, and the same facts in the event and the record. *)
Statement(r) == [input |-> r.scanned, verdict |-> Verdict(r.conf), ruleset |-> RulesetHash]

Before(s) == {Stages[k] : k \in {j \in DOMAIN Stages :
                  \E i \in DOMAIN Stages : Stages[i] = s /\ j < i}}

(* _issue_receipt, _write_audit and _emit_provenance: a failure is logged,
   or raised under require_receipts, and then nothing after it runs. *)
Produced(failing) ==
    {s \in wired \ failing : require => Before(s) \cap wired \cap failing = {}}

Raises(failing) == require /\ wired \cap failing # {}

Finalize_Lenient(r, failing) ==   \* wrong: a failure never raises
    LET done == Produced(failing)
        receipt == IF "signer" \in done THEN <<Statement(r)>> ELSE <<>>
    IN
    /\ Len(audit) < MaxEvents /\ Len(prov) < MaxEvents /\ Cardinality(returned) < MaxEvents
    /\ cached' = IF wired = {} THEN cached ELSE RulesetHash
    /\ audit' = IF "audit" \in done THEN Append(audit, Statement(r)) ELSE audit
    /\ prov' = IF "provenance" \in done THEN Append(prov, Statement(r)) ELSE prov
    /\ returned' = IF wired = {} THEN returned
                   ELSE returned \cup {[result |-> r, receipt |-> receipt, by |-> rules]}

Finalize(r, failing) ==
    LET done == Produced(failing)
        receipt == IF "signer" \in done THEN <<Statement(r)>> ELSE <<>>
    IN
    /\ Len(audit) < MaxEvents /\ Len(prov) < MaxEvents /\ Cardinality(returned) < MaxEvents
    /\ cached' = IF wired = {} THEN cached ELSE RulesetHash
    /\ audit' = IF "audit" \in done THEN Append(audit, Statement(r)) ELSE audit
    /\ prov' = IF "provenance" \in done THEN Append(prov, Statement(r)) ELSE prov
    /\ returned' = IF wired = {} \/ Raises(failing) THEN returned
                   ELSE returned \cup {[result |-> r, receipt |-> receipt, by |-> rules]}

(* VerdictVerifier.verify for a receipt of the right key: the input and the
   ruleset bind only when the caller gives them. *)
VerdictHolds(receipt, input, ruleset) ==
    /\ input # None => receipt.input = input
    /\ ruleset # None => receipt.ruleset = ruleset

-----------------------------------------------------------------------------
(* Sessions *)

(* _calculate_session_risk, times the sum of the weights: 0.85 = 17 / 20, so
   the weights of a window of n are 17^(n-i) * 20^(i-1). *)
Power(b, n) == LET p[k \in 0 .. n] == IF k = 0 THEN 1 ELSE b * p[k - 1] IN p[n]

Weight(i, n) == Power(17, n - i) * Power(20, i - 1)

WeightedSum(h) == FoldSet(LAMBDA i, acc : acc + h[i] * Weight(i, Len(h)), 0, DOMAIN h)

WeightTotal(h) == FoldSet(LAMBDA i, acc : acc + Weight(i, Len(h)), 0, DOMAIN h)

(* A message that was MALICIOUS adds 0.3 to the risk while it is in the window. *)
Boost_Small(h) == IF \E i \in DOMAIN h : h[i] >= Block THEN 20 ELSE 0   \* wrong: 0.2

Boost(h) == IF \E i \in DOMAIN h : h[i] >= Block THEN 30 ELSE 0

RiskExceeds(h, percent) ==
    h # <<>> /\ WeightedSum(h) > (percent - Boost(h)) * WeightTotal(h)

(* _detect_escalation: the last three against the three before, by 0.15. *)
Escalation(h) ==
    LET n == Len(h) IN
    n >= 6 /\ h[n] + h[n-1] + h[n-2] > h[n-3] + h[n-4] + h[n-5] + 45

(* The session's action: cumulative_threshold 0.6. *)
SessionAction(h) ==
    IF RiskExceeds(h, 60) THEN "BLOCK"
    ELSE IF Escalation(h) \/ RiskExceeds(h, 36) THEN "ALERT"
    ELSE "ALLOW"

Push(h, conf) == IF Len(h) < Window THEN Append(h, conf) ELSE Append(Tail(h), conf)

(* _evict_stale_sessions, then get_session creates the session when absent. *)
Stale(s) == TTL # 0 /\ lastSeen[s] <= MaxClock /\ clock - lastSeen[s] > TTL

Opened(s, h) == [x \in Sids |-> IF Stale(x) THEN <<>> ELSE h[x]][s]

Touch(s) == [x \in Sids |-> IF x = s THEN clock
                            ELSE IF Stale(x) THEN MaxClock + 1 ELSE lastSeen[x]]

(* SessionScanner.scan_message with the score it keeps. *)
ScanMessage(s, conf, h) ==
    /\ turn[s] < MaxTurns
    /\ history' = [x \in Sids |-> IF x = s THEN Push(Opened(s, h), conf)
                                  ELSE IF Stale(x) THEN <<>> ELSE h[x]]
    /\ turn' = [x \in Sids |-> IF x = s THEN (IF Stale(s) THEN 1 ELSE turn[s] + 1)
                               ELSE IF Stale(x) THEN 0 ELSE turn[x]]
    /\ lastSeen' = Touch(s)

(* _fire_callbacks *)
Fired(action) == CASE action = "BLOCK" -> "on_block" [] action = "ALERT" -> "on_alert" [] OTHER -> "none"

-----------------------------------------------------------------------------
(* Actions *)

(* Scanner.scan by itself, or detect_injection of the MCP server. *)
Scan(text, tried, failing) ==
    /\ tried \subseteq rules
    /\ Finalize(ScanPrompt(text, tried), failing)
    /\ UNCHANGED <<fixed, rules, sessions, clock, batch>>

ScanOutputAlone(text, mirrored, failing) ==
    /\ Finalize(ScanOutput(text, OutputRules, mirrored), failing)
    /\ UNCHANGED <<fixed, rules, sessions, clock, batch>>

(* load_rules: the cached hash of the ruleset stays. *)
LoadRules(r) ==
    /\ r \in Loadable \ rules
    /\ rules' = rules \cup {r}
    /\ UNCHANGED <<fixed, evidence, sessions, clock, batch>>

(* RaucleMiddleware.pre_process and post_process in a session; the Scanner
   the middleware builds has no sinks. *)
Process(s, r, phase) ==
    /\ wired = {}
    /\ ScanMessage(s, r.conf, history)
    /\ last' = LET risk == SessionAction(history'[s])
               IN [scan |-> Action(r.conf), risk |-> risk, fired |-> Fired(risk), phase |-> phase]
    /\ UNCHANGED <<fixed, rules, evidence, clock, batch>>

(* pre_tool_call: the call is decided by its own scan; the session records
   the arguments as a message, or the tool call when that scores higher. *)
PreToolCall(s, text) ==
    LET r == ScanToolCall(text, ToolRules)
        m == ScanPrompt(text, rules)
        kept == IF r.conf > m.conf THEN r.conf ELSE m.conf
    IN
    /\ wired = {}
    /\ ScanMessage(s, kept, history)
    /\ last' = [scan |-> Action(r.conf), risk |-> SessionAction(history'[s]),
                fired |-> Fired(Action(r.conf)), phase |-> "pre_tool_call"]
    /\ UNCHANGED <<fixed, rules, evidence, clock, batch>>

DropSession(s) ==
    /\ lastSeen[s] <= MaxClock
    /\ history' = [history EXCEPT ![s] = <<>>]
    /\ turn' = [turn EXCEPT ![s] = 0]
    /\ lastSeen' = [lastSeen EXCEPT ![s] = MaxClock + 1]
    /\ last' = NoCall
    /\ UNCHANGED <<fixed, rules, evidence, clock, batch>>

(* scan_batch: every prompt to the pool, each answer to its prompt's place. *)
StartBatch(prompts) ==
    /\ batch = NoBatch
    /\ batch' = [prompts |-> prompts, results |-> [k \in DOMAIN prompts |-> None], done |-> {}]
    /\ UNCHANGED <<fixed, rules, evidence, sessions, clock>>

Placed_InOrder(b, k, r) ==   \* wrong: answers in the order they complete
    [b.results EXCEPT ![Cardinality(b.done) + 1] = r]

Placed(b, k, r) == [b.results EXCEPT ![k] = r]

BatchWorker(k) ==
    /\ k \in DOMAIN batch.prompts \ batch.done
    /\ LET r == ScanPrompt(batch.prompts[k], rules) IN
       /\ Finalize(r, {})
       /\ batch' = [batch EXCEPT !.results = Placed(batch, k, r), !.done = @ \cup {k}]
    /\ UNCHANGED <<fixed, rules, sessions, clock>>

EndBatch ==
    /\ batch # NoBatch
    /\ batch.done = DOMAIN batch.prompts
    /\ batch' = NoBatch
    /\ UNCHANGED <<fixed, rules, evidence, sessions, clock>>

Tick ==
    /\ clock < MaxClock
    /\ clock' = clock + 1
    /\ UNCHANGED <<fixed, rules, evidence, sessions, batch>>

NextScanner ==
    \/ \E t \in Texts, f \in SUBSET wired :
         \/ \E tried \in SUBSET rules : Scan(t, tried, f)
         \/ \E m \in BOOLEAN : ScanOutputAlone(t, m, f)
    \/ \E r \in Loadable : LoadRules(r)

NextSession ==
    \/ \E s \in Sids, t \in Texts :
         \/ Process(s, ScanPrompt(t, rules), "pre_process")
         \/ \E m \in BOOLEAN : Process(s, ScanOutput(t, OutputRules, m), "post_process")
         \/ PreToolCall(s, t)
    \/ \E s \in Sids : DropSession(s)
    \/ Tick

NextBatch ==
    \/ \E a, b \in Texts : StartBatch(<<a, b>>)
    \/ \E k \in {1, 2} : BatchWorker(k)
    \/ EndBatch

Next == NextScanner \/ NextSession \/ NextBatch

Spec == Init /\ [][Next]_vars

-----------------------------------------------------------------------------
(* OutcomeVerifier and CanaryManager, as operators *)

(* CanaryManager._register: the oldest token goes when the registry is full. *)
Register(registry, token, max) ==
    Append(IF Len(registry) >= max THEN Tail(registry) ELSE registry, token)

(* check_output_all: tokens still registered that the output carries, in
   full or by the first characters of their value. *)
CheckOutputAll(registry, output) == {t \in Range(registry) : t \in output}

(* _decide over counts and evidence. *)
Decide_RefusalFirst(e) ==   \* wrong: a refusal hides a leak
    IF e.refusals >= 1 /\ e.refusals >= e.compliance THEN "REFUSED"
    ELSE IF e.canaries \/ e.secrets \/ e.sensitive \/ (e.asked /\ e.leaks) THEN "LANDED"
    ELSE IF e.compliance >= 2 /\ e.refusals = 0 THEN "LANDED"
    ELSE "UNCERTAIN"

Decide(e) ==
    IF e.canaries \/ e.secrets \/ e.sensitive \/ (e.asked /\ e.leaks) THEN "LANDED"
    ELSE IF e.refusals >= 1 /\ e.refusals >= e.compliance THEN "REFUSED"
    ELSE IF e.compliance >= 2 /\ e.refusals = 0 THEN "LANDED"
    ELSE "UNCERTAIN"

(* verify: prompt leaks are looked for only when the prompt asked for it. *)
VerifyOutcome(registry, output, e) ==
    Decide([e EXCEPT !.canaries = CheckOutputAll(registry, output) # {},
                     !.leaks = e.asked /\ e.leaks])

-----------------------------------------------------------------------------
(* Properties *)

TypeOK ==
    /\ wired \subseteq Range(Stages)
    /\ Builtin \subseteq rules
    /\ Len(audit) <= MaxEvents
    /\ \A s \in Sids : Len(history[s]) <= Window /\ turn[s] <= MaxTurns

(* Under require_receipts whatever verdict a caller got has its receipt, its
   audit event and its provenance record, as far as they are wired, all three
   saying the same, and the receipt verifies for the text that was scanned; a
   caller whose text was truncated cannot verify it with the text they sent. *)
EvidenceAgrees ==
    \A v \in returned :
        LET r == v.receipt IN
        /\ require => /\ "signer" \in wired => r # <<>>
                      /\ "audit" \in wired => r[1] \in Range(audit)
                      /\ "provenance" \in wired => r[1] \in Range(prov)
        /\ r # <<>> => /\ VerdictHolds(r[1], v.result.scanned, None)
                       /\ VerdictHolds(r[1], v.result.input, None)
                             <=> Len(v.result.input) <= MaxInput
                       /\ r[1].verdict = Verdict(v.result.conf)

(* The ruleset a receipt names is one the scanner ran with, the first it
   hashed; it is the one that decided unless rules were loaded since. *)
RulesetKnown ==
    \A v \in returned :
        v.receipt # <<>> => /\ v.receipt[1].ruleset \subseteq v.by
                            /\ v.receipt[1].ruleset = cached
                            /\ cached = rules => v.receipt[1].ruleset = v.by

(* A message the scanner would block is at least an alert in its session,
   whatever came before it: the boost outweighs any clean window. *)
MaliceIsNoticed ==
    last.scan = "BLOCK" /\ last.phase # "pre_tool_call" => last.risk # "ALLOW"

(* What middleware.py says of on_block: fired when a scan produces BLOCK. *)
BlockFires == last.scan = "BLOCK" => last.fired = "on_block"

(* Answers of a batch are in the order of its prompts, whichever worker of
   the pool was first. *)
BatchInOrder ==
    \A k \in batch.done :
        batch.results[k] # None /\ batch.results[k].input = batch.prompts[k]

(* No refusal hides harm: an answer that carries a canary still registered,
   a secret or a sensitive call has landed, whatever else it says. *)
HarmOutweighs(tokens, max, output, e) ==
    LET registry == FoldLeft(LAMBDA acc, t : Register(acc, t, max), <<>>, tokens)
        kept == SubSeq(tokens, IF Len(tokens) > max THEN Len(tokens) - max + 1 ELSE 1, Len(tokens))
    IN  (Range(kept) \cap output # {} \/ e.secrets \/ e.sensitive)
            => VerifyOutcome(registry, output, e) = "LANDED"
=============================================================================
