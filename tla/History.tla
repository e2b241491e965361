------------------------------ MODULE History ------------------------------
(***************************************************************************)
(* Looking back at the gate's decisions from what was retained: the input  *)
(* store (replay.py), the replay of the authority history                  *)
(* (authority_history.py), the counterfactual replay under another policy  *)
(* (counterfactual.py) and the bounded sample (replay_batch.py).           *)
(*                                                                         *)
(* The gate decides and receipts; a recorder stores the arguments; whoever *)
(* keeps the files loses, edits or swaps lines and policies; the auditor   *)
(* replays.  A receipt names the arguments and the matched rule by digest, *)
(* so an argument and a rule stand for their digests here.                 *)
(***************************************************************************)
EXTENDS Integers, Sequences, FiniteSets, SequencesExt

CONSTANTS
    Args,         \* arguments of a call, in canonical form
    Sources,      \* declared sources; Blank among them
    Blank,        \* no source declared
    RuleIds,      \* policy rules of the tool
    Matches,      \* Matches[r]: the sources rule r matches
    Permits,      \* Permits[r]: the arguments its constraints permit
    Escalates,    \* Escalates[r]: the arguments it wants approved
    Encodable,    \* the rules whose constraint kinds the prover models
    ShapeOf,      \* ShapeOf[a]: the fields and types of a
    Files,        \* policy files: sequences of rules
    None,         \* no rule
    MaxChain,     \* bound: receipts
    MaxLines,     \* bound: lines of the input store
    MaxEdits      \* bound: edits of the retained files

VARIABLES
    chain,        \* the gate receipts
    lines,        \* the input store's file: [hash, text]
    known,        \* _records of the recorder: the hashes it holds
    retained,     \* the retained policy files, in the order of their names
    edits         \* edits so far

vars == <<chain, lines, known, retained, edits>>

----------------------------------------------------------------------------
(* The gate that decides, live or rebuilt over a retained file *)

(* _find_rule, on the rules of one tool. *)
Rule(file, src) ==
    LET i == SelectInSeq(file, LAMBDA r : src \in Matches[r])
    IN  IF i = 0 THEN None ELSE file[i]

(* check_tool_call: the constraints are those of the token, minted under the
   tool's first rule; approval is asked for by the rule that matched. *)
Check(file, src, arg) ==
    LET r == Rule(file, src) IN
    IF r = None THEN "deny"
    ELSE IF arg \notin Permits[file[1]] THEN "deny"
    ELSE IF arg \in Escalates[r] THEN "escalate"
    ELSE "allow"

Edit == edits < MaxEdits /\ edits' = edits + 1

(* A decision under file, receipted.  A held trace or lease denies, and an
   approval allows what its rule escalates: the policy is not the cause. *)
Decide(file, src, arg, cause) ==
    LET d == Check(file, src, arg) IN
    /\ Len(chain) < MaxChain
    /\ cause = "approved" => d = "escalate"
    /\ chain' = Append(chain, [arg      |-> arg,
                               src      |-> src,
                               rule     |-> Rule(file, src),
                               file     |-> file,
                               cause    |-> cause,
                               decision |-> CASE cause = "held" -> "deny"
                                              [] cause = "approved" -> "allow"
                                              [] OTHER -> d])
    /\ UNCHANGED <<lines, known, retained, edits>>

(* The line of a receipt is made undecodable. *)
Garble(i) ==
    /\ Edit
    /\ chain' = [chain EXCEPT ![i].decision = "garbled"]
    /\ UNCHANGED <<lines, known, retained>>

----------------------------------------------------------------------------
(* InputStore *)

(* _load_existing: the last record of a hash stands. *)
Stored(h) ==
    LET i == SelectLastInSeq(lines, LAMBDA l : l.hash = h)
    IN  IF i = 0 THEN {} ELSE {lines[i].text}

Get_Unchecked(h) == Stored(h)   \* wrong: the text is not hashed again

(* get: a text that does not hash back counts as missing. *)
Get(h) == {t \in Stored(h) : t = h}

(* add: a hash in memory is not written again. *)
Add(a) ==
    /\ Len(lines) < MaxLines
    /\ known' = known \cup {a}
    /\ lines' = IF a \in known THEN lines ELSE Append(lines, [hash |-> a, text |-> a])
    /\ UNCHANGED <<chain, retained, edits>>

(* open: the records of the file. *)
Open ==
    /\ known' = {lines[i].hash : i \in DOMAIN lines}
    /\ UNCHANGED <<chain, lines, retained, edits>>

(* The keeper of the files swaps a text, or loses a line. *)
EditLine(i, t) ==
    /\ Edit
    /\ lines' = [lines EXCEPT ![i].text = t]
    /\ UNCHANGED <<chain, known, retained>>

LoseLine(i) ==
    /\ Edit
    /\ lines' = RemoveAt(lines, i)
    /\ UNCHANGED <<chain, known, retained>>

(* ... or replaces the policies that are retained. *)
Retain(fs) ==
    /\ Edit
    /\ retained' = fs
    /\ UNCHANGED <<chain, lines, known>>

----------------------------------------------------------------------------
(* replay_authority_history *)

(* _PolicyOfRecord.resolve: the first retained file whose rule for the call
   has the receipt's digest.  With nothing retained nothing resolves, not
   even the digest of no policy; otherwise that one is replayed on an empty
   policy. *)
Resolve_ByPosition(r) == IF retained = <<>> THEN {} ELSE {retained[1]}   \* wrong: not by digest

Resolve(r) ==
    LET i == SelectInSeq(retained, LAMBDA f : Rule(f, r.src) = r.rule) IN
    IF retained = <<>> THEN {}
    ELSE IF r.rule = None THEN {<<>>}
    ELSE IF i = 0 THEN {}
    ELSE {retained[i]}

(* _gate_decisions: the lines that decode to a decision; the others are
   counted, and not replayed. *)
GateDecisions == {i \in DOMAIN chain : chain[i].decision \in {"allow", "deny", "escalate"}}

(* The kinds of missing evidence: _resolve_args, then the policy of record. *)
MissingEvidence(r) ==
    IF Get(r.arg) = {} THEN {"stored_args_missing"}
    ELSE IF retained = <<>> THEN {"policy_artifact_not_retained"}
    ELSE IF Resolve(r) = {} THEN {"policy_digest_mismatch"}
    ELSE {}

(* _gateway_for, _empty: a gate over the file, on its own temporary state. *)
Rebuilt(file, src, args) == Check(file, src, args)

(* _classify_replay_status *)
Classify(recomputed, receipted) == IF recomputed = receipted THEN "verified" ELSE "divergent"

(* _replay_row *)
Status(r) ==
    IF MissingEvidence(r) # {} THEN "unverified"
    ELSE LET file == CHOOSE f \in Resolve(r) : TRUE
             args == CHOOSE t \in Get(r.arg) : TRUE
         IN  Classify(Rebuilt(file, r.src, args), r.decision)

(* The verdict of the report. *)
HistoryVerdict ==
    LET is(s) == \E i \in GateDecisions : Status(chain[i]) = s
    IN  IF is("divergent") THEN "EVIDENCE DIVERGENCE"
        ELSE IF is("unverified") THEN "INCOMPLETE EVIDENCE"
        ELSE "recomputed"

----------------------------------------------------------------------------
(* replay_counterfactual *)

(* The replay hands the gate no source and no destination. *)
CounterfactualDecision(alt, arg) == Check(alt, Blank, arg)

(* _find_alt_rule *)
FindAlt(alt) == Rule(alt, Blank)

(* _shape_schema: the class of calls with the same fields and types; a list
   or an object among them has no class. *)
SameShape(arg) == IF ShapeOf[arg] = None THEN {} ELSE {a \in Args : ShapeOf[a] = ShapeOf[arg]}

Proof_Recorded(alt, arg) ==   \* wrong: of the recorded arguments, not of their class
    LET r == FindAlt(alt) IN
    IF r = None THEN "UNDECIDED"
    ELSE IF r \notin Encodable THEN "UNDECIDED"
    ELSE IF arg \in Permits[r] THEN "REFUTED" ELSE "PROVEN"

(* _prove_prevention: is the class of calls of this shape excluded? *)
Proof(alt, arg) ==
    LET r == FindAlt(alt) IN
    IF r = None THEN "UNDECIDED"
    ELSE IF SameShape(arg) = {} THEN "UNDECIDED"
    ELSE IF r \notin Encodable THEN "UNDECIDED"
    ELSE IF SameShape(arg) \cap Permits[r] # {} THEN "REFUTED" ELSE "PROVEN"

(* _replay_receipt: nothing is said of a call whose arguments are gone. *)
Replayed(r, alt) ==
    [ counterfactual |-> CounterfactualDecision(alt, r.arg),
      prevented |-> r.decision = "allow" /\ CounterfactualDecision(alt, r.arg) = "deny",
      proof     |-> Proof(alt, r.arg) ]

Counterfactual(alt) ==
    [i \in {j \in GateDecisions : Get(chain[j].arg) # {}} |-> Replayed(chain[i], alt)]

----------------------------------------------------------------------------
(* Replay and replay_batch: a bounded sample of scan receipts, scanned again.
   scans is what the chain holds, in the order of the recorded time: the
   input and the verdict of each, and whether the line decodes. *)

ActionOf == [CLEAN |-> "ALLOW", SUSPICIOUS |-> "ALERT", MALICIOUS |-> "BLOCK"]

(* _load_replayable_receipts: the actions of those whose input is stored. *)
Pool(scans, store) ==
    LET usable(x) == x.decodes /\ x.input \in store
        kept == SelectSeq(scans, usable)
    IN  [i \in DOMAIN kept |-> ActionOf[kept[i].verdict]]

(* Replayer._process_receipt: under the candidate's verdicts. *)
ReplayScan(x, store, candidate) ==
    IF ~x.decodes THEN "skipped"
    ELSE IF x.input \notin store THEN "missing"
    ELSE IF candidate[x.input] = x.verdict THEN "unchanged"
    ELSE "changed"

(* newly_blocked, newly_allowed, newly_alerted. *)
Newly(action, scans, store, candidate) ==
    {i \in DOMAIN scans : /\ ReplayScan(scans[i], store, candidate) = "changed"
                          /\ ActionOf[candidate[scans[i].input]] = action
                          /\ ActionOf[scans[i].verdict] # action}

(* _sample_recent, of a pool of actions. *)
Recent(scans, limit) ==
    LET n == Len(scans) IN {i \in 1..n : i > n - limit}

(* _sample_stratified: the window of a stratum starts at an offset its name
   fixes, and holds at most limit receipts ... *)
Window(scans, action, limit, offset) ==
    LET bucket == SetToSortSeq({i \in DOMAIN scans : scans[i] = action}, <)
        n == Len(bucket)
    IN  [k \in 1..(IF n < limit THEN n ELSE limit) |->
            bucket[((offset[action] + k - 1) % n) + 1]]

Stratified_Shortest(scans, limit, offset, order) ==   \* wrong: the rounds end with the first empty stratum
    LET windows == [s \in DOMAIN order |-> Window(scans, order[s], limit, offset)]
        slots == {<<round, s>> \in (1..limit) \X DOMAIN order :
                     \A z \in DOMAIN order : round <= Len(windows[z])}
        before(x, y) == x[1] < y[1] \/ (x[1] = y[1] /\ x[2] <= y[2])
        first == {x \in slots : Cardinality({y \in slots : before(y, x)}) <= limit}
    IN  {windows[x[2]][Len(windows[x[2]]) + 1 - x[1]] : x \in first}

(* ... and the strata give in turn, each from the end of its window: one that
   is used up is passed over.  The n-th round takes the n-th from the end. *)
Stratified(scans, limit, offset, order) ==
    LET windows == [s \in DOMAIN order |-> Window(scans, order[s], limit, offset)]
        slots == {<<round, s>> \in (1..limit) \X DOMAIN order : round <= Len(windows[s])}
        before(x, y) == x[1] < y[1] \/ (x[1] = y[1] /\ x[2] <= y[2])
        first == {x \in slots : Cardinality({y \in slots : before(y, x)}) <= limit}
    IN  {windows[x[2]][Len(windows[x[2]]) + 1 - x[1]] : x \in first}

----------------------------------------------------------------------------

Init ==
    /\ chain = <<>>
    /\ lines = <<>>
    /\ known = {}
    /\ retained \in {<<f>> : f \in Files} \cup {<<>>}
    /\ edits = 0

Next ==
    \/ \E f \in Files, s \in Sources, a \in Args, c \in {"policy", "held", "approved"} :
           Decide(f, s, a, c)
    \/ \E a \in Args : Add(a)
    \/ Open
    \/ \E i \in DOMAIN chain : Garble(i)
    \/ \E i \in DOMAIN lines : LoseLine(i) \/ \E t \in Args : EditLine(i, t)
    \/ \E fs \in {<<f, g>> : f, g \in Files} : Retain(fs)

Spec == Init /\ [][Next]_vars

----------------------------------------------------------------------------
(* Properties *)

(* Whatever is done to the retained files, the history never contradicts a
   decision the policy alone took, and it confirms such a decision where its
   arguments and its policy file are still there: an edit can only leave it
   unverified (get's rehash, resolve by digest).  The digest is that of the
   rule that matched, while the constraints are those of the tool's first
   rule, so this is claimed of policies with one rule for the tool. *)
HistoryFair ==
    \A i \in GateDecisions :
       LET r == chain[i] IN
       r.cause = "policy" /\ (\A f \in Range(retained) \cup {r.file} : Len(f) <= 1) =>
          /\ Status(r) # "divergent"
          /\ r.arg \in Get(r.arg) /\ r.file \in Range(retained) => Status(r) = "verified"

(* A decision the history confirms is one the policy gives: a deny of a hold
   and an allow of an approval are confirmed only where the policy alone
   would have answered the same. *)
ConfirmedIsPolicy ==
    \A i \in GateDecisions :
       LET r == chain[i] IN
       Status(r) = "verified" /\ Len(r.file) <= 1 /\ (\A f \in Range(retained) : Len(f) <= 1) =>
          r.decision = Check(r.file, r.src, r.arg)

(* Replayed under the very policy it was taken under, no call is reported as
   prevented, and a class reported as excluded holds no permitted call, where
   the tool has one rule and it matches every source: the replay passes no
   source on (replay_counterfactual). *)
CounterfactualFair ==
    \A f \in {g \in Files : Len(g) = 1 /\ Matches[g[1]] = Sources} :
       \A i \in DOMAIN Counterfactual(f) :
          /\ chain[i].file = f => ~Counterfactual(f)[i].prevented
          /\ Counterfactual(f)[i].proof = "PROVEN" =>
                \A a \in SameShape(chain[i].arg) : Check(f, Blank, a) = "deny"

(* Every scan receipt that decodes is unchanged, missing or newly one action,
   and never two of them: no receipt drops out of the count (replay_chain). *)
ReplayAccounts(scans, store, candidate) ==
    LET news == [a \in {"ALLOW", "ALERT", "BLOCK"} |-> Newly(a, scans, store, candidate)]
        of(k) == {i \in DOMAIN scans : ReplayScan(scans[i], store, candidate) = k}
    IN  /\ UNION Range(news) = of("changed")
        /\ \A a, b \in DOMAIN news : a # b => news[a] \cap news[b] = {}
        /\ Cardinality(of("unchanged")) + Cardinality(of("changed")) = Len(Pool(scans, store))

(* A sample is as large as asked for or the pool is used up, and where there
   is room for one of each, every action that occurs in the pool is in the
   sample, wherever the offsets point. *)
SampleFair(scans, limit, offset, order) ==
    LET s == Stratified(scans, limit, offset, order) IN
    /\ Cardinality(s) = (IF Len(scans) < limit THEN Len(scans) ELSE limit)
    /\ Cardinality(Range(scans)) <= limit =>
          \A a \in Range(scans) : \E i \in s : scans[i] = a
=============================================================================
