# Raucle in TLA+

A verification development kept beside raucle, a policy gate for AI agents that
signs a receipt for everything it decides. The modules model the parts of
`src/raucle/` that hold state and change it under concurrency, failure or tampering
with the evidence, and the algorithms other parts rest on. TLC checks them on small
instances; TLAPS proves the most important invariants for every size.
`PROJECT.json` lists, for every definition, the source lines it models.

    tlc -workers 2 -config MCContainment.cfg MCContainment      # a run
    tlapm ContainmentProofs.tla                                 # proofs of a module

## 1. The system

One gate process (FastAPI) answers tool calls of agents: it authenticates the agent,
looks up the policy rule, checks a capability token, the containment registries,
evidence and data flow, may hold the call for a human, signs a receipt and appends it
to a store. Operators stop and resume the system on the command line, through
files. A portal sends signed policies. Agents and organisations delegate authority to
each other and keep provenance chains of what they did. Auditors get packs, replays
and time stamps made from all of this. Processes share **files**, threads of the gate
share **memory**; locks are few, and most are per process or per object.

| Part | State | Operations | Meets the others through |
|---|---|---|---|
| Emergency stop (`containment.py`) | policy file, state file, receipt stream, anchor, operator key, flock | hold, approve, abort, resume | policy file, revocations file, ledger |
| Scope holds and levers (`containment.py`, `capability.py`) | delegation ledger, revocations file, caches of the ledger, lever registries | hold, resume, register, cascade, quarantine, suspend | marker rows, registries the gate reads at every call |
| Agents (`agent_registry.py`, `agent_credentials.py`, `admission.py`, `canary_service.py`) | credential file and its copies, descriptors, canaries | enrol, issue, revoke, authenticate, admit, observe | every call of the gate |
| Capability tokens (`capability.py`, verifiers, `prove.py`) | tokens, resolver, denylist, proofs | mint, attenuate, check, prove, re-check | the gate calls the check; the ledger is the resolver |
| Gate decision (`gateway.py`, `policy_bytes.py`, `eqr.py`, `policy.py`) | rule index, token cache, seal, evidence, outputs | check a call, save, reload, seal | everything above is asked by it |
| Approvals and activations (`approvals.py`, `activation.py`, `delta_report.py`) | requests in memory, receipts | create, decide, consume, lazy expiry | a call, or a policy change, that waits for a human |
| Deployment intake (`deployment_intake.py`) | nonce cache, policy file, rules in memory, receipts | accept_deployment, reload | replaces the policy file; writes to the audit chain |
| Audit chain, receipt store (`audit.py`, `receipt_store.py`, `receipt_index.py`) | JSONL files, sidecars, SQLite index, tail hash in memory | open, append, checkpoint, roll over, seal, rebuild, page, verify | every receipt and event ends here |
| Looking back (`replay*.py`, `counterfactual.py`, `authority_history.py`, `audit_pack.py`, `compliance_pack.py`, `records.py`, `timestamp.py`) | inputs, policies of record, packs, anchors | replay, export, dispose, stamp, verify | read what the others wrote, while it grows |
| Provenance and trust (`provenance.py`, `chain_graph.py`, `trust_registry.py`, `handshake.py`, `passport.py`, `a2a.py`) | chain file, loggers, registry and its copies, nonces | append, verify, resolve, call, acknowledge | signed receipts between organisations |
| Edges (`urlgate.py`, `broker/`, `integrations/`, `connectors/`, `scanner.py`, `feed.py`, `transparency.py`, panel, keys) | in-force tokens, cursors, sessions, feeds, accounts, key files | act, pull, scan, merge, anchor, configure | ask the gate, write receipts |

### What is hard here

* **Several files, one transition.** A hold writes a policy, a receipt, an anchor
  and a state file; a process may die between any two of them.
* **Threads without locks.** FastAPI runs plain `def` endpoints in a thread pool.
  `ApprovalManager`, the activation requests, the rule index and the token cache have no
  lock; those of `NonceCache` and `HashChainSink` are in objects made per request.
* **Looks before locks.** Commands read the state, or a lever's registry, and take the
  flock afterwards.
* **Caches beside files.** `DelegationLedger` reloads on a changed mtime; the gateway
  reads credentials once; a provenance logger knows the taint of what it has read; the gate
  decides on rules in memory and compares the *file* with its seal.
* **Two versions of one check.** `attenuate` builds a child, `verify` recomputes the merge;
  the stand-alone verifier and the conformance re-check judge the same tokens again.
* **Evidence must survive failure.** Receipts that cannot be written downgrade the
  answer, but what was consumed or opened before stays so. Readers work while writers append.

`hazards` in `PROJECT.json` names the lines; the properties below are aimed at them.

## 2. Modules and what they stand for

Conventions. An action is one atomic piece of a handler: what happens between two
points where another thread, another process or a crash can intervene. `pc[p]` is
the next piece, `loc[p]` the local variables. Signatures and digests are ideal: a
digest is the contents, a signature the key that made it. Operators named `X_Something`
marked `wrong:` are plausible bugs of `X`, used to see that a property can fail. Bounds
(`Max...`) are constants, counted in `used`.

**Containment** (global scope). Variables: `policy`, `state`, `receipts`, `anchor`,
`opKey`, `lock`. `HoldCheck` is the unlocked look of `hold`; `HoldLock` takes the
flock and rereads; `Snapshot`, `WriteDenyAll`, `AppendReceipt`, `Reanchor`, `Persist` are
the writes of `_apply_hold_locked` and `_emit_receipt` in their order; `Rollback` the
error path; `Approve`, `Abort`, `Resume` the other commands, with `RestorePolicy`,
`VerifyRestore`, `TruncateState`, `UnlinkState`. `EmitFault`, `AnchorFault` and `Crash` fail
at every point where the code can. `Activate` replaces the policy file (nobody but
containment takes the flock), `ReplaceKey` the operator key, `Restamp` rewrites the
snapshot in the state file. **HaltTrail** is the abstract specification: what the
receipt stream alone promises an auditor; `TrailIsLegal` is the refinement, up to the first
disturbance (a death, an anchor that was not written, a foreign write of the policy).

**DelegationHold** (agent and chain scopes, `DelegationLedger`, `revoke_capability`). One
containment process — `MutualExclusion`, proved for Containment, is why one is enough —
registrars with a cache each, and the gateway's cascade. The mtime is the length of the ledger;
`raced[r]` remembers that registrar `r` loaded the ledger around a containment operation, `lost` the
scopes whose hold or resume marker could not be appended (`HoldMarkerFails`, `ResumeMarkerFails`).
**Levers**: trace quarantine and lease suspension, `_registry_transition` in its steps, with
the shared receipt stream and its anchor. **AgentAccess**: credentials as a file and the copies
each process holds, a running gateway among them (`spared`: the dead keys it still remembers, and
those that a process wrote back), descriptors, admission, canaries.

**Capability**: tokens are minted, attenuated, or signed by somebody who does not use
`attenuate`. The constraint language is there in full (value lists, prefixes with dot
segments, bounds, required fields, forbidden combinations); every list, of values, fields or
combinations, is the bag of its entries, since duplicates count and the order does not, and an
optional part is a set of at most one. The
check changes nothing, so
`GateAllows` is an operator and the properties quantify over all calls. **Verifiers**:
`cap_verifier.py` and `conformance.py` on the same tokens; its `ShapeAssumption` says what an issuer
normalises on minting, that a list of prefixes is a list and a text a list of characters. **ProofEngine**: the three
provers, their encodings and what these leave out. **DelegationReceipts**: the DRP chain of
`nelson14.py` with revocation and one-time use, and the evidence chain of `epaec.py`.

**GateDecision**: `check_tool_call` for one tool; the index is cleared and filled rule by
rule while calls read it, and `used.overlaps` tells whether a request began beside another. **EvidenceRules**: evidence quality, chain taint and approval
thresholds. **PolicyChange**: the delta report and the activation request that carries it, decided by
two operators; `contended` are the requests one found pending while another was deciding them.
**Approvals**: the test and the assignment of `consume` and `decide` are separate steps; `Begin`
counts in `used.overlaps` the calls and decisions that begin beside another.

**DeploymentIntake**: every step and refusal of `accept_deployment`, in parallel threads;
`used.overlaps` counts the requests submitted beside another.
**AuditChain**: `HashChainSink` line by line, its two looks for the file and the creation apart
(`FindNoFile`, `LookAgain`, `Create`), one or two sinks on a file, a process that dies
before, after or in the middle of a line, and `verify_chain`. **ReceiptStore**: appends under
the lock, the seal in its three writes, the index outside the lock, the rebuild at start.
**ReceiptPages**: cursor pages over the index while receipts arrive and the index is
rebuilt or was migrated; the walk to ancestors. **ReceiptScan**: the reader that walks a segment
backwards in blocks.

**History**: the input store, the policy of record by digest, recomputed decisions,
counterfactuals, samples and the scan replay. **Packs**: audit packs, the report inside them,
compliance packs. **Records**: disposal of a span, projection, authorship receipts.
**TimeStamps**: requests, answers, anchors and the plan to stamp again.

**Provenance**: loggers on one file and the whole of `verify_chain`; `kept` remembers whether every
agent has kept to the rules so far. **ChainGraph**: the bounded walk that resolves an authority
graph. **Handshake**: the hash-chained registry with several writers and fetched copies (`shared`
remembers that two had it open at once), and over it calls, acknowledgements, passports and hand-offs
through a network that loses, repeats and reorders. MCTrust extends all three; the parts a scene is
not about stay in their first state.

**AdminPanel** (accounts, second factors, policy ledger, forwarder, drafter; `forgotten`, `restarted`
and `unledgered` remember what a restart or a failed write did), **Detection** (from
a score onwards), **Keys** (key file, key services, hybrid signatures, envelope migration),
**Federation** (feeds signed by any pair of key and issuer name, stored by feed id, and the anchoring
of a chain at a transparency service), **Connectors**, **Egress** (URL gate, AWS broker, framework
adapters, retry guidance).

The `MC...` modules give the constants values. They have a variable `scene`, chosen in the
initial state: a scene is one part with its share of the bounds, in which that part takes every
step of its own next-state relation and the others are off. One run then asks one family of
questions of several parts without the product of them all. The scene `algorithms` takes no
step: there pure functions are checked over all inputs of a bounded set.

## 3. Runs

Eight runs pass; four are violations of something the repository says of itself.
Deadlock is not checked: with every bound used up, and whenever nobody asks
anything, these systems rightly stand still. A property that holds under a condition says
so in its definition; what happens outside of it is under *Outside*.

### containment

Two operators, one who may hold alone and one who needs two approvers. Scenes:
*faults* (a crash, an emission that raises, an anchor write that raises, a key change; up
to 6 receipts), *restore* (a crash, an activation, a key change, a rewritten snapshot; 4
receipts), *clean* (no crash; 9 receipts, enough for a full quorum hold, its resume and a
second hold).

* `TypeOK`; `SoleWriter`: nobody works on the files without the flock, whoever dies.
* `HeldIsReceipted`: a state file that says held points at a hold receipt.
* `ResumeMatchesHold`: a resume carries the bytes and the pinned key its hold
  receipted, whatever was written into the state file since.
* `HaltSound`: a quorum hold names enough distinct approvers, each with an approval receipt
  (`QuorumBacked`); while nobody dies and nobody else writes the policy, it is deny-all exactly
  when the state file says held, roll backs included (`HaltMatchesState`); and a hold can be resumed
  as long as no process died between a receipt and its anchor (`HoldStaysReversible`).
* `TrailIsLegal`: the receipt stream refines HaltTrail, in every scene up to the first disturbance.
* `InvocationsFinish`: liveness — the lock is given back, a receipted resume is carried out.
  Fairness is weak fairness of `Step(p)`, an invocation that has started: the operating system
  schedules it. Nothing is assumed of operators: no command need ever be issued.

*Outside.* A process that dies between the policy write and the receipt leaves a halt that the next
hold takes for the original policy, so that *its* resume restores deny-all; an activation during a
hold lifts the halt without a receipt; a death between a receipt and its anchor makes every later
emission, the resume included, be refused as tampering.

**containment_unreceipted** violates `NoUnreceiptedHalt`: `containment.py` says "A halt without
its receipt is a bug, not a feature"; the policy is written before the receipt.

### delegation

Scenes: *chain* (three tokens in one chain for two agents; two holds, a cascade, a failing
receipt or marker, a crash, one registrar), *markers* (two registrars with caches of their own around two
holds), *maintenance* (keys issued and revoked by commands beside the gateway and by it), *registry*
(descriptors written while the gateway runs), *canary*, *levers* (two operators on a trace and a
lease, three receipts, a failing emission, a failing anchor, a death).

* `PriorRevocationsStand`: no restored snapshot forgets an earlier revocation.
* `HoldCovers`: everything below an id the hold resolved is refused from the hold receipt to the
  resume receipt; what is minted into a held scope is refused unless its registrar looked while an
  operation was under way; markers and state file agree between operations, but for markers that
  could not be appended.
* `AccessStands`: a call is admitted only for an enrolled agent with its own key, and with a key
  reported revoked only while the gateway that had read it before runs, or after a process that had
  read it wrote its copy back; a canary is reported observed once; and of the levers no receipted record is
  lost, none unreceipted stays while nobody dies, and a scope goes on and off in turn as long as
  nobody acted on a registry that had changed since they looked.

*Outside.* A registration that checked before the marker and appends after it is covered by nothing;
since `register` takes the mtime after its own append for that of its last read, a registrar can
miss a resume marker and go on revoking under a hold that is over. A hold marker that cannot be
appended makes the command report an incomplete hold, which stands all the same, and what is minted
under it is not covered. A resume marker that cannot be appended is not reported at all
(`containment.py:897-906`): the state file is cleared, and registrars go on revoking what is minted into the
released scope until it is held and resumed again. The gateway reads the credential
file once (`gateway.py:859`): a key revoked by a command while it runs is accepted until it
restarts, and its next write brings the key back, where `docs/gateway-security.md:70-72` says that
revoked keys fail immediately. Two quarantines that looked before either took the
lock are both receipted, and a release decided earlier lifts a quarantine made since. An anchor
write that fails rolls the record back although its receipt is in the stream. A lease id is recorded
and never read.

**delegation_cascade** violates `CascadeStands`: a cascade revocation made during a hold is erased
when the resume writes the snapshot back.

### capability

Scenes: *narrowing* (17 constraints of every kind against each other, chains of three), *identity*
(keys, agent scopes, windows, users, intents, revocations), *proofs*, *questions* (schemas, URL
grammars and SQL templates against policies), *receipts* (three delegation receipts, two verifiers,
a revocation that arrives late), *algorithms*.

* `NeverBroader`: what the gate allows on a chain whose last token has plain prefixes, every token
  of it would allow alone.
* `AttenuationKeeps`: what `attenuate` makes, the chain check accepts, unless a link has still a list
  of its root's with an entry twice, and then it never does; acting-for user and intent are kept; a strict gate serves constraints with a trusted proof only.
* `VerifiersConcur`: the stand-alone verifier accepts exactly what the gate does of root tokens; a
  re-check says VIOLATED only of calls the gate refuses and SATISFIED throughout only of calls it
  accepts.
* `ProofsHold`: PROVEN means that nothing the schema, grammar or template admits breaks the policy,
  also where it uses what the encoding leaves out; a refutation of a schema shows a real call; a Merkle
  disclosure of an argument verifies for its value only.
* `DelegationsHold`: a receipt acted on lies inside every ancestor, and a one-time receipt is acted
  on once; the requirement language means what its grammar says, and more evidence never hurts.

*Outside.* A prefix with dot segments is compared literally by the merge and resolved by the check,
so a longer one need not be narrower, and the stand-alone verifier compares literally
(`cap_verifier.py:11` calls itself independent confirmation); a root's list with a duplicate, of
values, required fields or combinations, is kept by `attenuate` and deduplicated by the check
(`capability.py:603-656`, `1217-1227`), so an honest child is refused (`1320-1325`) unless its own narrowing
mentions that list; an intent that leaves out
tools or constraints does not inherit them; the re-check compares a `starts_with` list character by
character when it is given a string, and reports the empty prefix, which every text has, as VIOLATED; an empty `allowed_tables` means no restriction.

### chains

What the gate writes down and what is read back. Scenes *parallel* and *serial* (deployments that
overlap, three with one failure or restart, or five in turn; `CacheMax` 2 stands for 4096), *sink*
(one signed chain, a checkpoint every two events, up to 7 events in 4 sessions, two deaths, two torn
lines), *sinks* (two on one file), *store* (two threads, four receipts, segments of two, a seal, two
restarts, a failing write), *pages* (four receipts with two of one second, equal ones among them,
pages of one and two, a rebuild), *history*, *pack*, *compliance*, *disposal*, *authorship*, *stamps*,
*algorithms*.

* `IntakeHolds`: the policy file holds the installed policy or an artefact verified, against as much
  of a digest as its receipt names, and receipted before; and until a request begins beside another, a nonce is taken again only after `CacheMax`
  others, and the gate enforces the file once a request is over or has answered that it could not.
* `ChainVerifies`: the chain breaks at torn lines only, a cleanly closed one verifies, edits are
  noticed. With two sinks the verifier refuses the chain exactly when a sink wrote from memory the
  file had moved on from, or a second header: a fork never passes, taking turns never spoils it.
* `StoreKeeps`, `SegmentsStand`: acknowledged receipts stand in order, sidecars are true, the index
  invents and repeats nothing, no append meets a closed handle, a sealed segment never changes, a
  rebuild that ends is whole; who follows the pages is shown every receipt that was there, once and
  newest first; the ancestors found are those within the depth, around cycles too.
* `ReplayFair`: a replay neither contradicts what a policy decided nor confirms what it did not,
  whatever is lost or edited; a sample is as even as its limit allows.
* `PapersHold`: a pack that verifies is one its custodian built of the chain as it stood; its report
  hides no flaw; a certificate vouches for what was read; a disposal that verifies destroyed exactly
  its span; authorship receipts are not lost; the projection is whole.
* `StampsHold`: a stamp that verifies was issued for the head it is shown for; the plan to stamp again
  flags no anchor the written rule does not, and misses exactly the intact ones that every receipt
  outliving their certificate stands behind.

*Outside.* Overlapping deployments can claim one nonce twice and install the older policy last; an
artefact that parses and does not load is accepted and leaves the gate without rules. The digest is
compared only when the receipt names one, and as an ending (`deployment_intake.py:443-446`): an empty
`artefact_sha256` binds no artefact, a short one only the end of its digest. The audit of a failed
reload may itself raise (`505-509`), which answers with a server error after the file was replaced.
A torn line swallows the next record; two sinks on one path (`deployment_intake.py:258`) fork the
chain, and two that both find no file write two headers (`audit.py:213-217`), which the verifier
refuses for good (`746-750`); the closing checkpoint of an idle one invalidates it.
`retimestamp_plan` compares an anchor with the latest retention *read so far*, so an anchor followed
by a receipt that is kept longer is not flagged, against its docstring (`timestamp.py:825-830`) and
`docs/spec/time-source-v1.md:193-195`. Rows of the index that a death left out stay out, since only an empty index is fed; after a failed sidecar write every append is refused until the
next start; a walk across a rebuild may skip or repeat equal receipts. A receipt binds the digest of
the first rule while another may have matched; the counterfactual replay drops the source of a call.
Running a second disposal into one directory leaves a surviving chain that is not the remainder
(`records.py:11-16`); two authorship receipts signed at once share a file (`cli.py:2309`).

### approvals

Two callers and an operator. Scenes: *parallel* (one request) and *serial* (two, in turn), with a
receipt failure and a restart.

* `AllowedOnApproval`: a call that needs approval is allowed only on a request made for that call
  and approved by an operator, whatever the interleaving.
* `ApprovalsStand`: without failures the grant is in the chain once the operators are done; and until
  a call or decision begins beside another an approval pays once and no decision is undone.

*Outside.* An approval is consumed by a call whose receipt then fails and that is denied; a decision
whose receipt fails stands and is only logged.

**approvals_twice** violates `SingleShot`: "Consumption is single-shot" (`approvals.py:18`), but two
overlapping calls both pass the test.

### gate

Scenes: *parallel* (two calls and one operator who saves, reloads and seals, with edits and
containment), *serial* (one request at a time and a restart), *change* (the delta of two policies,
its request, decisions by two operators, expiry and use), *evidence* (events and outputs recorded while a call is
decided).

* `GateHolds`: the rule an allowed call cites is the first match of a policy that was in force during
  the call, although the index is cleared and filled rule by rule; what started under a hold is not
  allowed; the seal pins only what a receipt binds.
* `SerialHolds`: until a request begins beside another, rules and token belong together and no call is
  checked under a policy replaced before it.
* `ChangeShown`: what the approver is shown names every rule that lets more through, where no kind of
  constraint was dropped; every receipt of a request is about what was requested, and a request has
  one verdict unless two operators found it pending before either wrote theirs.
* `EvidenceStands`: nothing but a refresh widens what evidence has narrowed, and no call reaches a
  destination closed to a taint of its chain.

*Outside.* Two overlapping reloads fill one index together and break `FirstMatchInForce`, a part of
`GateHolds`; there is one token per tool, minted under its first rule, while the decision cites the rule that matched; the
seal is compared with the file, the decision is made on memory. A bound that is dropped altogether
is reported as a widening by neither table of the delta report. `activation.py:169-171` tests the
status and sets it without a lock, so two operators can give one request two receipted verdicts, and
one that expired or was denied for one can be approved by the other, though "decisions are
single-shot" (`activation.py:18`); nothing in the package consumes an activation request. Evidence dated in the future narrows
until its time comes.

### trust

Three scenes of a provenance chain (agents that keep to the rules and restart; agents that use the
logger as they like on a damaged file; the gate's leases, findings and revocations on a chain whose
lines move), two between organisations (two writers of the registry and an organisation that fetches;
two organisations that call each other while a key is revoked) and *graph*.

* `ChainProves`: in a chain that verifies, taint reaches every receipt downstream until somebody
  entitled removes it, and leases, findings and revocations count only where their evidence stands
  before them; honest chains verify. `PastStands`: a revocation takes nothing back that stood before.
* `HandshakeAgrees`: a call is acted on at most once and under the registered name, an accepted
  acknowledgement is about the very call, a registry written in turn loads. `RegistryForward`: no
  copy served later undoes a revocation already seen.
* `GraphComplete`: every reference of a resolved graph is a node of it, or reported unknown or pruned.

*Outside.* A logger adds no taint of parents another process appended since it opened the file, and
the chain then fails to verify. A handshake nonce is recorded before the issuer is resolved, so a
call refused for an unknown key cannot be repeated. A second ML-DSA key for one issuer makes the
registry unloadable (`docs/security/quantum-readiness.md:39`). Two writers fork the registry.

### operations

Scenes *people*, *desk*, *siem* (the panel), *scanner*, *sessions*, *batch* (detection), *keys*,
*feed*, *anchor*, *pull*, *egress*, *algorithms*.

* `PanelHolds`: of saves in turn, with failing writes and entries, the policy ledger breaks exactly at
  the first entry after a restart, and ends with the policy in force unless the last change of the file
  has no entry; the forwarder does what the configuration says; a drafted policy permits the calls it
  was drafted from, where every field was in all of them and of one kind, exactly when they name one
  agent, source and destination.
* `FactorStands`: an account with a confirmed second factor is let in as promised (with a valid code and
  not without) but for two ways, and no other: it is locked out until a restart, and let in without a
  code from the restart on.
* `DetectionHolds`: verdict, receipt and event agree whatever component is missing or fails; malice
  spread over a session is noticed; a batch answers in order; no refusal outweighs a leak.
* `KeysHold`: no race or half-written key file makes a gateway sign with a second key; a conversion
  keeps what verified; nothing passes after losing its second signature.
* `FederationHolds`: every stored indicator is signed by the key its feed was merged under, the pinned
  one if one was pinned, and where no two keys go by one issuer name only that key withdraws it; files
  are replaced whole, no connection goes to a private address; a chain that checks as anchored is the
  one registered.
* `PullHolds`: a connector hands over every event once; a limited caller is told the source's delay.
* `EgressHolds`: nothing leaves a strict door without its receipt or beyond the token in force, an
  answer carries the receipt of its own call, and retry guidance rules out no call that would pass and
  lets through only those that break a kind of constraint it does not speak of.

*Outside.* The head of the policy ledger is reset by a restart (`gateway.py:881`), and the first entry
after it breaks a ledger nobody touched, where `docs/security/ncsc-agent-controls.md:37` says that an
untouched one is valid. A `write_text` that fails (`gateway_app.py:792`) may leave the file cut short,
with no entry and no reload; the next load then finds no rules. The panel never hands a TOTP code to
the check (`gateway_app.py:522-526`), so an account with a second factor is locked out, and the flag is
not persisted, so a restart lets it in without one: `gateway.py:498` says that after the confirmation
every call must carry a valid code. A drafted rule keeps the first agent, source and destination only
(`gateway.py:2303-2315`), so the calls of the others stay denied, and it does not escape pattern
characters as its docstring says (`2283`). Any issuer name goes with any key (`feed.py:342-353`) and
`Feed.verify` (`260-285`) compares neither with the feed's, so a pinned publisher that signs under
another's name, and any publisher where the caller pins none, withdraws that one's indicators
(`466-474`), though "consumers honour revocations from
the same issuer only" (`feed.py:44`); feeds are files by feed id (`442-451`), so one of another
publisher, or an older one, replaces it. Retry guidance is silent about forbidden values, prefixes and
forbidden combinations (`retry_guidance.py:153-178`), so a retry that follows it may be refused, against
`docs/spec/retry-guidance-v1.md:55-59`. A `Retry-After` that is a date raises `ValueError`
(`connectors/base.py:190`); the model has delays in seconds. A BLOCK of the scanner may become an ALERT of its
session, and `on_block` then does not fire. The hash of the rule set is computed once and kept while rules
are loaded (`scanner.py:217-223`), so a receipt may name fewer rules than decided. A page dropped half-way is remembered as seen, and the GitHub connector hands
over the remaining calls as the reset time. Two processes that merge one feed share a temporary file.
A death between creating and writing the key file stops every later start, which is the safe side; a
rotated key service signs with a key other than the pinned one. The agent-framework adapter writes
its ALLOW receipt after the call.

**scan_found** violates `EveryRecordFound`: `_iter_records_reverse` appends the earlier block to the
remainder instead of putting it in front, so a record across a block boundary is lost. Blocks of a
few characters stand for 64 KiB; the reader's loop is weakly fair, since it is a plain loop.

### Why these bounds

Each property is broken, within the same bounds, by plausible bugs in the code it is about (`mutants`
in `PROJECT.json`), one for nearly every named part of a property. Two processes suffice for the
races looked for, since each involves one party between two steps and one that changes what it saw;
three tokens or receipts give a chain with an inner link; bounds on faults are one or two because the
interesting damage is done by the first and the second tells whether it is repaired.

The `TypeOK` of a module says what its state looks like. Containment's is checked by a run; those of
Containment, Approvals, DelegationHold, GateDecision, Capability and DeploymentIntake are proved, and
the trust modules' typing is part of their invariants; the others document their modules.

## 4. Proofs

Seven proof modules, and the theorem that ends EvidenceRules, are checked by `tlapm` to the last leaf,
with Z3, Zenon and LS4. Between them they state twenty-one of the forty properties of the runs by name
and a twenty-second, `EvidenceStands`, by its parts, for every value of the constants. What a module assumes of its constants is its one `ASSUME`: markers such
as `NoProc` or `None` are none of the real things, tables have the right domains, bounds are naturals,
prefixes are lists. Nothing is assumed of the order of steps. Where a property is conditional, its
condition is in its definition; one theorem, `GateIsSound`, has a hypothesis of its own, named below.
What is inductive and not about types was checked by TLC on a small instance too.

| Theorem | Property |
|---|---|
| `ContainmentProofs!TypeCorrect`, `MutualExclusion` | `TypeOK`, `SoleWriter` |
| `ContainmentProofs!HeldStatesAreReceipted`, `ResumesMatchTheirHolds` | `HeldIsReceipted`, `ResumeMatchesHold` |
| `ContainmentProofs!HaltsAreSound`, `TrailsAreLegal`, `StopRefinesHistory` | `HaltSound`, `TrailIsLegal`, the refinement of HaltTrail |
| `DelegationHoldProofs!HoldsKeepRevocations`, `HoldsCover` | `PriorRevocationsStand`, `HoldCovers` |
| `ApprovalsProofs!AllowsAreApproved`, `ApprovalsStandInTurn` | `AllowedOnApproval`, `ApprovalsStand` |
| `GateDecisionProofs!GateIsSound`, `HeldCallsAreDenied`, `SealsAreReceipted` | `GateHolds` and its parts |
| `GateDecisionProofs!SerialRequestsHold` | `SerialHolds` |
| `EvidenceRules!EvidenceNarrows` | the two parts of `EvidenceStands` |
| `CapabilityProofs!ChainsNeverBroaden`, `AttenuationIsKept` | `NeverBroader`, `AttenuationKeeps` |
| `CapabilityProofs!VerifiersAgree` | `VerifiersConcur` |
| `DeploymentIntakeProofs!OnlyReceipted`, `IntakeStands` | `IntakeHolds` |
| `TrustProofs!ChainsProve`, `ThePastStands` | `ChainProves`, `PastStands` |
| `TrustProofs!HandshakesAgree`, `RevocationsAreNotRolledBack` | `HandshakeAgrees`, `RegistryForward` |
| `TrustProofs!GraphsAreComplete` | `GraphComplete` |

**ContainmentProofs** — any processes, approvers, policies, keys and quorums. `SoleWriter` is
inductive with `TypeOK`: every step past the lock is by its owner, and a death frees it.
`HeldIsReceipted` and `ResumeMatchesHold` are not inductive, since a resume receipt is made from what
an invocation *remembers* of the state file: `BindInv` adds that a held state file names a hold
receipt with the same pin (`HeldBound`) and that an invocation about to persist a hold, or past the
checks of a resume, holds a receipted snapshot (`LocalBound`). Receipts are only appended
(`StreamGrows`, `StreamKept`), so what was receipted stays so. `HaltSound` needs three more: the
anchor covers the stream except inside an emission (`AnchorInv`), the policy file is where the step of
the lock's owner says it is (`HaltInv`), and the roll in the state file, or in the invocation that
carries it, is an injective list of approvers with receipts after the request (`QuorumInv`). For the
refinement, `TrailInv` ties the newest halt of the stream, as HaltTrail computes it, to the state file
and to the owner's step. `StopRefinesHistory` then states the whole of it: while undisturbed, `Spec`
implies HaltTrail's specification under the mapping.

**DelegationHoldProofs** — any delegation tree, any registrars, any number of holds, cascades and
deaths. `SnapshotInv` says that every snapshot that may still be written back, in the state file or in
a running process, contains the earlier revocations. `HoldInv` carries `HoldCovers`: the types and the
scopes in flight (`ScopedInv`), what is revoked and held at each step of containment (`StepInv`), the
markers, and the lost ones, against the state file (`MarkInv`), what a registrar's copy lacks (`CacheInv`) and what was
minted cleanly into a held scope (`CleanInv`). Its heart: a registrar that met no containment operation
knows every marker, because those rows were in the ledger when it last loaded it; so what it mints into
the scope it revokes, and what its stale copy does not show of the chain is refused by the gate's own
walk.

**ApprovalsProofs** — any callers, operators, calls and requests. `ApprovalInv`: an approved request
was granted (`GrantInv`), a thread past the checks of `consume` holds a reference granted for its call
whatever became of the status (`HolderInv`), an operator past the test holds a request that exists
(`DeciderInv`), an allow decision that needed approval consumed one (`CallerInv`). `RecordInv` adds that
a grant without a receipt has its operator still at work, or a failure was counted. `SerialInv` is
about the time before the first overlap: at most one thread is under way, and a request paid for is
consumed, or about to be by that thread. Single use is *not* an invariant beyond (section 3).

**GateDecisionProofs** — any callers, sources, arguments, rules and policies. `ForceInv`: the rules in
the index lead some policy loaded during every call in progress, so that a rule found there is the first
match of a policy in force, or none is found. It needs **one operator** (`\A o, q \in Operators : o = q`,
the hypothesis of `GateIsSound`): with two reloads it is false, and TLC shows it. `HeldInv` and `SealInv`
hold for any number. `SerialRequestsHold` needs no hypothesis: until the first overlap at most one
thread is under way, outside a fill the index is one whole policy and the token was minted under a rule of
it, and a fill has no token and the rules of its policy up to its counter.

**EvidenceRules** — any rule that loads, any calls, records and clock. Evidence passes when there is some
and every record of it passes (`PassingIs`), and a record that passes later has passed since its date
(`PassingBefore`): so more evidence and more time only narrow, and dates in the future are the one
exception. For data flow `CallInv` says that the tags a call came with are still recorded, and that past
the check none of them closes its destination; fewer tags close less (`FewerTags`).

**CapabilityProofs** — any grants, requests, calls, proofs and any number of tokens. The lemmas are about
the operators: what merging a constraint into its parent's leaves (`MergeNarrowing` kept ⇒ every call
the child's constraint accepts, the parent's accepts), that agent scopes and plain prefixes are
transitive, that one step of `attenuate` passes the chain check exactly when the child's lists are free
of duplicates, since merging leaves none in what it merges and drops those it meets again (`MergedOnce`). `Well` ties the tokens together: a
parent is older, its line of descent is that of the parent and the parent, an attenuated token was made
by `attenuate` of it. `Climb`: a property that every token passes on to its parent holds
of the whole line, by the newest token of the line that lacks it. `VerifiersAgree` is about every token of every chain, not
only about the newest one, which is all the run looks at: merging keeps the shape of constraints (`MergeKeepsShape`), so
that what is compared literally equals what is resolved wherever no dot segment occurs
(`LiteralAgrees`), and a restricted view of the arguments violates nothing the whole call satisfies.
The attempt to prove it found the empty prefix (section 3); `NoEmptyPrefix` is now a condition.

**DeploymentIntakeProofs** — any threads, receipts in circulation, digests and cache size. `VerifiedInv`: past
verification a request is not refused, past its receipt it is receipted, and so was what is in the
file. `SerialInv`, before the first overlap: one request at most; the cache file is the end of
the claims, `CacheMax` of them or all (`EndOf`, through deaths between any two steps); what was read for a reload is what the file
holds; and at every other step the gate serves the file or said that it could not.

**TrustProofs** — any agents, organisations, writers, keys, records and faults. *The chain.* A receipt
cites only receipts signed before it, so what would fail somewhere fails at a least receipt, and its
parents refute it: this carries `TaintSound`, and the walk of `trace`, whose part left to follow lies
lower with every step, finds every ancestor. Leases, authorities, findings and revocations are judged on the lines
before theirs (`EvidenceIsSound`), whatever became of the file. That honest chains verify needs
`KeptInv`: while everybody keeps to the rules the file is what was signed, one logger has it open, it
knows the taint of all of it, and what it appends leaves what was found on earlier lines as it was and
passes itself (`VerifyAppends`); `PastStands` rests on the same lemma. *The registry.* Every copy is a
beginning of the file, and while one writer at a time has it open its memory is the file (`InTurn`),
which therefore verifies. What `Resolve` finds depends on the newest entry of a key alone
(`ActiveIs`), so a longer copy can only activate a key by a registration beyond the shorter one. *Calls.*
`Remembered`: what a responder that deduplicates has accepted is in its replay set. *The graph.* A
reference of a node that is not in the graph yet is owed, by the queue or by the hop being resolved
(`Owing`); at the end nothing is owed.

Only model-checked, and why:

* `InvocationsFinish`, the liveness of the emergency stop, and the fair reader of ReceiptScan: the
  provers do not reason about `ENABLED`.
* `DelegationsHold`, and the pages and ancestors in `StoreKeeps`: DelegationReceipts and ReceiptPages
  declare RECURSIVE operators, which take the SMT prover away.
* `ChainVerifies`, the rest of `StoreKeeps`, `SegmentsStand`, `ReplayFair`, `PapersHold`,
  `PanelHolds`, `DetectionHolds`, `FederationHolds`, `PullHolds`, and the levers in `AccessStands`:
  they speak of what folds, `SelectSeq`, flattened sequences, counts or Merkle roots compute. The
  library's induction theorems cannot be used; by hand, from a least natural for which a statement
  fails (as TrustProofs does for `trace`), each such function is a proof of its own.
* `ProofsHold`, `ChangeShown`, `StampsHold`, `KeysHold`, `EgressHolds`, `FactorStands` and the credentials in
  `AccessStands`: algorithms over all inputs of a bounded set, and machines of few steps.

## 5. Composition

The modules meet where the code does. DelegationHold relies on Containment's mutual exclusion for its
one containment process; Levers shares the receipt stream and the lock of both. The two-sink scene of
AuditChain is the intake's use of it: DeploymentIntake's `audit` is the list of events each of which
opens a sink. Approvals and GateDecision cut one handler in two: GateDecision ends where a verdict is
reached, Approvals begins there and takes the verdict as an input of any value. GateDecision takes
what delegated authority and admission say as inputs; Capability, DelegationHold and AgentAccess say
what they may be. Verifiers judges Capability's own tokens, Handshake keeps the registry and
the calls that resolve keys in copies of it in one state, and Containment's `Activate` is DeploymentIntake's `WritePolicy`.

## 6. Findings

Four, each with a run: the halt that outlives its process without a receipt, the cascade
revocation lost at resume, the approval spent twice, the record lost by the backwards reader. The
observations under *Outside* are what TLC shows when the condition, or the exception, of a property
is taken away.

## 7. Not modelled

Within the modelled parts: a policy file given by `policy_target` different from the one held; lines
of the receipt store torn by a crash; `revoke_agent_chains` (it appends as a cascade does); token
parsing, booleans as numbers in constraints; statistics and the connection log of the gate; the
digest cache of the seal; a forced `emit_checkpoint`; the ruleset hash of a receipt, which is
recomputed after the decision from the rules then in memory.

Never: what a pattern, a classifier or a heuristic says of a text (tables stand for them), text
mutation and images, cryptography, ASN.1, COSE, SigV4 and canonical JSON, the inside of the SMT solver,
HTML, PDF, CSV and the control catalogues, and the plumbing of HTTP, MCP and the command line: its
endpoints and commands are mapped in the module of the state they change, where they change one.

## 8. Plan

Done: the emergency stop, delegation, approvals, intake, gate, store, audit chain and capability
first; then provenance and trust, agents, levers, pages of the index, changes of policy, evidence
rules, verifiers, provers, replays, packs, records, time stamps, and the parts around the gate.

Left to model: the panel's HTML sessions, `revoke_agent_chains` as an action of its own, the
`epaec` envelope, and the vendor formats of the SIEM forwarder if a property should ever be about them.

Theorems worth proving next:

1. `SidecarTrue` and `KeepsSealed` of ReceiptStore.
2. `LeversReceipted` of Levers: with `SoleWriter`'s argument, the file between lock and receipt is
   the snapshot and one record; it needs facts about `SelectSeq` of an appended sequence.
3. `ClosedChainVerifies` of AuditChain: that a line is linked to the newest whole line before it.
4. `EntitledStep` and `RevokedFailStep` of AgentAccess.
