----------------------------- MODULE AgentAccess -----------------------------
(***************************************************************************)
(* Who may call the gate (raucle/agent_credentials.py, agent_registry.py,  *)
(* admission.py, canary_service.py, and the authentication of gateway.py). *)
(*                                                                         *)
(* The credential file is read by every process when it opens the store    *)
(* and written back whole: the gateway keeps one copy for as long as it    *)
(* runs, every command of the CLI has its own.  Descriptors are appended   *)
(* to a registry that the gateway reads again on every call.  Canaries are *)
(* credentials with a ledger of their own.                                 *)
(***************************************************************************)
EXTENDS Integers, Sequences, SequencesExt, FiniteSets

CONSTANTS
    AgentIds,    \* agents of the deployment
    MintIds,     \* ids of canaries
    Clis,        \* commands of the CLI, each a process of its own
    CallIds,     \* calls at the gate
    MaxKeys,     \* bound: keys minted
    MaxLines     \* bound: lines of the registry

Gateway == "gateway"
Procs == Clis \cup {Gateway}
Ids == AgentIds \cup MintIds
Key == 1 .. MaxKeys

VARIABLES
    creds,      \* the credential file: creds[id] is id's key, 0 for none
    store,      \* store[p]: what process p has in memory
    minted,     \* the keys minted so far: minted[k] is the id key k was issued to
    dead,       \* keys that were reported replaced or revoked
    spared,     \* those of them the running gateway had read before, and those that
                \* a process which had read them wrote back into the file
    registry,   \* the lines of the descriptor registry
    suspended,  \* agents whose credential lease is suspended
    call,       \* call[c]: a call on its way through the gate
    ledger,     \* the ledger file of the canaries
    notes,      \* receipts of the canary service
    todo        \* todo[p]: what is left of the command process p runs

vars == <<creds, store, minted, dead, spared, registry, suspended, call, ledger, notes, todo>>

----------------------------------------------------------------------------
(* AgentCredentialStore. *)

Closed == [up |-> FALSE, byHash |-> <<>>, byAgent |-> <<>>, mints |-> <<>>]

Load ==
    [up |-> TRUE,
     byHash |-> [k \in Key |-> IF \E id \in Ids : creds[id] = k
                                 THEN CHOOSE id \in Ids : creds[id] = k ELSE "none"],
     byAgent |-> creds,
     mints |-> ledger]

OpenStore(p) ==
    /\ ~store[p].up
    /\ store' = [store EXCEPT ![p] = Load]
    /\ UNCHANGED <<creds, minted, dead, spared, registry, suspended, call, ledger, notes, todo>>

(* The process ends, or is killed; what it had in memory is gone. *)
Exit(p) ==
    /\ store[p].up
    /\ store' = [store EXCEPT ![p] = Closed]
    /\ todo' = [todo EXCEPT ![p] = <<>>]
    /\ call' = IF p = Gateway THEN [c \in CallIds |-> [pc |-> "new", key |-> 0, as |-> "none"]] ELSE call
    /\ spared' = IF p = Gateway THEN [spared EXCEPT !.gateway = {}] ELSE spared
    /\ UNCHANGED <<creds, minted, dead, registry, suspended, ledger, notes>>

(* _save: the file becomes p's copy, and the keys K are reported dead. *)
Save(p, K) ==
    /\ creds' = store'[p].byAgent
    /\ dead' = dead \cup K
    /\ spared' = [gateway |-> spared.gateway \cup (IF p = Gateway THEN {}
                                                   ELSE K \cap Range(store[Gateway].byAgent)),
                  file |-> spared.file \cup (dead \cap Range(creds'))]

(* issue replaces the agent's key; the hash of the old one stays in memory. *)
Issue(p, id) ==
    LET k == Len(minted) + 1 IN
    /\ store[p].up /\ k <= MaxKeys
    /\ minted' = Append(minted, id)
    /\ store' = [store EXCEPT ![p].byHash[k] = id, ![p].byAgent[id] = k]
    /\ Save(p, {store[p].byAgent[id]} \ {0})

Revoke_Forgets(p, id) ==                \* mutant: the file is not written
    /\ store[p].up /\ store[p].byAgent[id] # 0
    /\ store' = [store EXCEPT ![p].byAgent[id] = 0, ![p].byHash[store[p].byAgent[id]] = "none"]
    /\ dead' = dead \cup {store[p].byAgent[id]}
    /\ UNCHANGED <<creds, minted, spared>>
Revoke(p, id) ==
    /\ store[p].up /\ store[p].byAgent[id] # 0
    /\ store' = [store EXCEPT ![p].byAgent[id] = 0, ![p].byHash[store[p].byAgent[id]] = "none"]
    /\ Save(p, {store[p].byAgent[id]})
    /\ UNCHANGED minted

Verify(p, k) ==
    LET id == store[p].byHash[k] IN
    IF id # "none" /\ store[p].byAgent[id] \in {0, k} THEN id ELSE "none"

IssueKey(p, id) ==
    /\ p \in Clis /\ id \in AgentIds /\ todo[p] = <<>>
    /\ Issue(p, id)
    /\ UNCHANGED <<registry, suspended, call, ledger, notes, todo>>

RevokeKey(p, id) ==
    /\ p \in Clis /\ id \in AgentIds /\ todo[p] = <<>>
    /\ Revoke(p, id)
    /\ UNCHANGED <<registry, suspended, call, ledger, notes, todo>>

(* The kill switch of the gateway works on the gateway's own copy. *)
SuspendAgent(id) ==
    /\ id \in AgentIds
    /\ Revoke(Gateway, id)
    /\ UNCHANGED <<registry, suspended, call, ledger, notes, todo>>

(* Lease suspension and reinstatement, in the containment registry. *)
SuspendLease(id) ==
    /\ suspended' = suspended \cup {id}
    /\ UNCHANGED <<creds, store, minted, dead, spared, registry, call, ledger, notes, todo>>
ReinstateLease(id) ==
    /\ suspended' = suspended \ {id}
    /\ UNCHANGED <<creds, store, minted, dead, spared, registry, call, ledger, notes, todo>>

----------------------------------------------------------------------------
(* AgentRegistry.  A line is signed by the operator, by somebody else, or
   does not parse as a descriptor. *)

Descriptor(id, status, form) ==
    [id |-> id, status |-> status, form |-> form, attestation |-> TRUE, ceilings |-> TRUE]

ValidAttestation(d) == d.attestation
ValidCeilings(d) == d.ceilings
ParseDescriptor(d) == d.form # "malformed"

(* Nothing is signed that would not verify. *)
IssueDescriptor(d) == ValidAttestation(d) /\ ValidCeilings(d)

AppendLine(d) ==
    /\ Len(registry) < MaxLines
    /\ registry' = Append(registry, d)

(* enrol: the key is issued, when the agent has none, before the descriptor
   is built and signed; a malformed attestation is noticed only then. *)
EnrolCredential(p, id) ==
    /\ p \in Clis /\ store[p].up /\ todo[p] = <<>>
    /\ IF store[p].byAgent[id] = 0 THEN Issue(p, id)
                                   ELSE UNCHANGED <<creds, store, minted, dead, spared>>
    /\ todo' = [todo EXCEPT ![p] = <<"enrol", id>>]
    /\ UNCHANGED <<registry, suspended, call, ledger, notes>>

EnrolDescriptor(p, d) ==
    /\ todo[p] = <<"enrol", d.id>>
    /\ IF IssueDescriptor(d) THEN AppendLine(d) ELSE registry' = registry
    /\ todo' = [todo EXCEPT ![p] = <<>>]
    /\ UNCHANGED <<creds, store, minted, dead, spared, suspended, call, ledger, notes>>

(* update and retire append another signed descriptor. *)
Retire(id) ==
    /\ AppendLine(Descriptor(id, "retired", "operator"))
    /\ UNCHANGED <<creds, store, minted, dead, spared, suspended, call, ledger, notes, todo>>
Update(id) ==
    /\ AppendLine(Descriptor(id, "enrolled", "operator"))
    /\ UNCHANGED <<creds, store, minted, dead, spared, suspended, call, ledger, notes, todo>>

VerifyDescriptor(d) ==
    ParseDescriptor(d) /\ ValidCeilings(d) /\ ValidAttestation(d) /\ d.form = "operator"

AdmissionCheck_AnySigner(d) == d.status = "enrolled"     \* mutant: the signature is not checked
AdmissionCheck(d) == VerifyDescriptor(d) /\ d.status = "enrolled"

EnrolFromDescriptor(d) ==
    /\ AdmissionCheck(d)
    /\ AppendLine(d)
    /\ UNCHANGED <<creds, store, minted, dead, spared, suspended, call, ledger, notes, todo>>

(* Something else writes a line into the registry file. *)
ForeignLine(id, form) ==
    /\ AppendLine(Descriptor(id, "enrolled", form))
    /\ UNCHANGED <<creds, store, minted, dead, spared, suspended, call, ledger, notes, todo>>

History(id) == SelectSeq(registry, LAMBDA d : d.id = id)

(* _admission_refusal: every line of the agent's history must parse. *)
Admitted(id) ==
    /\ History(id) # <<>>
    /\ \A d \in Range(History(id)) : ParseDescriptor(d)
    /\ AdmissionCheck(Last(History(id)))

----------------------------------------------------------------------------
(* A call at the gate: authenticate_caller, then admission. *)

Present(c, k) ==
    /\ store[Gateway].up /\ call[c].pc = "new" /\ k \in DOMAIN minted
    /\ call' = [call EXCEPT ![c] = [pc |-> "arrived", key |-> k, as |-> "none"]]
    /\ UNCHANGED <<creds, store, minted, dead, spared, registry, suspended, ledger, notes, todo>>

Authenticate(c) ==
    LET id == Verify(Gateway, call[c].key) IN
    /\ call[c].pc = "arrived"
    /\ call' = [call EXCEPT ![c].pc = IF id = "none" \/ id \in suspended THEN "denied" ELSE "known",
                            ![c].as = id]
    /\ UNCHANGED <<creds, store, minted, dead, spared, registry, suspended, ledger, notes, todo>>

Admit(c) ==
    /\ call[c].pc = "known"
    /\ call' = [call EXCEPT ![c].pc = IF Admitted(call[c].as) THEN "admitted" ELSE "denied"]
    /\ UNCHANGED <<creds, store, minted, dead, spared, registry, suspended, ledger, notes, todo>>

----------------------------------------------------------------------------
(* CanaryService: the credential, the ledger and the receipt are three
   writes, and the process may end between any two of them. *)

MintCredential(p, id) ==
    /\ p \in Clis /\ id \in MintIds /\ todo[p] = <<>>
    /\ \A q \in Procs : todo[q] # <<"mint", id>>
    /\ creds[id] = 0 /\ id \notin {n.id : n \in notes}
    /\ Issue(p, id)
    /\ todo' = [todo EXCEPT ![p] = <<"mint", id>>]
    /\ UNCHANGED <<registry, suspended, call, ledger, notes>>

MintLedger(p) ==
    /\ todo[p] # <<>> /\ todo[p][1] = "mint"
    /\ store' = [store EXCEPT ![p].mints[todo[p][2]] = "live"]
    /\ ledger' = store'[p].mints
    /\ todo' = [todo EXCEPT ![p] = <<"note", todo[p][2], "mint">>]
    /\ UNCHANGED <<creds, minted, dead, spared, registry, suspended, call, notes>>

(* observe: the copy of the ledger read at the start decides. *)
Observable_Consumed(p, k) ==         \* mutant: the consumed mark is not read
    Verify(p, k) \in MintIds /\ store[p].mints[Verify(p, k)] # "none"
Observable(p, k) == Verify(p, k) \in MintIds /\ store[p].mints[Verify(p, k)] = "live"

Observe(p, k) ==
    LET id == Verify(p, k) IN
    /\ p \in Clis /\ store[p].up /\ todo[p] = <<>> /\ k \in DOMAIN minted
    /\ IF Observable(p, k)
         THEN /\ store' = [store EXCEPT ![p].mints[id] = "consumed"]
              /\ ledger' = store'[p].mints
              /\ todo' = [todo EXCEPT ![p] = <<"note", id, "observe">>]
         ELSE /\ UNCHANGED <<store, ledger>>
              /\ todo' = [todo EXCEPT ![p] = <<"note", id, "deny">>]
    /\ UNCHANGED <<creds, minted, dead, spared, registry, suspended, call, notes>>

(* The verdict is returned once its receipt is on disk.  How often a value was
   denied is not counted. *)
Times(id, event) ==
    IF event = "deny" THEN 0 ELSE Cardinality({m \in notes : m.id = id /\ m.event = event})
CanaryReceipt(p) ==
    /\ todo[p] # <<>> /\ todo[p][1] = "note"
    /\ notes' = notes \cup {[id |-> todo[p][2], event |-> todo[p][3],
                             n |-> Times(todo[p][2], todo[p][3])]}
    /\ todo' = [todo EXCEPT ![p] = <<>>]
    /\ UNCHANGED <<creds, store, minted, dead, spared, registry, suspended, call, ledger>>

----------------------------------------------------------------------------
Init ==
    /\ creds = [id \in Ids |-> 0] /\ minted = <<>>
    /\ dead = {} /\ spared = [gateway |-> {}, file |-> {}]
    /\ store = [p \in Procs |-> Closed]
    /\ registry = <<>> /\ suspended = {}
    /\ call = [c \in CallIds |-> [pc |-> "new", key |-> 0, as |-> "none"]]
    /\ ledger = [id \in MintIds |-> "none"] /\ notes = {}
    /\ todo = [p \in Procs |-> <<>>]

Commands(p) ==
    \/ \E id \in AgentIds : IssueKey(p, id) \/ RevokeKey(p, id) \/ EnrolCredential(p, id)
    \/ \E id \in AgentIds, a, c \in BOOLEAN :
         EnrolDescriptor(p, [Descriptor(id, "enrolled", "operator") EXCEPT !.attestation = a, !.ceilings = c])

CanaryCommands(p) ==
    \/ \E id \in MintIds : MintCredential(p, id)
    \/ MintLedger(p) \/ CanaryReceipt(p)
    \/ \E k \in Key : Observe(p, k)

RegistryCommands ==
    \E id \in AgentIds :
        \/ Retire(id) \/ Update(id)
        \/ \E f \in {"foreign", "malformed"} : ForeignLine(id, f)
        \/ \E f \in {"operator", "foreign"} : EnrolFromDescriptor(Descriptor(id, "enrolled", f))

GateSteps ==
    \/ \E id \in AgentIds : SuspendAgent(id) \/ SuspendLease(id) \/ ReinstateLease(id)
    \/ \E c \in CallIds : Authenticate(c) \/ Admit(c) \/ \E k \in Key : Present(c, k)

Next ==
    \/ \E p \in Procs : OpenStore(p) \/ Exit(p) \/ Commands(p) \/ CanaryCommands(p)
    \/ RegistryCommands \/ GateSteps

Spec == Init /\ [][Next]_vars
----------------------------------------------------------------------------
(* A call is admitted only under the id its key was issued to, and only while
   the last thing the operator signed about that agent is an enrolment,
   whatever else was written into the registry file (check_admission). *)
EntitledStep ==
    \A c \in CallIds : call[c].pc = "known" /\ call'[c].pc = "admitted" =>
        LET said == SelectSeq(registry, LAMBDA d : d.id = call[c].as /\ d.form = "operator") IN
        /\ call[c].as = minted[call[c].key]
        /\ said # <<>> /\ Last(said).status = "enrolled"

(* No call is authenticated with a key that was reported revoked or replaced,
   by a command of the CLI or by the kill switch, unless the gateway is still
   the process that had read the key before, or a process that had read it
   before wrote its copy of the file back: a restart of the gateway makes every
   revocation final that no other process overlapped (AgentCredentialStore is
   read once, at gateway.py:859). *)
RevokedFailStep ==
    \A c \in CallIds :
        call[c].pc = "arrived" /\ call'[c].pc = "known" /\ call[c].key \in dead =>
            call[c].key \in spared.gateway \cup spared.file

(* Commands that take turns, and may die between any two writes, report a
   canary as observed at most once, and only a canary whose mint is in the
   ledger (CanaryService.observe). *)
CanaryOnce ==
    \A id \in MintIds :
        /\ Cardinality({n \in notes : n.id = id /\ n.event = "observe"}) <= 1
        /\ \A n \in notes : n.id = id /\ n.event = "observe" => ledger[id] = "consumed"
=============================================================================
