--------------------------- MODULE DelegationHold ---------------------------
(***************************************************************************)
(* Holds on an agent or on a delegation chain, and the delegations that    *)
(* are minted while they last.                                             *)
(*                                                                         *)
(* Three parties share two files.  The containment process resolves the    *)
(* scope to token ids, snapshots the revocations file, appends the ids,    *)
(* receipts the hold, writes its state file and publishes a marker row in  *)
(* the delegation ledger; a resume restores the snapshot.  Registrars keep *)
(* an in-memory copy of the ledger (DelegationLedger), reloaded when the   *)
(* mtime differs, and revoke what they register under an active marker.    *)
(* The gateway appends cascade revocations and reads both files at every   *)
(* call.  Only the containment process takes flocks: MutualExclusion of    *)
(* ContainmentProofs is why one such process is enough here.               *)
(***************************************************************************)
EXTENDS Integers, Sequences, FiniteSets

CONSTANTS
    Tokens,      \* capability token ids
    Agents,      \* agent ids
    None,        \* no parent, no scope
    Parent,      \* Parent[t]: the token t attenuates, or None
    Delegate,    \* Delegate[t]: the agent t is delegated to
    Registrars,  \* processes with a DelegationLedger of their own
    MaxHolds,    \* bound: holds
    MaxCascades, \* bound: cascade revocations
    MaxFaults,   \* bound: hold receipts and ledger markers that cannot be written
    MaxCrashes   \* bound: containment processes that die

ASSUME DelegationAssumption ==
    /\ None \notin Tokens \cup Agents
    /\ Tokens \cap Agents = {}
    /\ Parent \in [Tokens -> Tokens \cup {None}]
    /\ Delegate \in [Tokens -> Agents]
    /\ {MaxHolds, MaxCascades, MaxFaults, MaxCrashes} \subseteq Nat

VARIABLES
    ledger,    \* rows of the delegation ledger
    revoked,   \* token ids in the revocations file
    state,     \* containment state file
    cpc, cloc, \* next step and locals of the containment process
    known,     \* known[r]: indices of the ledger rows in r's memory
    stamp,     \* stamp[r]: the ledger mtime r remembers
    rpc, rtok, \* next step of registrar r and the token it registers
    used,      \* how much of each bound has been used
    (* history *)
    lastReceipt, \* verdict of the last containment receipt
    lost,      \* scopes of which a hold marker, a resume marker could not be appended
    raced,     \* raced[r]: a hold was under way since r loaded the ledger
    cascaded,  \* ids named by a signed cascade revocation
    prior      \* those of them revoked while nothing was held

files   == <<ledger, revoked, state>>
memory  == <<known, stamp, rpc, rtok, raced>>
history == <<lastReceipt, lost, cascaded, prior>>
vars    == <<files, cpc, cloc, memory, used, history>>

----------------------------------------------------------------------------
(* Data *)

Scopes  == Tokens \cup Agents
NoState == [scope |-> None, ids |-> {}, snap |-> {}]
State   == [scope : Scopes \cup {None}, ids : SUBSET Tokens, snap : SUBSET Tokens]
CSteps  == {"idle", "snapshot", "append", "emit", "rollback", "state", "marker",
            "restore", "unmark", "clear"}
RSteps  == {"idle", "revoke", "append"}

(* A ledger row: a capability record or a containment control row.  clean records
   that its registration met no containment operation. *)
Rows == [kind : {"cap"}, id : Tokens, clean : BOOLEAN]
            \cup [kind : {"hold", "resume"}, id : Scopes]

All == DOMAIN ledger

(* A token with all it descends from. *)
Above(t) == {u \in Tokens : \A S \in SUBSET Tokens :
                t \in S /\ (\A v \in S : Parent[v] \in S \cup {None}) => u \in S}

(* _records of a ledger of which the rows K are known. *)
Records(K) == {ledger[i].id : i \in {k \in K : ledger[k].kind = "cap"}}

(* _chain_ids: the walk up stops at the first parent without a record. *)
ChainIds(K, t) == {u \in Above(t) : (Above(t) \ Above(u)) \ {t} \subseteq Records(K)}

(* descendants: t and every record whose ancestor chain reaches it. *)
Descendants(K, t) == {t} \cup {u \in Records(K) : /\ t \in Above(u)
                                                   /\ Above(u) \ Above(t) \subseteq Records(K)}

TokensForAgent(K, a) == {u \in Records(K) : Delegate[u] = a}

(* _active_containment_holds: hold markers without a later resume. *)
ActiveHolds(K) == {ledger[i].id : i \in {k \in K :
                     /\ ledger[k].kind = "hold"
                     /\ \A j \in K : j > k => ledger[j] # [kind |-> "resume", id |-> ledger[k].id]}}

(* What a hold on s is meant to stop. *)
InScope(s, t) == s = Delegate[t] \/ s \in Above(t)

(* The gate, built afresh for a call: the token and every ancestor unrevoked,
   and every ancestor found in the ledger. *)
CallAllowed(t) ==
    /\ Above(t) \cap revoked = {}
    /\ Above(t) \ {t} \subseteq Records(All)

Init ==
    /\ ledger = <<>>
    /\ revoked = {}
    /\ state = NoState
    /\ cpc = "idle"
    /\ cloc = NoState
    /\ known = [r \in Registrars |-> {}]
    /\ stamp = [r \in Registrars |-> 0]
    /\ rpc = [r \in Registrars |-> "idle"]
    /\ rtok = [r \in Registrars |-> None]
    /\ used = [holds |-> 0, cascades |-> 0, faults |-> 0, crashes |-> 0]
    /\ lastReceipt = "none"
    /\ lost = [hold |-> {}, resume |-> {}]
    /\ raced = [r \in Registrars |-> FALSE]
    /\ cascaded = {}
    /\ prior = {}

----------------------------------------------------------------------------
(* Containment: hold *)

(* The ids a hold revokes; an empty answer refuses the hold. *)
ResolveIds(s) ==
    IF s \in Agents THEN TokensForAgent(All, s)
    ELSE IF s \in Records(All) THEN Descendants(All, s) ELSE {}

HoldResolve(s) ==
    /\ cpc = "idle"
    /\ state = NoState
    /\ ResolveIds(s) # {}
    /\ used.holds < MaxHolds
    /\ used' = [used EXCEPT !.holds = @ + 1]
    /\ cloc' = [scope |-> s, ids |-> ResolveIds(s), snap |-> {}]
    /\ cpc' = "snapshot"
    /\ raced' = [r \in Registrars |-> raced[r] \/ rpc[r] # "idle"]
    /\ UNCHANGED <<files, known, stamp, rpc, rtok, history>>

HoldSnapshot_Empty ==   \* wrong: nothing is snapshotted
    /\ cpc = "snapshot"
    /\ cpc' = "append"
    /\ UNCHANGED <<files, cloc, memory, used, history>>

HoldSnapshot ==
    /\ cpc = "snapshot"
    /\ cloc' = [cloc EXCEPT !.snap = revoked]
    /\ cpc' = "append"
    /\ UNCHANGED <<files, memory, used, history>>

HoldAppend ==
    /\ cpc = "append"
    /\ revoked' = revoked \cup cloc.ids
    /\ cpc' = "emit"
    /\ UNCHANGED <<ledger, state, cloc, memory, used, history>>

HoldReceipt ==
    /\ cpc = "emit"
    /\ lastReceipt' = "hold"
    /\ cpc' = "state"
    /\ UNCHANGED <<files, cloc, memory, used, lost, cascaded, prior>>

HoldReceiptFails ==
    /\ cpc = "emit"
    /\ used.faults < MaxFaults
    /\ used' = [used EXCEPT !.faults = @ + 1]
    /\ cpc' = "rollback"
    /\ UNCHANGED <<files, cloc, memory, history>>

HoldRollback_NotRaised ==   \* wrong: the hold goes on after its roll back
    /\ cpc = "rollback"
    /\ revoked' = cloc.snap
    /\ cpc' = "state"
    /\ UNCHANGED <<ledger, state, cloc, memory, used, history>>

HoldRollback ==
    /\ cpc = "rollback"
    /\ revoked' = cloc.snap
    /\ cpc' = "idle"
    /\ cloc' = NoState
    /\ UNCHANGED <<ledger, state, memory, used, history>>

HoldWriteState ==
    /\ cpc = "state"
    /\ state' = cloc
    /\ cpc' = "marker"
    /\ UNCHANGED <<ledger, revoked, cloc, memory, used, history>>

HoldMarker ==
    /\ cpc = "marker"
    /\ ledger' = Append(ledger, [kind |-> "hold", id |-> cloc.scope])
    /\ cpc' = "idle"
    /\ cloc' = NoState
    /\ UNCHANGED <<revoked, state, memory, used, history>>

(* The append raises: the hold is reported incomplete and stands as it is, its
   ids revoked and its state written. *)
HoldMarkerFails ==
    /\ cpc = "marker"
    /\ used.faults < MaxFaults
    /\ used' = [used EXCEPT !.faults = @ + 1]
    /\ lost' = [lost EXCEPT !.hold = @ \cup {cloc.scope}]
    /\ cpc' = "idle"
    /\ cloc' = NoState
    /\ UNCHANGED <<files, memory, lastReceipt, cascaded, prior>>

----------------------------------------------------------------------------
(* Containment: resume, and the death of the process *)

ResumeReceipt ==
    /\ cpc = "idle"
    /\ state # NoState
    /\ lastReceipt' = "resume"
    /\ cloc' = state
    /\ cpc' = "restore"
    /\ raced' = [r \in Registrars |-> raced[r] \/ rpc[r] # "idle"]
    /\ UNCHANGED <<files, known, stamp, rpc, rtok, used, lost, cascaded, prior>>

ResumeRestore ==
    /\ cpc = "restore"
    /\ revoked' = cloc.snap
    /\ cpc' = "unmark"
    /\ UNCHANGED <<ledger, state, cloc, memory, used, history>>

ResumeMarker_Skipped ==   \* wrong: the hold marker is never cancelled
    /\ cpc = "unmark"
    /\ cpc' = "clear"
    /\ UNCHANGED <<files, cloc, memory, used, history>>

ResumeMarker ==
    /\ cpc = "unmark"
    /\ ledger' = Append(ledger, [kind |-> "resume", id |-> cloc.scope])
    /\ lost' = [lost EXCEPT !.resume = @ \ {cloc.scope}]
    /\ cpc' = "clear"
    /\ UNCHANGED <<revoked, state, cloc, memory, used, lastReceipt, cascaded, prior>>

(* The append raises and the error is swallowed: the resume goes on. *)
ResumeMarkerFails ==
    /\ cpc = "unmark"
    /\ used.faults < MaxFaults
    /\ used' = [used EXCEPT !.faults = @ + 1]
    /\ lost' = [lost EXCEPT !.resume = @ \cup {cloc.scope}]
    /\ cpc' = "clear"
    /\ UNCHANGED <<files, cloc, memory, lastReceipt, cascaded, prior>>

ResumeClear ==
    /\ cpc = "clear"
    /\ state' = NoState
    /\ lost' = [lost EXCEPT !.hold = {}]
    /\ cpc' = "idle"
    /\ cloc' = NoState
    /\ UNCHANGED <<ledger, revoked, memory, used, lastReceipt, cascaded, prior>>

Crash ==
    /\ cpc # "idle"
    /\ used.crashes < MaxCrashes
    /\ used' = [used EXCEPT !.crashes = @ + 1]
    /\ cpc' = "idle"
    /\ cloc' = NoState
    /\ UNCHANGED <<files, memory, history>>

----------------------------------------------------------------------------
(* DelegationLedger.register, and the gateway's cascade *)

(* _ensure_loaded: the whole file when the mtime differs. *)
Loaded(r) == IF stamp[r] = Len(ledger) THEN known[r] ELSE All

Hit_ChainOnly(K, t, s) == s \in ChainIds(K, t)   \* wrong: held agents are not consulted

(* _hold_check: the registration lands in a held scope. *)
Hit(K, t, s) == s = Delegate[t] \/ s \in ChainIds(K, t)

RegisterCheck(r, t) ==
    LET K == Loaded(r) IN
    /\ rpc[r] = "idle"
    /\ t \notin Records(All)
    /\ \A q \in Registrars : rtok[q] # t
    /\ known' = [known EXCEPT ![r] = K]
    /\ stamp' = [stamp EXCEPT ![r] = Len(ledger)]
    /\ rtok' = [rtok EXCEPT ![r] = t]
    /\ rpc' = [rpc EXCEPT ![r] = IF \E s \in ActiveHolds(K) : Hit(K, t, s)
                                 THEN "revoke" ELSE "append"]
    /\ raced' = [raced EXCEPT ![r] = cpc # "idle" \/ (@ /\ stamp[r] = Len(ledger))]
    /\ UNCHANGED <<files, cpc, cloc, used, history>>

(* _propagate_hold_revocation *)
RegisterRevoke(r) ==
    /\ rpc[r] = "revoke"
    /\ revoked' = revoked \cup {rtok[r]}
    /\ rpc' = [rpc EXCEPT ![r] = "append"]
    /\ UNCHANGED <<ledger, state, cpc, cloc, known, stamp, rtok, raced, used, history>>

(* The record is appended and the new mtime remembered, without a look at the
   rows that others appended since the check. *)
RegisterAppend(r) ==
    /\ rpc[r] = "append"
    /\ ledger' = Append(ledger, [kind |-> "cap", id |-> rtok[r], clean |-> ~raced[r]])
    /\ known' = [known EXCEPT ![r] = @ \cup {Len(ledger) + 1}]
    /\ stamp' = [stamp EXCEPT ![r] = Len(ledger) + 1]
    /\ rpc' = [rpc EXCEPT ![r] = "idle"]
    /\ rtok' = [rtok EXCEPT ![r] = None]
    /\ UNCHANGED <<revoked, state, cpc, cloc, raced, used, history>>

(* revoke_capability on the gateway: the subtree, appended and receipted. *)
Cascade(t) ==
    /\ used.cascades < MaxCascades
    /\ used' = [used EXCEPT !.cascades = @ + 1]
    /\ revoked' = revoked \cup Descendants(All, t)
    /\ cascaded' = cascaded \cup Descendants(All, t)
    /\ prior' = IF cpc = "idle" /\ state = NoState
                THEN prior \cup Descendants(All, t) ELSE prior
    /\ UNCHANGED <<ledger, state, cpc, cloc, memory, lastReceipt, lost>>

Next ==
    \/ \E s \in Scopes : HoldResolve(s)
    \/ HoldSnapshot \/ HoldAppend \/ HoldReceipt \/ HoldReceiptFails \/ HoldRollback
    \/ HoldWriteState \/ HoldMarker \/ HoldMarkerFails
    \/ ResumeReceipt \/ ResumeRestore \/ ResumeMarker \/ ResumeMarkerFails \/ ResumeClear
    \/ Crash
    \/ \E r \in Registrars, t \in Tokens : RegisterCheck(r, t)
    \/ \E r \in Registrars : RegisterRevoke(r)
    \/ \E r \in Registrars : RegisterAppend(r)
    \/ \E t \in Tokens : Cascade(t)

Spec == Init /\ [][Next]_vars
----------------------------------------------------------------------------
(* Properties *)

(* Type invariant: the rows of the files, the caches and the locals. *)
TypeOK ==
    /\ ledger \in Seq(Rows)
    /\ revoked \in SUBSET Tokens
    /\ state \in State
    /\ cpc \in CSteps
    /\ cloc \in State
    /\ known \in [Registrars -> SUBSET Nat]
    /\ stamp \in [Registrars -> Nat]
    /\ rpc \in [Registrars -> RSteps]
    /\ rtok \in [Registrars -> Tokens \cup {None}]
    /\ used \in [holds : Nat, cascades : Nat, faults : Nat, crashes : Nat]
    /\ lastReceipt \in {"none", "hold", "resume"}
    /\ lost \in [hold : SUBSET Scopes, resume : SUBSET Scopes]
    /\ raced \in [Registrars -> BOOLEAN]
    /\ cascaded \in SUBSET Tokens
    /\ prior \in SUBSET Tokens

(* From the hold's state write to its resume receipt every token the hold
   resolved, and every token descending from one, is refused by the gate, also
   after a containment process died. *)
HoldCoversResolved ==
    state # NoState /\ lastReceipt = "hold" =>
        \A t \in Tokens : Above(t) \cap state.ids # {} => ~CallAllowed(t)

(* A delegation that was minted into a held scope is refused by the gate as
   long as the hold stands, when its registrar had not loaded the ledger around
   a containment operation: registration consults the marker, and what the
   registrar's stale view of a chain misses the gate's own walk finds
   (_hold_check, _verify_ancestor_chain).  A hold whose marker could not be
   appended, a containment process that died before its marker, and a
   registration that overlaps a hold, escape it. *)
MintedUnderHoldDenied ==
    cpc = "idle" /\ state # NoState /\ state.scope \notin lost.hold /\ used.crashes = 0 =>
        \A i \in All :
            ledger[i].kind = "cap" /\ ledger[i].clean /\ InScope(state.scope, ledger[i].id)
                => ~CallAllowed(ledger[i].id)

(* Between two containment operations (while no containment process dies)
   registrars consult the hold that is in force, unless its marker could not be
   appended, which the operator was told of; and beside it at most the scopes
   whose resume marker was lost, which nobody was told of: what is minted into
   those is still revoked, until the scope is held and resumed again
   (_append_hold_marker). *)
MarkersMatchState ==
    cpc = "idle" /\ used.crashes = 0 =>
        /\ {state.scope} \ {None} \subseteq ActiveHolds(All) \cup lost.hold
        /\ ActiveHolds(All) \subseteq {state.scope} \cup lost.resume

(* While a hold stands the gate refuses every token it resolved with all their
   descendants, and what is minted into the held scope meanwhile; and between
   two operations the ledger's markers say what the state file says, but for
   the markers that could not be appended
   (ContainmentManager, _hold_check, _verify_ancestor_chain). *)
HoldCovers == HoldCoversResolved /\ MintedUnderHoldDenied /\ MarkersMatchState

(* A revocation made while nothing was held outlives every later hold, roll
   back, resume and crash: the snapshot they restore contains it. *)
PriorRevocationsStand == prior \subseteq revoked

(* "The gate refuses new actions on every revoked id at the next call": a
   receipted cascade revocation stays in the file. *)
CascadeStands == cpc = "idle" => cascaded \subseteq revoked
=============================================================================
