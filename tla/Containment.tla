---------------------------- MODULE Containment ----------------------------
(***************************************************************************)
(* The operator's emergency stop (raucle/containment.py), global scope.    *)
(*                                                                         *)
(* Every invocation is a process of its own that works on four files: the  *)
(* policy file (the enforcement target), the state file, the receipt       *)
(* stream and the stream's head anchor.  hold, approve_hold, abort_hold    *)
(* and resume run under a non-blocking flock; each file write is a step,   *)
(* so that a process can die between any two of them.  A write that raises *)
(* OSError outside the guarded receipt emission ends the invocation the    *)
(* same way and is covered by Crash.  Nobody else takes the flocks:        *)
(* policy activation (Activate) replaces the policy file at any moment.    *)
(***************************************************************************)
EXTENDS Integers, Sequences, Functions

CONSTANTS
    Procs,           \* containment invocations that may run at once
    NoProc,          \* the flock is free
    Approvers,       \* identities that may approve or abort a pending hold
    NoOne,           \* a receipt that names no approver
    Policies,        \* policy bytes an activation may install
    DenyAll,         \* the zero-rule policy a hold installs
    Keys,            \* operator signing keys that may be on disk
    NoKey,           \* no pinned fingerprint
    Quorum,          \* Quorum[p]: min_approvers configured for process p
    MaxReceipts,     \* bound: receipts in the stream
    MaxCrashes,      \* bound: processes that die in mid-operation
    MaxFaults,       \* bound: receipt emissions that raise before the append
    MaxAnchorFaults, \* bound: anchor writes that raise after the append
    MaxActivations,  \* bound: policy activations
    MaxSwaps,        \* bound: operator key replacements
    MaxRestamps      \* bound: out-of-band rewrites of the state snapshot

ASSUME ContainmentAssumption ==
    /\ NoProc \notin Procs
    /\ NoOne \notin Approvers
    /\ DenyAll \notin Policies
    /\ NoKey \notin Keys
    /\ Quorum \in [Procs -> Nat \ {0}]
    /\ {MaxReceipts, MaxCrashes, MaxFaults, MaxAnchorFaults, MaxActivations,
        MaxSwaps, MaxRestamps} \subseteq Nat

VARIABLES
    policy,    \* bytes of the policy file
    state,     \* content of the state file
    receipts,  \* the receipt stream
    anchor,    \* receipts covered by the head anchor, NoAnchor without one
    opKey,     \* operator key on disk
    lock,      \* holder of the state flock
    pc,        \* pc[p]: next step of process p
    loc,       \* loc[p]: locals of process p
    used       \* how much of each bound has been used

vars == <<policy, state, receipts, anchor, opKey, lock, pc, loc, used>>

----------------------------------------------------------------------------
(* Data *)

NoAnchor == -1
Contents == Policies \cup {DenyAll}
Verdicts == {"hold", "resume", "resume_refused", "pending", "approval", "abort"}
Ops      == {"hold", "open", "approve", "abort", "resume", "refuse"}
Kinds    == {"absent", "empty", "pending", "held"}
PCs      == {"idle", "checked", "snapshot", "deny", "emit", "reanchor", "rollback",
             "persist", "restore", "verify", "truncate", "unlink"}

(* The state file.  pending: id of the receipt that opened the pending hold;
   rid: id of the receipt of the applied hold; pin: pinned key fingerprint. *)
State == [kind : Kinds, orig : Contents, rid : Nat, approvers : Seq(Approvers),
          required : Nat, pending : Nat, pin : Keys \cup {NoKey}]

NoState == [kind |-> "absent", orig |-> DenyAll, rid |-> 0, approvers |-> <<>>,
            required |-> 0, pending |-> 0, pin |-> NoKey]

(* A receipt; its id is its position in the stream.  ref: the receipt it
   continues (pending for a quorum hold, hold for a resume), 0 for none. *)
Receipt == [verdict : Verdicts, orig : Contents, roll : Seq(Approvers),
            required : Nat, ref : Nat, who : Approvers \cup {NoOne},
            pin : Keys \cup {NoKey}]

Local == {l \in [op : Ops, st : State, who : Approvers \cup {NoOne}, rid : Nat] :
            l.op = "approve" => l.who \in Approvers}

NoLocal == [op |-> "hold", st |-> NoState, who |-> NoOne, rid |-> 0]

Bounds == [receipts : Nat, crashes : Nat, faults : Nat, anchorFaults : Nat,
           activations : Nat, swaps : Nat, restamps : Nat]

Init ==
    /\ policy \in Policies
    /\ state = NoState
    /\ receipts = <<>>
    /\ anchor = NoAnchor
    /\ opKey \in Keys
    /\ lock = NoProc
    /\ pc = [p \in Procs |-> "idle"]
    /\ loc = [p \in Procs |-> NoLocal]
    /\ used = [receipts |-> 0, crashes |-> 0, faults |-> 0, anchorFaults |-> 0,
               activations |-> 0, swaps |-> 0, restamps |-> 0]

----------------------------------------------------------------------------
(* Locking.  flock is non-blocking: a process that finds it taken raises and
   goes back to idle having changed nothing, so only success is a step. *)

Acquire_NoFlock(p, step, local) ==   \* wrong: the flock result is ignored
    /\ lock' = p
    /\ pc' = [pc EXCEPT ![p] = step]
    /\ loc' = [loc EXCEPT ![p] = local]

Acquire(p, step, local) ==
    /\ lock = NoProc
    /\ lock' = p
    /\ pc' = [pc EXCEPT ![p] = step]
    /\ loc' = [loc EXCEPT ![p] = local]

(* The finally clauses: unlock and forget the locals. *)
Release(p) ==
    /\ lock' = NoProc
    /\ pc' = [pc EXCEPT ![p] = "idle"]
    /\ loc' = [loc EXCEPT ![p] = NoLocal]

Goto(p, step) == pc' = [pc EXCEPT ![p] = step]

(* Every operation emits at least one receipt; the bound is claimed when it
   starts (an approval that meets the quorum also emits the hold). *)
ClaimReceipts(n) ==
    /\ used.receipts + n <= MaxReceipts
    /\ used' = [used EXCEPT !.receipts = @ + n]

----------------------------------------------------------------------------
(* Receipt emission, in the locked section of every operation. *)

(* The stream matches its head anchor (the stream only ever grows here, so
   equal counts are equal heads). *)
NoGap == anchor = NoAnchor \/ anchor = Len(receipts)

(* What process p is about to sign. *)
NextReceipt(p) ==
    LET l == loc[p] IN
    [verdict  |-> CASE l.op = "hold"    -> "hold"
                    [] l.op = "open"    -> "pending"
                    [] l.op = "approve" -> "approval"
                    [] l.op = "abort"   -> "abort"
                    [] l.op = "resume"  -> "resume"
                    [] l.op = "refuse"  -> "resume_refused",
     orig     |-> l.st.orig,
     roll     |-> l.st.approvers,
     required |-> l.st.required,
     ref      |-> IF l.op \in {"resume", "refuse"} THEN l.st.rid ELSE l.st.pending,
     who      |-> l.who,
     pin      |-> l.st.pin]

(* A stream without an anchor is adopted before the first receipt on it. *)
AdoptAnchor(p) ==
    /\ pc[p] = "emit"
    /\ anchor = NoAnchor
    /\ receipts # <<>>
    /\ anchor' = Len(receipts)
    /\ UNCHANGED <<policy, state, receipts, opKey, lock, pc, loc, used>>

AppendReceipt(p) ==
    /\ pc[p] = "emit"
    /\ NoGap
    /\ anchor = NoAnchor => receipts = <<>>
    /\ receipts' = Append(receipts, NextReceipt(p))
    /\ loc' = [loc EXCEPT ![p].rid = Len(receipts) + 1]
    /\ Goto(p, "reanchor")
    /\ UNCHANGED <<policy, state, anchor, opKey, lock, used>>

EmissionFailed_KeepsLock(p) ==   \* wrong: the error path leaves without unlocking
    /\ Goto(p, "idle")
    /\ UNCHANGED <<lock, loc>>

(* The exception handler around the emission: a hold is rolled back, every
   other transition is abandoned. *)
EmissionFailed(p) ==
    IF loc[p].op = "hold"
    THEN Goto(p, "rollback") /\ UNCHANGED <<lock, loc>>
    ELSE Release(p)

(* receipt_stream_gap: the emission is refused. *)
EmitRefused(p) ==
    /\ pc[p] = "emit"
    /\ ~NoGap
    /\ EmissionFailed(p)
    /\ UNCHANGED <<policy, state, receipts, anchor, opKey, used>>

(* Signing or appending raises: nothing was written. *)
EmitFault(p) ==
    /\ pc[p] = "emit"
    /\ used.faults < MaxFaults
    /\ used' = [used EXCEPT !.faults = @ + 1]
    /\ EmissionFailed(p)
    /\ UNCHANGED <<policy, state, receipts, anchor, opKey>>

(* Writing the anchor raises: the receipt is in the stream all the same. *)
AnchorFault(p) ==
    /\ pc[p] = "reanchor"
    /\ used.anchorFaults < MaxAnchorFaults
    /\ used' = [used EXCEPT !.anchorFaults = @ + 1]
    /\ EmissionFailed(p)
    /\ UNCHANGED <<policy, state, receipts, anchor, opKey>>

QuorumMet_OffByOne(st) == Len(st.approvers) + 1 >= st.required   \* wrong: one short

(* The approval that completes the quorum. *)
QuorumMet(st) == Len(st.approvers) >= st.required

Reanchor_Behind(p) ==   \* wrong: a hold is anchored as the stream was before its receipt
    /\ pc[p] = "reanchor"
    /\ loc[p].op = "hold"
    /\ anchor' = Len(receipts) - 1
    /\ Goto(p, "persist")
    /\ UNCHANGED <<policy, state, receipts, opKey, lock, loc, used>>

(* _write_stream_anchor, after which the operation goes on. *)
Reanchor(p) ==
    LET l == loc[p]
        withApprover == [l.st EXCEPT !.approvers = Append(@, l.who)]
    IN
    /\ pc[p] = "reanchor"
    /\ anchor' = Len(receipts)
    /\ CASE l.op = "hold"    -> Goto(p, "persist") /\ UNCHANGED <<lock, loc>>
         [] l.op = "open"    -> Goto(p, "persist") /\ UNCHANGED <<lock, loc>>
         [] l.op = "approve" ->
                /\ UNCHANGED lock
                /\ IF QuorumMet(withApprover)
                   THEN /\ loc' = [loc EXCEPT ![p] = [op |-> "hold", st |-> withApprover,
                                                      who |-> NoOne, rid |-> 0]]
                        /\ Goto(p, "snapshot")
                   ELSE /\ loc' = [loc EXCEPT ![p].st = withApprover]
                        /\ Goto(p, "persist")
         [] l.op = "abort"   -> Goto(p, "truncate") /\ UNCHANGED <<lock, loc>>
         [] l.op = "resume"  -> Goto(p, "restore") /\ UNCHANGED <<lock, loc>>
         [] l.op = "refuse"  -> Release(p)
    /\ UNCHANGED <<policy, state, receipts, opKey, used>>

----------------------------------------------------------------------------
(* hold *)

(* The unlocked look at the state file: anything there refuses the hold. *)
HoldCheck(p) ==
    /\ pc[p] = "idle"
    /\ state.kind = "absent"
    /\ ClaimReceipts(1)
    /\ Goto(p, "checked")
    /\ UNCHANGED <<policy, state, receipts, anchor, opKey, lock, loc>>

HoldLock_NoReread(p) ==   \* wrong: the state is not read again under the lock
    /\ pc[p] = "checked"
    /\ IF Quorum[p] = 1
       THEN Acquire(p, "snapshot", [NoLocal EXCEPT !.op = "hold"])
       ELSE Acquire(p, "emit",
                    [NoLocal EXCEPT !.op = "open",
                                    !.st = [NoState EXCEPT !.required = Quorum[p],
                                                           !.pin = opKey]])
    /\ UNCHANGED <<policy, state, receipts, anchor, opKey, used>>

(* Locked: look again, then apply at once or open a pending hold. *)
HoldLock(p) ==
    /\ pc[p] = "checked"
    /\ state.kind = "absent"
    /\ IF Quorum[p] = 1
       THEN Acquire(p, "snapshot", [NoLocal EXCEPT !.op = "hold"])
       ELSE Acquire(p, "emit",
                    [NoLocal EXCEPT !.op = "open",
                                    !.st = [NoState EXCEPT !.required = Quorum[p],
                                                           !.pin = opKey]])
    /\ UNCHANGED <<policy, state, receipts, anchor, opKey, used>>

(* The lock is taken, or the state appeared in between: the hold is refused. *)
HoldLockRefused(p) ==
    /\ pc[p] = "checked"
    /\ lock # NoProc \/ state.kind # "absent"
    /\ Goto(p, "idle")
    /\ UNCHANGED <<policy, state, receipts, anchor, opKey, lock, loc, used>>

(* _apply_hold_locked up to the snapshot: a pending hold keeps the key pinned
   at its request, a direct hold pins the key now. *)
Snapshot(p) ==
    LET st == loc[p].st IN
    /\ pc[p] = "snapshot"
    /\ st.pin \in {NoKey, opKey}
    /\ loc' = [loc EXCEPT ![p].st.orig = policy, ![p].st.pin = opKey]
    /\ Goto(p, "deny")
    /\ UNCHANGED <<policy, state, receipts, anchor, opKey, lock, used>>

(* operator_key_changed: the approvals were receipted under another key. *)
ApplyRefused(p) ==
    /\ pc[p] = "snapshot"
    /\ loc[p].st.pin \notin {NoKey, opKey}
    /\ Release(p)
    /\ UNCHANGED <<policy, state, receipts, anchor, opKey, used>>

WriteDenyAll_StateFirst(p) ==   \* wrong: the held state is written before the receipt
    /\ pc[p] = "deny"
    /\ policy' = DenyAll
    /\ Goto(p, "persist")
    /\ UNCHANGED <<state, receipts, anchor, opKey, lock, loc, used>>

WriteDenyAll(p) ==
    /\ pc[p] = "deny"
    /\ policy' = DenyAll
    /\ Goto(p, "emit")
    /\ UNCHANGED <<state, receipts, anchor, opKey, lock, loc, used>>

Rollback_Nothing(p) ==   \* wrong: the policy file is not put back
    /\ pc[p] = "rollback"
    /\ Release(p)
    /\ UNCHANGED <<policy, state, receipts, anchor, opKey, used>>

Rollback(p) ==
    /\ pc[p] = "rollback"
    /\ policy' = loc[p].st.orig
    /\ Release(p)
    /\ UNCHANGED <<state, receipts, anchor, opKey, used>>

(* Write the state file: the held state, the opened pending hold, or the
   pending hold advanced by one approver. *)
Persist(p) ==
    LET l == loc[p] IN
    /\ pc[p] = "persist"
    /\ state' = CASE l.op = "hold"    -> [l.st EXCEPT !.kind = "held", !.rid = l.rid]
                  [] l.op = "open"    -> [l.st EXCEPT !.kind = "pending", !.pending = l.rid]
                  [] OTHER            -> l.st
    /\ Release(p)
    /\ UNCHANGED <<policy, receipts, anchor, opKey, used>>

----------------------------------------------------------------------------
(* approve_hold, abort_hold, resume *)

Approve(p, a) ==
    /\ pc[p] = "idle"
    /\ state.kind = "pending"
    /\ a \notin Range(state.approvers)
    /\ ClaimReceipts(2)
    /\ Acquire(p, "emit", [op |-> "approve", st |-> state, who |-> a, rid |-> 0])
    /\ UNCHANGED <<policy, state, receipts, anchor, opKey>>

Abort(p, a) ==
    /\ pc[p] = "idle"
    /\ state.kind = "pending"
    /\ ClaimReceipts(1)
    /\ Acquire(p, "emit", [op |-> "abort", st |-> state, who |-> a, rid |-> 0])
    /\ UNCHANGED <<policy, state, receipts, anchor, opKey>>

SnapshotReceipted_Digest(st) == receipts[st.rid].verdict = "hold"   \* wrong: digest not compared

(* The hold receipt binds the snapshot: a state whose snapshot is not the
   receipted one is refused, with a receipt, and the halt stays.  A key other
   than the pinned one is refused before that. *)
SnapshotReceipted(st) ==
    /\ receipts[st.rid].verdict = "hold"
    /\ receipts[st.rid].orig = st.orig

Resume(p) ==
    /\ pc[p] = "idle"
    /\ state.kind = "held"
    /\ state.pin = opKey
    /\ state.rid \in DOMAIN receipts
    /\ ClaimReceipts(1)
    /\ Acquire(p, "emit", [op |-> IF SnapshotReceipted(state) THEN "resume" ELSE "refuse",
                           st |-> state, who |-> NoOne, rid |-> 0])
    /\ UNCHANGED <<policy, state, receipts, anchor, opKey>>

RestorePolicy_Held(p) ==   \* wrong: the bytes on disk are written back
    /\ pc[p] = "restore"
    /\ Goto(p, "verify")
    /\ UNCHANGED <<policy, state, receipts, anchor, opKey, lock, loc, used>>

RestorePolicy(p) ==
    /\ pc[p] = "restore"
    /\ policy' = loc[p].st.orig
    /\ Goto(p, "verify")
    /\ UNCHANGED <<state, receipts, anchor, opKey, lock, loc, used>>

(* The restored file is read back; other bytes end the resume, still held. *)
VerifyRestore(p) ==
    /\ pc[p] = "verify"
    /\ IF policy = loc[p].st.orig
       THEN Goto(p, "truncate") /\ UNCHANGED <<lock, loc>>
       ELSE Release(p)
    /\ UNCHANGED <<policy, state, receipts, anchor, opKey, used>>

(* The state file is cleared in two steps: replaced by an empty file, then
   unlinked.  An empty state file does not parse. *)
TruncateState(p) ==
    /\ pc[p] = "truncate"
    /\ state' = [NoState EXCEPT !.kind = "empty"]
    /\ Goto(p, "unlink")
    /\ UNCHANGED <<policy, receipts, anchor, opKey, lock, loc, used>>

UnlinkState_Marked(p) ==   \* wrong: the file is marked and not removed
    /\ pc[p] = "unlink"
    /\ state' = [NoState EXCEPT !.kind = "resumed"]
    /\ Release(p)
    /\ UNCHANGED <<policy, receipts, anchor, opKey, used>>

UnlinkState(p) ==
    /\ pc[p] = "unlink"
    /\ state' = NoState
    /\ Release(p)
    /\ UNCHANGED <<policy, receipts, anchor, opKey, used>>

----------------------------------------------------------------------------
(* The environment *)

(* The process dies; the kernel drops its flock. *)
Crash(p) ==
    /\ pc[p] # "idle"
    /\ used.crashes < MaxCrashes
    /\ used' = [used EXCEPT !.crashes = @ + 1]
    /\ lock' = IF lock = p THEN NoProc ELSE lock
    /\ pc' = [pc EXCEPT ![p] = "idle"]
    /\ loc' = [loc EXCEPT ![p] = NoLocal]
    /\ UNCHANGED <<policy, state, receipts, anchor, opKey>>

(* The admin API and the deployment intake replace the policy file; neither
   takes the flock. *)
Activate(v) ==
    /\ used.activations < MaxActivations
    /\ used' = [used EXCEPT !.activations = @ + 1]
    /\ policy' = v
    /\ UNCHANGED <<state, receipts, anchor, opKey, lock, pc, loc>>

ReplaceKey(k) ==
    /\ k # opKey
    /\ used.swaps < MaxSwaps
    /\ used' = [used EXCEPT !.swaps = @ + 1]
    /\ opKey' = k
    /\ UNCHANGED <<policy, state, receipts, anchor, lock, pc, loc>>

(* The snapshot in the state file is rewritten together with its digest. *)
Restamp(v) ==
    /\ state.kind = "held"
    /\ used.restamps < MaxRestamps
    /\ used' = [used EXCEPT !.restamps = @ + 1]
    /\ state' = [state EXCEPT !.orig = v]
    /\ UNCHANGED <<policy, receipts, anchor, opKey, lock, pc, loc>>

Step(p) ==
    \/ HoldLock(p) \/ HoldLockRefused(p) \/ Snapshot(p) \/ ApplyRefused(p)
    \/ WriteDenyAll(p) \/ AdoptAnchor(p) \/ AppendReceipt(p) \/ EmitRefused(p)
    \/ Reanchor(p) \/ Rollback(p) \/ Persist(p)
    \/ RestorePolicy(p) \/ VerifyRestore(p) \/ TruncateState(p) \/ UnlinkState(p)

Begin(p) ==
    \/ HoldCheck(p)
    \/ \E a \in Approvers : Approve(p, a)
    \/ \E a \in Approvers : Abort(p, a)
    \/ Resume(p)

Next ==
    \/ \E p \in Procs : Begin(p)
    \/ \E p \in Procs : Step(p)
    \/ \E p \in Procs : EmitFault(p)
    \/ \E p \in Procs : AnchorFault(p)
    \/ \E p \in Procs : Crash(p)
    \/ \E v \in Policies : Activate(v)
    \/ \E k \in Keys : ReplaceKey(k)
    \/ \E v \in Policies : Restamp(v)

Spec == Init /\ [][Next]_vars

(* A started invocation runs on: the operating system schedules it. *)
FairSpec == Spec /\ \A p \in Procs : WF_vars(Step(p))
----------------------------------------------------------------------------
(* Properties *)

(* Type invariant: what the files and the locals of an invocation may hold. *)
TypeOK ==
    /\ policy \in Contents
    /\ state \in State
    /\ receipts \in Seq(Receipt)
    /\ anchor \in Nat \cup {NoAnchor}
    /\ opKey \in Keys
    /\ lock \in Procs \cup {NoProc}
    /\ pc \in [Procs -> PCs]
    /\ loc \in [Procs -> Local]
    /\ used \in Bounds

(* An invocation past its lock owns the flock: two operators never work on the
   state file, the receipt stream or the policy file at the same time, whatever
   process dies (_locked_state). *)
SoleWriter ==
    \A p \in Procs : pc[p] \notin {"idle", "checked"} => lock = p

(* A halt that the state file reports is always backed by a hold receipt in the
   stream, at every moment and after every crash: the receipt is written first
   (_apply_hold_locked). *)
HeldIsReceipted ==
    state.kind = "held" =>
        /\ state.rid \in DOMAIN receipts
        /\ receipts[state.rid].verdict = "hold"

(* M-of-N: a hold applied on a quorum names at least the required number of
   distinct approvers, and every one of them receipted an approval after the
   request and before the hold, also when invocations die in between
   (approve_hold). *)
QuorumBacked ==
    \A i \in DOMAIN receipts :
        LET r == receipts[i] IN
        r.verdict = "hold" /\ r.ref # 0 =>
            /\ r.ref < i
            /\ receipts[r.ref].verdict = "pending"
            /\ receipts[r.ref].required = r.required
            /\ Len(r.roll) >= r.required
            /\ IsInjective(r.roll)
            /\ \A a \in Range(r.roll) :
                 \E j \in r.ref + 1 .. i - 1 :
                     receipts[j].verdict = "approval" /\ receipts[j].who = a

(* A resume brings back exactly the bytes the hold receipt names, whatever has
   been written into the state file since, and under the key that was pinned
   when the hold was requested (resume, M-027 and RED-028). *)
ResumeMatchesHold ==
    \A i \in DOMAIN receipts :
        LET r == receipts[i] IN
        r.verdict = "resume" =>
            /\ r.ref \in 1 .. i - 1
            /\ receipts[r.ref].verdict = "hold"
            /\ receipts[r.ref].orig = r.orig
            /\ receipts[r.ref].pin = r.pin

(* As long as no invocation dies and nobody else writes the policy file, it is
   deny-all between two invocations exactly when the state file says held, also
   when receipt emissions raise and holds are rolled back.  A death between the
   policy write and the receipt, and an activation during a hold, break it. *)
HaltMatchesState ==
    lock = NoProc /\ used.crashes = 0 /\ used.activations = 0 =>
        (policy = DenyAll <=> state.kind = "held")

(* The lock is always given back: no invocation keeps the operators out for
   ever. *)
LockReleased == \A p \in Procs : lock = p ~> lock # p

(* A receipted resume is carried out: once the resume receipt is in the stream
   the policy file gets the receipted bytes back and the state file goes, unless
   the process dies or an activation comes in between. *)
ResumeCarriedOut ==
    \A p \in Procs :
        pc[p] = "restore" ~> \/ state.kind = "absent" /\ policy # DenyAll
                             \/ used.crashes > 0 \/ used.activations > 0

(* A hold stays reversible: between two invocations a held state can be
   resumed, since the anchor covers the whole stream and the hold receipt is
   in it, as long as no invocation died and no anchor write raised.  A death
   between a receipt and its anchor breaks it for good (_emit_receipt). *)
HoldStaysReversible ==
    lock = NoProc /\ state.kind = "held" /\ used.crashes = 0 /\ used.anchorFaults = 0
        => NoGap /\ state.rid \in DOMAIN receipts

(* "A halt without its receipt is a bug, not a feature": whenever no invocation
   is at work, a deny-all policy file is accounted for by the stream, whose
   last hold or resume is a hold. *)
NoUnreceiptedHalt ==
    lock = NoProc /\ policy = DenyAll =>
        \E i \in DOMAIN receipts :
            /\ receipts[i].verdict = "hold"
            /\ \A j \in DOMAIN receipts : receipts[j].verdict = "resume" => j < i

(* What a halt rests on: a hold on a quorum names enough approvers, each with a
   receipted approval (QuorumBacked); without deaths and activations the policy
   file is deny-all between invocations exactly when the state file says held,
   also when receipts fail and holds are rolled back (HaltMatchesState); and
   without deaths and anchor failures it can be resumed (HoldStaysReversible). *)
HaltSound == QuorumBacked /\ HaltMatchesState /\ HoldStaysReversible

(* The receipt stream as an auditor reads it. *)
AuditEntry(r) == [verdict |-> r.verdict, required |-> r.required, roll |-> r.roll, who |-> r.who]
Trail == [i \in DOMAIN receipts |-> AuditEntry(receipts[i])]

Audit == INSTANCE HaltTrail WITH trail <- Trail,
                                 QuorumSizes <- {Quorum[p] : p \in Procs} \ {1}

(* So far no invocation died, no anchor write raised and nobody else wrote the
   policy file. *)
Undisturbed == used.crashes = 0 /\ used.anchorFaults = 0 /\ used.activations = 0

(* The receipt stream grows as a legal history of one halt state until the first
   disturbance: no hold on a hold, no resume of nothing, no hold before its
   quorum (HaltTrail), also when emissions fail before the append, operators
   race, keys change and snapshots are rewritten. *)
TrailIsLegal == Trail = <<>> /\ [][Undisturbed' => Audit!Next]_Trail
=============================================================================
