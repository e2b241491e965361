------------------------- MODULE ContainmentProofs -------------------------
(***************************************************************************)
(* Theorems about Containment, for every number of processes, approvers,   *)
(* policies and keys and every bound.                                      *)
(***************************************************************************)
EXTENDS Containment, SequenceTheorems, TLAPS

LEMMA NoStateType == NoState \in State
  BY DEF NoState, State, Kinds, Contents

LEMMA NoLocalType == NoLocal \in Local
  BY NoStateType DEF NoLocal, Local, Ops

LEMMA NextReceiptType ==
  ASSUME TypeOK, NEW p \in Procs
  PROVE  NextReceipt(p) \in Receipt
  BY DEF TypeOK, NextReceipt, Receipt, Local, State, Ops, Verdicts

(* The state an approval hands on: one approver more. *)
Approved(p) == [loc[p].st EXCEPT !.approvers = Append(loc[p].st.approvers, loc[p].who)]

(* The two ways an approval goes on after its receipt: the quorum is met and the
   stop is applied, or the advanced pending hold is written. *)
LEMMA ReanchorApproval ==
  ASSUME TypeOK, NEW p \in Procs, Reanchor(p), loc[p].op = "approve"
  PROVE  /\ Approved(p) \in State
         /\ \/ /\ QuorumMet(Approved(p))
               /\ loc' = [loc EXCEPT ![p] = [op |-> "hold", st |-> Approved(p),
                                             who |-> NoOne, rid |-> 0]]
               /\ pc' = [pc EXCEPT ![p] = "snapshot"]
            \/ /\ loc' = [loc EXCEPT ![p] = [loc[p] EXCEPT !.st = Approved(p)]]
               /\ pc' = [pc EXCEPT ![p] = "persist"]
<1>1. loc[p].st \in State /\ loc[p].who \in Approvers
  BY DEF TypeOK, Local
<1>2. Append(loc[p].st.approvers, loc[p].who) \in Seq(Approvers)
  BY <1>1 DEF State
<1>3. Approved(p) \in State
  BY <1>1, <1>2 DEF Approved, State
<1> QED BY <1>3 DEF Reanchor, Approved, Goto, TypeOK, Local

LEMMA TypeInit == Init => TypeOK
  BY ContainmentAssumption, NoStateType, NoLocalType
  DEF Init, TypeOK, Contents, PCs, Bounds

LEMMA TypeNext == TypeOK /\ [Next]_vars => TypeOK'
<1> SUFFICES ASSUME TypeOK, [Next]_vars PROVE TypeOK'
  OBVIOUS
<1> USE NoStateType, NoLocalType
<1>1. CASE UNCHANGED vars
  BY <1>1 DEF TypeOK, vars
<1>2. ASSUME NEW p \in Procs, HoldCheck(p) PROVE TypeOK'
  BY <1>2 DEF TypeOK, HoldCheck, ClaimReceipts, Goto, PCs, Bounds
<1>3. ASSUME NEW p \in Procs, NEW a \in Approvers, Approve(p, a) PROVE TypeOK'
  <2>1. [op |-> "approve", st |-> state, who |-> a, rid |-> 0] \in Local
    BY DEF TypeOK, Local, Ops
  <2> QED BY <1>3, <2>1 DEF TypeOK, Approve, ClaimReceipts, Acquire, PCs, Bounds
<1>4. ASSUME NEW p \in Procs, NEW a \in Approvers, Abort(p, a) PROVE TypeOK'
  <2>1. [op |-> "abort", st |-> state, who |-> a, rid |-> 0] \in Local
    BY DEF TypeOK, Local, Ops
  <2> QED BY <1>4, <2>1 DEF TypeOK, Abort, ClaimReceipts, Acquire, PCs, Bounds
<1>5. ASSUME NEW p \in Procs, Resume(p) PROVE TypeOK'
  <2> DEFINE l == [op |-> IF SnapshotReceipted(state) THEN "resume" ELSE "refuse",
                   st |-> state, who |-> NoOne, rid |-> 0]
  <2>1. l \in Local
    BY DEF TypeOK, Local, Ops
  <2>2. loc' = [loc EXCEPT ![p] = l]
    BY <1>5 DEF Resume, Acquire
  <2> HIDE DEF l
  <2>3. loc' \in [Procs -> Local]
    BY <2>1, <2>2 DEF TypeOK
  <2> QED BY <1>5, <2>3 DEF TypeOK, Resume, ClaimReceipts, Acquire, PCs, Bounds
<1>6. ASSUME NEW p \in Procs, HoldLock(p) PROVE TypeOK'
  <2> DEFINE h == [NoLocal EXCEPT !.op = "hold"]
             o == [NoLocal EXCEPT !.op = "open",
                                  !.st = [NoState EXCEPT !.required = Quorum[p],
                                                         !.pin = opKey]]
  <2>1. h \in Local /\ o \in Local
    BY ContainmentAssumption DEF TypeOK, Local, Ops, NoLocal, NoState, State
  <2> HIDE DEF h, o
  <2> QED BY <1>6, <2>1 DEF TypeOK, HoldLock, Acquire, PCs, h, o
<1>7. ASSUME NEW p \in Procs, HoldLockRefused(p) PROVE TypeOK'
  BY <1>7 DEF TypeOK, HoldLockRefused, Goto, PCs
<1>8. ASSUME NEW p \in Procs, Snapshot(p) PROVE TypeOK'
  <2> DEFINE l == [loc[p] EXCEPT !.st = [loc[p].st EXCEPT !.orig = policy, !.pin = opKey]]
  <2>1. loc' = [loc EXCEPT ![p] = l]
    BY <1>8 DEF Snapshot, TypeOK, Local, State
  <2>2. l \in Local
    BY DEF TypeOK, Local, State
  <2> HIDE DEF l
  <2>3. loc' \in [Procs -> Local]
    BY <2>1, <2>2 DEF TypeOK
  <2> QED BY <1>8, <2>3 DEF TypeOK, Snapshot, Goto, PCs
<1>9. ASSUME NEW p \in Procs, ApplyRefused(p) PROVE TypeOK'
  BY <1>9 DEF TypeOK, ApplyRefused, Release, PCs
<1>10. ASSUME NEW p \in Procs, WriteDenyAll(p) PROVE TypeOK'
  BY <1>10 DEF TypeOK, WriteDenyAll, Goto, PCs, Contents
<1>11. ASSUME NEW p \in Procs, AdoptAnchor(p) PROVE TypeOK'
  BY <1>11 DEF TypeOK, AdoptAnchor
<1>12. ASSUME NEW p \in Procs, AppendReceipt(p) PROVE TypeOK'
  <2> DEFINE l == [loc[p] EXCEPT !.rid = Len(receipts) + 1]
  <2>1. loc' = [loc EXCEPT ![p] = l]
    BY <1>12 DEF AppendReceipt, TypeOK, Local
  <2>2. l \in Local
    BY DEF TypeOK, Local
  <2> HIDE DEF l
  <2>3. loc' \in [Procs -> Local]
    BY <2>1, <2>2 DEF TypeOK
  <2>4. receipts' \in Seq(Receipt)
    BY <1>12, NextReceiptType DEF TypeOK, AppendReceipt
  <2> QED BY <1>12, <2>3, <2>4 DEF TypeOK, AppendReceipt, Goto, PCs
<1>13. ASSUME NEW p \in Procs, EmitRefused(p) PROVE TypeOK'
  BY <1>13 DEF TypeOK, EmitRefused, EmissionFailed, Release, Goto, PCs
<1>14. ASSUME NEW p \in Procs, Reanchor(p) PROVE TypeOK'
  <2> DEFINE h == [op |-> "hold", st |-> Approved(p), who |-> NoOne, rid |-> 0]
             a == [loc[p] EXCEPT !.st = Approved(p)]
  <2>3. loc' \in [Procs -> Local]
    <3>1. CASE loc[p].op = "approve"
      <4>1. h \in Local /\ a \in Local
        BY <1>14, <3>1, ReanchorApproval DEF TypeOK, Local, Ops
      <4>2. loc' = [loc EXCEPT ![p] = h] \/ loc' = [loc EXCEPT ![p] = a]
        BY <1>14, <3>1, ReanchorApproval
      <4> HIDE DEF h, a
      <4> QED BY <4>1, <4>2 DEF TypeOK
    <3>2. CASE loc[p].op # "approve"
      BY <1>14, <3>2 DEF Reanchor, Release, TypeOK, Local, Ops
    <3> QED BY <3>1, <3>2
  <2>4. lock' \in Procs \cup {NoProc} /\ pc' \in [Procs -> PCs]
    BY <1>14 DEF TypeOK, Reanchor, Release, Goto, PCs, Local, Ops
  <2> QED BY <1>14, <2>3, <2>4 DEF TypeOK, Reanchor
<1>15. ASSUME NEW p \in Procs, Rollback(p) PROVE TypeOK'
  BY <1>15 DEF TypeOK, Rollback, Release, PCs, Local, State
<1>16. ASSUME NEW p \in Procs, Persist(p) PROVE TypeOK'
  <2>1. state' \in State
    BY <1>16 DEF TypeOK, Persist, Local, State, Kinds
  <2> QED BY <1>16, <2>1 DEF TypeOK, Persist, Release, PCs
<1>17. ASSUME NEW p \in Procs, RestorePolicy(p) PROVE TypeOK'
  BY <1>17 DEF TypeOK, RestorePolicy, Goto, PCs, Local, State
<1>18. ASSUME NEW p \in Procs, VerifyRestore(p) PROVE TypeOK'
  BY <1>18 DEF TypeOK, VerifyRestore, Goto, Release, PCs
<1>19. ASSUME NEW p \in Procs, TruncateState(p) PROVE TypeOK'
  BY <1>19 DEF TypeOK, TruncateState, Goto, PCs, State, NoState, Kinds
<1>20. ASSUME NEW p \in Procs, UnlinkState(p) PROVE TypeOK'
  BY <1>20 DEF TypeOK, UnlinkState, Release, PCs
<1>21. ASSUME NEW p \in Procs, EmitFault(p) PROVE TypeOK'
  BY <1>21 DEF TypeOK, EmitFault, EmissionFailed, Release, Goto, PCs, Bounds
<1>22. ASSUME NEW p \in Procs, AnchorFault(p) PROVE TypeOK'
  BY <1>22 DEF TypeOK, AnchorFault, EmissionFailed, Release, Goto, PCs, Bounds
<1>23. ASSUME NEW p \in Procs, Crash(p) PROVE TypeOK'
  BY <1>23 DEF TypeOK, Crash, PCs, Bounds
<1>24. ASSUME NEW v \in Policies, Activate(v) PROVE TypeOK'
  BY <1>24 DEF TypeOK, Activate, Bounds, Contents
<1>25. ASSUME NEW k \in Keys, ReplaceKey(k) PROVE TypeOK'
  BY <1>25 DEF TypeOK, ReplaceKey, Bounds
<1>26. ASSUME NEW v \in Policies, Restamp(v) PROVE TypeOK'
  <2>1. state' \in State
    BY <1>26 DEF TypeOK, Restamp, State, Contents
  <2> QED BY <1>26, <2>1 DEF TypeOK, Restamp, Bounds
<1> QED
  BY <1>1, <1>2, <1>3, <1>4, <1>5, <1>6, <1>7, <1>8, <1>9, <1>10, <1>11, <1>12, <1>13,
     <1>14, <1>15, <1>16, <1>17, <1>18, <1>19, <1>20, <1>21, <1>22, <1>23, <1>24, <1>25,
     <1>26 DEF Next, Begin, Step

(* The files and the locals of every invocation always have their types. *)
THEOREM TypeCorrect == Spec => []TypeOK
  BY TypeInit, TypeNext, PTL DEF Spec

----------------------------------------------------------------------------
(* Mutual exclusion *)

LEMMA SoleWriterNext == TypeOK /\ SoleWriter /\ [Next]_vars => SoleWriter'
<1> SUFFICES ASSUME TypeOK, SoleWriter, [Next]_vars PROVE SoleWriter'
  OBVIOUS
<1>1. CASE UNCHANGED vars
  BY <1>1 DEF SoleWriter, vars
<1>2. ASSUME NEW p \in Procs, HoldCheck(p) \/ HoldLockRefused(p) PROVE SoleWriter'
  BY <1>2 DEF SoleWriter, TypeOK, HoldCheck, HoldLockRefused, Goto
<1>3. ASSUME NEW p \in Procs, NEW s \in PCs, NEW l \in Local, Acquire(p, s, l)
      PROVE  SoleWriter'
  BY <1>3, ContainmentAssumption DEF SoleWriter, TypeOK, Acquire
<1>4. ASSUME NEW p \in Procs, pc[p] \notin {"idle", "checked"}, Release(p)
      PROVE  SoleWriter'
  BY <1>4 DEF SoleWriter, TypeOK, Release
<1>5. ASSUME NEW p \in Procs, NEW s \in PCs, pc[p] \notin {"idle", "checked"},
             Goto(p, s), UNCHANGED lock
      PROVE  SoleWriter'
  BY <1>5 DEF SoleWriter, TypeOK, Goto
<1>6. ASSUME NEW p \in Procs, Begin(p) PROVE SoleWriter'
  <2>1. ASSUME NEW l, Acquire(p, "emit", l) PROVE SoleWriter'
    BY <2>1, ContainmentAssumption DEF SoleWriter, TypeOK, Acquire
  <2> QED BY <1>2, <1>6, <2>1 DEF Begin, Approve, Abort, Resume
<1>7. ASSUME NEW p \in Procs, HoldLock(p) PROVE SoleWriter'
  <2>1. ASSUME NEW s, NEW l, Acquire(p, s, l) PROVE SoleWriter'
    BY <2>1, ContainmentAssumption DEF SoleWriter, TypeOK, Acquire
  <2> QED BY <1>7, <2>1 DEF HoldLock
<1>8. ASSUME NEW p \in Procs, EmissionFailed(p), pc[p] \notin {"idle", "checked"}
      PROVE  SoleWriter'
  BY <1>4, <1>5, <1>8 DEF EmissionFailed, PCs
<1>9. ASSUME NEW p \in Procs, Step(p) PROVE SoleWriter'
  <2>1. CASE HoldLock(p) \/ HoldLockRefused(p)
    BY <1>2, <1>7, <2>1
  <2>2. CASE Snapshot(p) \/ WriteDenyAll(p) \/ AppendReceipt(p) \/ RestorePolicy(p)
             \/ TruncateState(p)
    BY <1>5, <2>2 DEF Snapshot, WriteDenyAll, AppendReceipt, RestorePolicy, TruncateState, PCs
  <2>3. CASE ApplyRefused(p) \/ Rollback(p) \/ Persist(p) \/ UnlinkState(p)
    BY <1>4, <2>3 DEF ApplyRefused, Rollback, Persist, UnlinkState
  <2>4. CASE AdoptAnchor(p)
    BY <2>4 DEF SoleWriter, AdoptAnchor
  <2>5. CASE EmitRefused(p)
    BY <1>8, <2>5 DEF EmitRefused
  <2>6. CASE Reanchor(p)
    <3>1. pc[p] = "reanchor" /\ loc[p].op \in Ops
      BY <2>6 DEF Reanchor, TypeOK, Local
    <3>2. Release(p) \/ (UNCHANGED lock /\ \E s \in PCs : Goto(p, s))
      BY <2>6, <3>1 DEF Reanchor, Ops, PCs
    <3> QED BY <1>4, <1>5, <3>1, <3>2
  <2>7. CASE VerifyRestore(p)
    BY <1>4, <1>5, <2>7 DEF VerifyRestore, PCs
  <2> QED BY <1>9, <2>1, <2>2, <2>3, <2>4, <2>5, <2>6, <2>7 DEF Step
<1>10. ASSUME NEW p \in Procs, EmitFault(p) \/ AnchorFault(p) PROVE SoleWriter'
  BY <1>8, <1>10 DEF EmitFault, AnchorFault
<1>11. ASSUME NEW p \in Procs, Crash(p) PROVE SoleWriter'
  BY <1>11 DEF SoleWriter, TypeOK, Crash
<1>12. CASE \/ \E v \in Policies : Activate(v) \/ Restamp(v)
            \/ \E k \in Keys : ReplaceKey(k)
  BY <1>12 DEF SoleWriter, Activate, ReplaceKey, Restamp
<1> QED
  BY <1>1, <1>6, <1>9, <1>10, <1>11, <1>12 DEF Next

(* Whatever operators race and whatever process dies, an invocation past its
   lock owns the flock: mutual exclusion for any number of processes. *)
THEOREM MutualExclusion == Spec => []SoleWriter
<1>1. Init => SoleWriter
  BY DEF Init, SoleWriter
<1> QED
  BY <1>1, TypeCorrect, SoleWriterNext, PTL DEF Spec

----------------------------------------------------------------------------
(* Held states and resumes are bound to their hold receipts.  The stream only
   grows, so what an invocation or the state file knows of a receipt stays
   true; no lock is needed for this part. *)

(* Receipt id is the hold receipt of a state with this pin. *)
HoldReceipt(id, pin) ==
    /\ id \in DOMAIN receipts
    /\ receipts[id].verdict = "hold"
    /\ receipts[id].pin = pin

(* What an invocation must know of the stream at each point. *)
LocalBound(p) ==
    LET l == loc[p] IN
    /\ l.op = "approve" => l.st.kind = "pending"
    /\ pc[p] \in {"snapshot", "deny"} => l.op = "hold"
    /\ pc[p] = "persist" => l.op \in {"hold", "open", "approve"}
    /\ pc[p] \in {"reanchor", "persist"} /\ l.op = "hold" => HoldReceipt(l.rid, l.st.pin)
    /\ l.op = "resume" => /\ HoldReceipt(l.st.rid, l.st.pin)
                          /\ receipts[l.st.rid].orig = l.st.orig

HeldBound == state.kind = "held" => HoldReceipt(state.rid, state.pin)

BindInv == HeldBound /\ (\A p \in Procs : LocalBound(p)) /\ ResumeMatchesHold

(* The receipts already in the stream stay where they are. *)
LEMMA StreamGrows ==
  ASSUME TypeOK, NEW p \in Procs, AppendReceipt(p)
  PROVE  /\ Len(receipts') = Len(receipts) + 1
         /\ DOMAIN receipts = 1 .. Len(receipts)
         /\ DOMAIN receipts' = 1 .. Len(receipts) + 1
         /\ \A i \in DOMAIN receipts : receipts'[i] = receipts[i]
         /\ receipts'[Len(receipts) + 1] = NextReceipt(p)
         /\ Len(receipts) \in Nat
  BY NextReceiptType DEF TypeOK, AppendReceipt

(* Every other step leaves the stream alone. *)
LEMMA StreamKept ==
  ASSUME TypeOK, [Next]_vars, ~ \E p \in Procs : AppendReceipt(p)
  PROVE  receipts' = receipts
  BY DEF Next, Begin, Step, vars, HoldCheck, Approve, Abort, Resume, HoldLock,
         HoldLockRefused, Snapshot, ApplyRefused, WriteDenyAll, AdoptAnchor, EmitRefused,
         Reanchor, Rollback, Persist, RestorePolicy, VerifyRestore, TruncateState,
         UnlinkState, EmitFault, AnchorFault, Crash, Activate, ReplaceKey, Restamp

LEMMA BindNext == TypeOK /\ BindInv /\ [Next]_vars => BindInv'
<1> SUFFICES ASSUME TypeOK, BindInv, [Next]_vars PROVE BindInv'
  OBVIOUS
<1>1. ASSUME NEW p \in Procs, AppendReceipt(p) PROVE BindInv'
  <2> DEFINE n == Len(receipts)
  <2>1. /\ n \in Nat
        /\ DOMAIN receipts = 1 .. n
        /\ DOMAIN receipts' = 1 .. n + 1
        /\ \A i \in DOMAIN receipts : receipts'[i] = receipts[i]
        /\ receipts'[n + 1] = NextReceipt(p)
    BY <1>1, StreamGrows
  <2>2. ASSUME NEW id, NEW pin, HoldReceipt(id, pin) PROVE HoldReceipt(id, pin)'
    BY <2>1, <2>2 DEF HoldReceipt
  <2>3. HeldBound'
    BY <1>1, <2>2 DEF BindInv, HeldBound, AppendReceipt
  <2>4. ASSUME NEW q \in Procs PROVE LocalBound(q)'
    <3>1. CASE q # p
      <4>1. loc'[q] = loc[q] /\ pc'[q] = pc[q]
        BY <1>1, <3>1 DEF AppendReceipt, Goto, TypeOK
      <4> QED BY <2>1, <2>2, <4>1 DEF BindInv, LocalBound, HoldReceipt
    <3>2. CASE q = p
      <4>1. /\ loc'[q].op = loc[q].op
            /\ loc'[q].st = loc[q].st
            /\ loc'[q].rid = n + 1
            /\ pc'[q] = "reanchor"
        BY <1>1, <3>2 DEF AppendReceipt, Goto, TypeOK, Local
      <4>2. loc[q].op = "hold" => /\ receipts'[n + 1].verdict = "hold"
                                  /\ receipts'[n + 1].pin = loc[q].st.pin
        BY <2>1, <3>2 DEF NextReceipt
      <4> QED BY <2>1, <2>2, <4>1, <4>2 DEF BindInv, LocalBound, HoldReceipt
    <3> QED BY <3>1, <3>2
  <2>5. ResumeMatchesHold'
    <3> SUFFICES ASSUME NEW i \in DOMAIN receipts', receipts'[i].verdict = "resume"
                 PROVE  /\ receipts'[i].ref \in 1 .. i - 1
                        /\ receipts'[receipts'[i].ref].verdict = "hold"
                        /\ receipts'[receipts'[i].ref].orig = receipts'[i].orig
                        /\ receipts'[receipts'[i].ref].pin = receipts'[i].pin
      BY DEF ResumeMatchesHold
    <3>1. CASE i \in DOMAIN receipts
      <4>1. receipts[i].ref \in 1 .. i - 1
        BY <2>1, <3>1 DEF BindInv, ResumeMatchesHold
      <4> QED BY <2>1, <3>1, <4>1 DEF BindInv, ResumeMatchesHold
    <3>2. CASE i = n + 1
      <4>1. loc[p].op = "resume"
        BY <2>1, <3>2 DEF NextReceipt, TypeOK, Local, Ops
      <4>2. /\ receipts'[i].ref = loc[p].st.rid
            /\ receipts'[i].orig = loc[p].st.orig
            /\ receipts'[i].pin = loc[p].st.pin
        BY <2>1, <3>2, <4>1 DEF NextReceipt
      <4>3. /\ loc[p].st.rid \in DOMAIN receipts
            /\ receipts[loc[p].st.rid].verdict = "hold"
            /\ receipts[loc[p].st.rid].orig = loc[p].st.orig
            /\ receipts[loc[p].st.rid].pin = loc[p].st.pin
        BY <4>1 DEF BindInv, LocalBound, HoldReceipt
      <4> QED BY <2>1, <3>2, <4>2, <4>3
    <3> QED BY <2>1, <3>1, <3>2
  <2> QED BY <2>3, <2>4, <2>5 DEF BindInv
<1>2. ASSUME ~ \E p \in Procs : AppendReceipt(p) PROVE BindInv'
  <2>1. receipts' = receipts
    BY <1>2, StreamKept
  <2>2. ResumeMatchesHold'
    BY <2>1 DEF BindInv, ResumeMatchesHold
  <2>3. ASSUME NEW q \in Procs, loc'[q] = loc[q], pc'[q] = pc[q] PROVE LocalBound(q)'
    BY <2>1, <2>3 DEF BindInv, LocalBound, HoldReceipt
  <2>4. ASSUME NEW q \in Procs, loc'[q] = NoLocal, pc'[q] = "idle" PROVE LocalBound(q)'
    BY <2>4 DEF LocalBound, NoLocal
  <2>5. ASSUME NEW q \in Procs, loc'[q] = loc[q],
               pc'[q] \notin {"snapshot", "deny", "reanchor", "persist"}
        PROVE  LocalBound(q)'
    BY <2>1, <2>5 DEF BindInv, LocalBound, HoldReceipt
  <2>6. ASSUME UNCHANGED state PROVE HeldBound'
    BY <2>1, <2>6 DEF BindInv, HeldBound, HoldReceipt
  <2>7. ASSUME NEW p \in Procs, pc' = [pc EXCEPT ![p] = pc'[p]], loc' = [loc EXCEPT ![p] = loc'[p]],
               LocalBound(p)'
        PROVE  \A q \in Procs : LocalBound(q)'
    BY <2>3, <2>7 DEF TypeOK
  <2>8. ASSUME NEW p \in Procs, Release(p) PROVE \A q \in Procs : LocalBound(q)'
    BY <2>4, <2>7, <2>8 DEF Release, TypeOK
  <2>9. ASSUME NEW p \in Procs, NEW s, s \notin {"snapshot", "deny", "reanchor", "persist"},
               Goto(p, s), UNCHANGED loc
        PROVE  \A q \in Procs : LocalBound(q)'
    <3>1. pc'[p] = s /\ loc'[p] = loc[p] /\ loc' = [loc EXCEPT ![p] = loc'[p]]
      BY <2>9 DEF Goto, TypeOK
    <3> QED BY <2>5, <2>7, <2>9, <3>1 DEF Goto
  <2>10. CASE UNCHANGED <<pc, loc>>
    <3>1. \A q \in Procs : LocalBound(q)'
      BY <2>3, <2>10
    <3>2. HeldBound'
      <4>1. CASE UNCHANGED state
        BY <2>6, <4>1
      <4>2. ASSUME NEW v \in Policies, Restamp(v) PROVE HeldBound'
        BY <2>1, <4>2 DEF Restamp, BindInv, HeldBound, HoldReceipt, TypeOK, State
      <4>3. UNCHANGED state \/ \E v \in Policies : Restamp(v)
        BY <2>10, <1>2 DEF Next, Begin, Step, vars, HoldCheck, Approve, Abort, Resume,
           HoldLock, HoldLockRefused, Snapshot, ApplyRefused, WriteDenyAll, AdoptAnchor,
           EmitRefused, Reanchor, Rollback, Persist, RestorePolicy, VerifyRestore,
           TruncateState, UnlinkState, EmitFault, AnchorFault, Crash, Activate, ReplaceKey,
           Goto, Release, TypeOK, PCs
      <4> QED BY <4>1, <4>2, <4>3
    <3> QED BY <2>2, <3>1, <3>2 DEF BindInv
  <2>11. ASSUME NEW p \in Procs, HoldCheck(p) \/ HoldLockRefused(p) \/ WriteDenyAll(p)
                                 \/ RestorePolicy(p)
         PROVE  BindInv'
    <3>1. \A q \in Procs : LocalBound(q)'
      BY <2>9, <2>11 DEF HoldCheck, HoldLockRefused, WriteDenyAll, RestorePolicy
    <3> QED BY <2>2, <2>6, <2>11, <3>1 DEF BindInv, HoldCheck, HoldLockRefused, WriteDenyAll,
                                            RestorePolicy
  <2>12. ASSUME NEW p \in Procs, NEW a \in Approvers, Approve(p, a) \/ Abort(p, a)
         PROVE  BindInv'
    <3>1. /\ pc' = [pc EXCEPT ![p] = pc'[p]] /\ loc' = [loc EXCEPT ![p] = loc'[p]]
          /\ loc'[p].op \in {"approve", "abort"} /\ loc'[p].st.kind = "pending"
          /\ pc'[p] = "emit" /\ UNCHANGED state
      BY <2>12 DEF Approve, Abort, Acquire, TypeOK
    <3> QED BY <2>2, <2>6, <2>7, <3>1 DEF BindInv, LocalBound
  <2>13. ASSUME NEW p \in Procs, Resume(p) PROVE BindInv'
    <3>1. /\ pc' = [pc EXCEPT ![p] = pc'[p]] /\ loc' = [loc EXCEPT ![p] = loc'[p]]
          /\ loc'[p].op \in {"resume", "refuse"} /\ loc'[p].st = state
          /\ loc'[p].op = "resume" => SnapshotReceipted(state)
          /\ state.kind = "held" /\ pc'[p] = "emit" /\ UNCHANGED state
      BY <2>13 DEF Resume, Acquire, TypeOK
    <3>2. LocalBound(p)'
      BY <2>1, <3>1 DEF LocalBound, HoldReceipt, SnapshotReceipted, BindInv, HeldBound
    <3> QED BY <2>2, <2>6, <2>7, <3>1, <3>2 DEF BindInv
  <2>14. ASSUME NEW p \in Procs, HoldLock(p) PROVE BindInv'
    <3>1. /\ pc' = [pc EXCEPT ![p] = pc'[p]] /\ loc' = [loc EXCEPT ![p] = loc'[p]]
          /\ \/ loc'[p].op = "hold" /\ pc'[p] = "snapshot"
             \/ loc'[p].op = "open" /\ pc'[p] = "emit"
          /\ UNCHANGED state
      BY <2>14 DEF HoldLock, Acquire, TypeOK, NoLocal
    <3> QED BY <2>2, <2>6, <2>7, <3>1 DEF BindInv, LocalBound
  <2>15. ASSUME NEW p \in Procs, Snapshot(p) PROVE BindInv'
    <3>1. /\ pc' = [pc EXCEPT ![p] = pc'[p]] /\ loc' = [loc EXCEPT ![p] = loc'[p]]
          /\ loc'[p].op = loc[p].op /\ loc'[p].st.kind = loc[p].st.kind
          /\ pc[p] = "snapshot" /\ pc'[p] = "deny" /\ UNCHANGED state
      BY <2>15 DEF Snapshot, Goto, TypeOK, Local, State
    <3> QED BY <2>2, <2>6, <2>7, <3>1 DEF BindInv, LocalBound
  <2>16. ASSUME NEW p \in Procs, pc[p] \notin {"idle", "checked"},
                EmissionFailed(p), UNCHANGED state
         PROVE  BindInv'
    BY <2>2, <2>6, <2>8, <2>9, <2>16 DEF BindInv, EmissionFailed
  <2>17. ASSUME NEW p \in Procs, \/ EmitRefused(p) \/ EmitFault(p) \/ AnchorFault(p)
         PROVE  BindInv'
    BY <2>16, <2>17 DEF EmitRefused, EmitFault, AnchorFault
  <2>18. ASSUME NEW p \in Procs, ApplyRefused(p) \/ Rollback(p) PROVE BindInv'
    BY <2>2, <2>6, <2>8, <2>18 DEF BindInv, ApplyRefused, Rollback
  <2>19. ASSUME NEW p \in Procs, VerifyRestore(p) PROVE BindInv'
    BY <2>2, <2>6, <2>8, <2>9, <2>19 DEF BindInv, VerifyRestore
  <2>20. ASSUME NEW p \in Procs, TruncateState(p) PROVE BindInv'
    <3>1. HeldBound'
      BY <2>20 DEF TruncateState, HeldBound, NoState
    <3> QED BY <2>2, <2>9, <2>20, <3>1 DEF BindInv, TruncateState
  <2>21. ASSUME NEW p \in Procs, UnlinkState(p) PROVE BindInv'
    <3>1. HeldBound'
      BY <2>21 DEF UnlinkState, HeldBound, NoState
    <3> QED BY <2>2, <2>8, <2>21, <3>1 DEF BindInv, UnlinkState
  <2>22. ASSUME NEW p \in Procs, Crash(p) PROVE BindInv'
    <3>1. /\ pc' = [pc EXCEPT ![p] = pc'[p]] /\ loc' = [loc EXCEPT ![p] = loc'[p]]
          /\ loc'[p] = NoLocal /\ pc'[p] = "idle" /\ UNCHANGED state
      BY <2>22 DEF Crash, TypeOK
    <3> QED BY <2>2, <2>4, <2>6, <2>7, <3>1 DEF BindInv
  <2>23. ASSUME NEW p \in Procs, Persist(p) PROVE BindInv'
    <3>1. HeldBound'
      <4>1. pc[p] = "persist" /\ loc[p].op \in {"hold", "open", "approve"}
        BY <2>23 DEF Persist, BindInv, LocalBound
      <4>2. CASE loc[p].op = "hold"
        <5>1. state'.rid = loc[p].rid /\ state'.pin = loc[p].st.pin
          BY <2>23, <4>2 DEF Persist, TypeOK, Local, State
        <5>2. HoldReceipt(loc[p].rid, loc[p].st.pin)
          BY <4>1, <4>2 DEF BindInv, LocalBound
        <5> QED BY <2>1, <5>1, <5>2 DEF HeldBound, HoldReceipt
      <4>3. CASE loc[p].op \in {"open", "approve"}
        <5>1. state'.kind = "pending"
          BY <2>23, <4>3 DEF Persist, TypeOK, Local, State, BindInv, LocalBound
        <5> QED BY <5>1 DEF HeldBound
      <4> QED BY <4>1, <4>2, <4>3
    <3> QED BY <2>2, <2>8, <2>23, <3>1 DEF BindInv, Persist
  <2>24. ASSUME NEW p \in Procs, Reanchor(p) PROVE BindInv'
    <3>1. pc[p] = "reanchor" /\ UNCHANGED state /\ loc[p].op \in Ops
      BY <2>24 DEF Reanchor, TypeOK, Local
    <3>2. CASE loc[p].op \in {"hold", "open"}
      <4>1. /\ pc' = [pc EXCEPT ![p] = pc'[p]] /\ loc' = [loc EXCEPT ![p] = loc'[p]]
            /\ loc'[p] = loc[p] /\ pc'[p] = "persist"
        BY <2>24, <3>2 DEF Reanchor, Goto, TypeOK
      <4>2. LocalBound(p)'
        BY <2>1, <3>1, <3>2, <4>1 DEF BindInv, LocalBound, HoldReceipt
      <4> QED BY <2>2, <2>6, <2>7, <3>1, <4>1, <4>2 DEF BindInv
    <3>3. CASE loc[p].op = "approve"
      <4>1. /\ pc' = [pc EXCEPT ![p] = pc'[p]] /\ loc' = [loc EXCEPT ![p] = loc'[p]]
            /\ \/ loc'[p].op = "hold" /\ pc'[p] = "snapshot"
               \/ /\ loc'[p].op = "approve" /\ pc'[p] = "persist"
                  /\ loc'[p].st.kind = loc[p].st.kind
        <5>1. Approved(p).kind = loc[p].st.kind
          BY DEF Approved, TypeOK, Local, State
        <5>2. CASE pc' = [pc EXCEPT ![p] = "snapshot"]
          <6>1. pc'[p] = "snapshot"
            BY <5>2 DEF TypeOK
          <6>2. loc' = [loc EXCEPT ![p] = [op |-> "hold", st |-> Approved(p),
                                           who |-> NoOne, rid |-> 0]]
            BY <2>24, <3>3, <6>1, ReanchorApproval DEF TypeOK
          <6> QED BY <5>2, <6>1, <6>2 DEF TypeOK
        <5>3. CASE pc' = [pc EXCEPT ![p] = "persist"]
          <6>1. [loc[p] EXCEPT !.st = Approved(p)].op = "approve"
                /\ [loc[p] EXCEPT !.st = Approved(p)].st = Approved(p)
            BY <3>3 DEF TypeOK, Local
          <6> QED BY <2>24, <3>3, <5>1, <5>3, <6>1, ReanchorApproval DEF TypeOK
        <5> QED BY <2>24, <3>3, <5>2, <5>3, ReanchorApproval
      <4>2. LocalBound(p)'
        BY <3>3, <4>1 DEF BindInv, LocalBound
      <4> QED BY <2>2, <2>6, <2>7, <3>1, <4>1, <4>2 DEF BindInv
    <3>4. CASE loc[p].op \in {"abort", "resume"}
      <4>1. \A q \in Procs : LocalBound(q)'
        BY <2>9, <2>24, <3>4 DEF Reanchor
      <4> QED BY <2>2, <2>6, <3>1, <4>1 DEF BindInv
    <3>5. CASE loc[p].op = "refuse"
      <4>1. \A q \in Procs : LocalBound(q)'
        BY <2>8, <2>24, <3>5 DEF Reanchor
      <4> QED BY <2>2, <2>6, <3>1, <4>1 DEF BindInv
    <3> QED BY <3>1, <3>2, <3>3, <3>4, <3>5 DEF Ops
  <2>25. ASSUME NEW p \in Procs, Begin(p) PROVE BindInv'
    BY <2>11, <2>12, <2>13, <2>25 DEF Begin
  <2>26. ASSUME NEW p \in Procs, Step(p) PROVE BindInv'
    <3>1. CASE AdoptAnchor(p)
      BY <2>10, <3>1 DEF AdoptAnchor
    <3> QED BY <1>2, <2>11, <2>14, <2>15, <2>17, <2>18, <2>19, <2>20, <2>21, <2>23, <2>24,
               <2>26, <3>1 DEF Step
  <2>27. CASE \/ UNCHANGED vars
              \/ \E v \in Policies : Activate(v) \/ Restamp(v)
              \/ \E k \in Keys : ReplaceKey(k)
    BY <2>10, <2>27 DEF vars, Activate, Restamp, ReplaceKey
  <2> QED BY <2>17, <2>22, <2>25, <2>26, <2>27 DEF Next
<1> QED BY <1>1, <1>2

LEMMA BindAlways == Spec => []BindInv
<1>1. Init => BindInv
  BY DEF Init, BindInv, HeldBound, LocalBound, ResumeMatchesHold, NoState, NoLocal
<1> QED BY <1>1, TypeCorrect, BindNext, PTL DEF Spec

(* A held state file is backed by a hold receipt in the stream, in every
   reachable state, whatever process dies at whatever point. *)
THEOREM HeldStatesAreReceipted == Spec => []HeldIsReceipted
<1>1. BindInv => HeldIsReceipted
  BY DEF BindInv, HeldBound, HoldReceipt, HeldIsReceipted
<1> QED BY <1>1, BindAlways, PTL

(* Every resume receipt names the bytes and the key of the hold it ends, even
   when the state file was rewritten in between. *)
THEOREM ResumesMatchTheirHolds == Spec => []ResumeMatchesHold
<1>1. BindInv => ResumeMatchesHold
  BY DEF BindInv
<1> QED BY <1>1, BindAlways, PTL

----------------------------------------------------------------------------
(* Quorums.  The approvers a state names are those whose approvals stand in the
   stream after the request it continues. *)

RollBacked(st) ==
    st.pending # 0 =>
        /\ st.pending \in DOMAIN receipts
        /\ receipts[st.pending].verdict = "pending"
        /\ receipts[st.pending].required = st.required
        /\ IsInjective(st.approvers)
        /\ \A a \in Range(st.approvers) :
             \E j \in DOMAIN receipts :
                 /\ j > st.pending
                 /\ receipts[j].verdict = "approval"
                 /\ receipts[j].who = a

(* What an invocation must know of it at each point: the request it is opening,
   the approval it has just receipted, the quorum of the hold it applies. *)
RollHeld(p) ==
    LET l == loc[p] IN
    /\ RollBacked(l.st)
    /\ l.op = "open" =>
          /\ l.st.approvers = <<>> /\ l.st.pending = 0
          /\ pc[p] \in {"reanchor", "persist"} =>
                /\ l.rid \in DOMAIN receipts
                /\ receipts[l.rid].verdict = "pending"
                /\ receipts[l.rid].required = l.st.required
    /\ l.op = "approve" /\ pc[p] \in {"emit", "reanchor"} =>
          l.who \notin Range(l.st.approvers)
    /\ l.op = "approve" /\ pc[p] = "reanchor" =>
          /\ l.rid \in DOMAIN receipts
          /\ l.rid > l.st.pending
          /\ receipts[l.rid].verdict = "approval"
          /\ receipts[l.rid].who = l.who
    /\ l.op = "hold" /\ l.st.pending # 0 => QuorumMet(l.st)

QuorumInv == RollBacked(state) /\ (\A p \in Procs : RollHeld(p)) /\ QuorumBacked

(* One approver more keeps the roll without repetition. *)
LEMMA RollGrows ==
  ASSUME NEW S, NEW s \in Seq(S), NEW a \in S, IsInjective(s), a \notin Range(s)
  PROVE  /\ IsInjective(Append(s, a))
         /\ Range(Append(s, a)) = Range(s) \cup {a}
<1> DEFINE t == Append(s, a)
<1>1. /\ Len(s) \in Nat
      /\ DOMAIN s = 1 .. Len(s)
      /\ DOMAIN t = 1 .. Len(s) + 1
      /\ \A i \in DOMAIN s : t[i] = s[i]
      /\ t[Len(s) + 1] = a
  OBVIOUS
<1> HIDE DEF t
<1>2. \A i \in DOMAIN s : s[i] # a
  BY DEF Range
<1>3. IsInjective(t)
  BY <1>1, <1>2 DEF IsInjective
<1>4. Range(t) = Range(s) \cup {a}
  BY <1>1 DEF Range
<1> QED BY <1>3, <1>4 DEF t

LEMMA QuorumNext == TypeOK /\ BindInv /\ QuorumInv /\ [Next]_vars => QuorumInv'
<1> SUFFICES ASSUME TypeOK, BindInv, QuorumInv, [Next]_vars PROVE QuorumInv'
  OBVIOUS
<1>1. ASSUME NEW p \in Procs, AppendReceipt(p) PROVE QuorumInv'
  <2> DEFINE n == Len(receipts)
  <2>1. /\ n \in Nat
        /\ DOMAIN receipts = 1 .. n
        /\ DOMAIN receipts' = 1 .. n + 1
        /\ \A i \in DOMAIN receipts : receipts'[i] = receipts[i]
        /\ receipts'[n + 1] = NextReceipt(p)
    BY <1>1, StreamGrows
  <2>2. ASSUME NEW st, RollBacked(st) PROVE RollBacked(st)'
    BY <2>1, <2>2 DEF RollBacked
  <2>3. RollBacked(state)'
    BY <1>1, <2>2 DEF QuorumInv, AppendReceipt
  <2>4. ASSUME NEW q \in Procs PROVE RollHeld(q)'
    <3>1. CASE q # p
      <4>1. loc'[q] = loc[q] /\ pc'[q] = pc[q]
        BY <1>1, <3>1 DEF AppendReceipt, Goto, TypeOK
      <4>2. RollHeld(q)
        BY DEF QuorumInv
      <4>3. RollBacked(loc[q].st)'
        BY <2>2, <4>1, <4>2 DEF RollHeld
      <4> QED BY <2>1, <4>1, <4>2, <4>3 DEF RollHeld, QuorumMet
    <3>2. CASE q = p
      <4>1. /\ loc'[q].op = loc[q].op
            /\ loc'[q].st = loc[q].st
            /\ loc'[q].who = loc[q].who
            /\ loc'[q].rid = n + 1
            /\ pc[q] = "emit" /\ pc'[q] = "reanchor"
        BY <1>1, <3>2 DEF AppendReceipt, Goto, TypeOK, Local
      <4>2. RollHeld(q)
        BY DEF QuorumInv
      <4>3. RollBacked(loc[q].st)'
        BY <2>2, <4>1, <4>2 DEF RollHeld
      <4>4. /\ loc[q].op = "open" => /\ receipts'[n + 1].verdict = "pending"
                                     /\ receipts'[n + 1].required = loc[q].st.required
            /\ loc[q].op = "approve" => /\ receipts'[n + 1].verdict = "approval"
                                        /\ receipts'[n + 1].who = loc[q].who
        BY <2>1, <3>2 DEF NextReceipt
      <4>5. n + 1 > loc[q].st.pending
        BY <2>1, <4>2 DEF RollHeld, RollBacked
      <4> QED BY <2>1, <4>1, <4>2, <4>3, <4>4, <4>5 DEF RollHeld, QuorumMet
    <3> QED BY <3>1, <3>2
  <2>5. QuorumBacked'
    <3> SUFFICES ASSUME NEW i \in DOMAIN receipts', receipts'[i].verdict = "hold",
                        receipts'[i].ref # 0
                 PROVE  /\ receipts'[i].ref < i
                        /\ receipts'[receipts'[i].ref].verdict = "pending"
                        /\ receipts'[receipts'[i].ref].required = receipts'[i].required
                        /\ Len(receipts'[i].roll) >= receipts'[i].required
                        /\ IsInjective(receipts'[i].roll)
                        /\ \A a \in Range(receipts'[i].roll) :
                             \E j \in receipts'[i].ref + 1 .. i - 1 :
                                 receipts'[j].verdict = "approval" /\ receipts'[j].who = a
      BY DEF QuorumBacked
    <3>1. CASE i \in DOMAIN receipts
      <4>0. receipts'[i] = receipts[i] /\ receipts[i] \in Receipt
        BY <2>1, <3>1 DEF TypeOK
      <4>1. receipts[i].ref \in Nat \ {0} /\ receipts[i].verdict = "hold"
        BY <4>0 DEF Receipt
      <4>2. /\ receipts[i].ref < i
            /\ receipts[receipts[i].ref].verdict = "pending"
            /\ receipts[receipts[i].ref].required = receipts[i].required
            /\ Len(receipts[i].roll) >= receipts[i].required
            /\ IsInjective(receipts[i].roll)
            /\ \A a \in Range(receipts[i].roll) :
                 \E j \in receipts[i].ref + 1 .. i - 1 :
                     receipts[j].verdict = "approval" /\ receipts[j].who = a
        BY <3>1, <4>1 DEF QuorumInv, QuorumBacked
      <4>3. \A j \in 1 .. i : receipts'[j] = receipts[j]
        BY <2>1, <3>1
      <4> QED BY <2>1, <3>1, <4>1, <4>2, <4>3
    <3>2. CASE i = n + 1
      <4>1. loc[p].op = "hold"
        BY <2>1, <3>2 DEF NextReceipt, TypeOK, Local, Ops
      <4>2. /\ receipts'[i].ref = loc[p].st.pending
            /\ receipts'[i].roll = loc[p].st.approvers
            /\ receipts'[i].required = loc[p].st.required
        BY <2>1, <3>2, <4>1 DEF NextReceipt
      <4>3. RollBacked(loc[p].st) /\ QuorumMet(loc[p].st)
        BY <4>1, <4>2 DEF QuorumInv, RollHeld
      <4> QED BY <2>1, <3>2, <4>2, <4>3 DEF RollBacked, QuorumMet
    <3> QED BY <2>1, <3>1, <3>2
  <2> QED BY <2>3, <2>4, <2>5 DEF QuorumInv
<1>2. ASSUME ~ \E p \in Procs : AppendReceipt(p) PROVE QuorumInv'
  <2>1. receipts' = receipts
    BY <1>2, StreamKept
  <2>2. QuorumBacked'
    BY <2>1 DEF QuorumInv, QuorumBacked
  <2>3. ASSUME NEW s, NEW t, RollBacked(s), t.pending = s.pending, t.required = s.required,
               t.approvers = s.approvers
        PROVE  RollBacked(t)'
    BY <2>1, <2>3 DEF RollBacked
  <2>4. ASSUME UNCHANGED state PROVE RollBacked(state)'
    BY <2>3, <2>4 DEF QuorumInv
  <2>5. ASSUME NEW q \in Procs, loc'[q] = loc[q],
               \/ pc'[q] = pc[q]
               \/ pc'[q] \notin {"emit", "reanchor", "persist"}
               \/ pc[q] = "reanchor" /\ pc'[q] = "persist"
               \/ pc'[q] = "emit" /\ loc[q].op = "hold"
        PROVE  RollHeld(q)'
    <3>1. RollHeld(q) /\ RollBacked(loc[q].st)'
      BY <2>3, <2>5 DEF QuorumInv, RollHeld
    <3> QED BY <2>1, <2>5, <3>1 DEF RollHeld, QuorumMet
  <2>6. ASSUME NEW q \in Procs, loc'[q] = NoLocal, pc'[q] = "idle" PROVE RollHeld(q)'
    BY <2>6 DEF RollHeld, RollBacked, NoLocal, NoState
  <2>7. ASSUME NEW p \in Procs, pc' = [pc EXCEPT ![p] = pc'[p]],
               loc' = [loc EXCEPT ![p] = loc'[p]], RollHeld(p)'
        PROVE  \A q \in Procs : RollHeld(q)'
    BY <2>5, <2>7 DEF TypeOK
  <2>8. ASSUME NEW p \in Procs, Release(p) PROVE \A q \in Procs : RollHeld(q)'
    BY <2>6, <2>7, <2>8 DEF Release, TypeOK
  <2>9. ASSUME NEW p \in Procs, NEW s, Goto(p, s), UNCHANGED loc,
               \/ s \notin {"emit", "reanchor", "persist"}
               \/ pc[p] = "reanchor" /\ s = "persist"
               \/ s = "emit" /\ loc[p].op = "hold"
        PROVE  \A q \in Procs : RollHeld(q)'
    <3>1. pc'[p] = s /\ loc'[p] = loc[p] /\ loc' = [loc EXCEPT ![p] = loc'[p]]
      BY <2>9 DEF Goto, TypeOK
    <3> QED BY <2>5, <2>7, <2>9, <3>1 DEF Goto
  <2>10. CASE UNCHANGED <<pc, loc>>
    <3>1. \A q \in Procs : RollHeld(q)'
      BY <2>5, <2>10
    <3>2. RollBacked(state)'
      <4>1. CASE UNCHANGED state
        BY <2>4, <4>1
      <4>2. ASSUME NEW v \in Policies, Restamp(v) PROVE RollBacked(state)'
        <5>1. /\ state'.pending = state.pending /\ state'.required = state.required
              /\ state'.approvers = state.approvers
          BY <4>2 DEF Restamp, TypeOK, State
        <5> QED BY <2>3, <5>1 DEF QuorumInv
      <4>3. UNCHANGED state \/ \E v \in Policies : Restamp(v)
        BY <2>10, <1>2 DEF Next, Begin, Step, vars, HoldCheck, Approve, Abort, Resume,
           HoldLock, HoldLockRefused, Snapshot, ApplyRefused, WriteDenyAll, AdoptAnchor,
           EmitRefused, Reanchor, Rollback, Persist, RestorePolicy, VerifyRestore,
           TruncateState, UnlinkState, EmitFault, AnchorFault, Crash, Activate, ReplaceKey,
           Goto, Release, TypeOK, PCs
      <4> QED BY <4>1, <4>2, <4>3
    <3> QED BY <2>2, <3>1, <3>2 DEF QuorumInv
  <2>11. ASSUME NEW p \in Procs, HoldCheck(p) \/ HoldLockRefused(p) \/ RestorePolicy(p)
         PROVE  QuorumInv'
    <3>1. \A q \in Procs : RollHeld(q)'
      BY <2>9, <2>11 DEF HoldCheck, HoldLockRefused, RestorePolicy
    <3> QED BY <2>2, <2>4, <2>11, <3>1 DEF QuorumInv, HoldCheck, HoldLockRefused, RestorePolicy
  <2>12. ASSUME NEW p \in Procs, WriteDenyAll(p) PROVE QuorumInv'
    <3>1. \A q \in Procs : RollHeld(q)'
      BY <2>9, <2>12 DEF WriteDenyAll, BindInv, LocalBound
    <3> QED BY <2>2, <2>4, <2>12, <3>1 DEF QuorumInv, WriteDenyAll
  <2>13. ASSUME NEW p \in Procs, NEW l, Acquire(p, "emit", l), l.st = state, UNCHANGED state,
                l.op \notin {"open", "hold"},
                l.op = "approve" => l.who \notin Range(state.approvers)
         PROVE  QuorumInv'
    <3>1. /\ pc' = [pc EXCEPT ![p] = pc'[p]] /\ loc' = [loc EXCEPT ![p] = loc'[p]]
          /\ loc'[p] = l /\ pc'[p] = "emit"
      BY <2>13 DEF Acquire, TypeOK
    <3>2. RollBacked(l.st)'
      BY <2>4, <2>13, <3>1
    <3>3. RollHeld(p)'
      BY <2>13, <3>1, <3>2 DEF RollHeld
    <3> QED BY <2>2, <2>4, <2>7, <2>13, <3>1, <3>3 DEF QuorumInv
  <2>14. ASSUME NEW p \in Procs, NEW a \in Approvers, Approve(p, a) \/ Abort(p, a)
         PROVE  QuorumInv'
    BY <2>13, <2>14 DEF Approve, Abort
  <2>15. ASSUME NEW p \in Procs, Resume(p) PROVE QuorumInv'
    BY <2>13, <2>15 DEF Resume
  <2>16. ASSUME NEW p \in Procs, HoldLock(p) PROVE QuorumInv'
    <3>1. /\ pc' = [pc EXCEPT ![p] = pc'[p]] /\ loc' = [loc EXCEPT ![p] = loc'[p]]
          /\ \/ loc'[p].op = "hold" /\ pc'[p] = "snapshot"
             \/ loc'[p].op = "open" /\ pc'[p] = "emit"
          /\ loc'[p].st.approvers = <<>> /\ loc'[p].st.pending = 0
          /\ UNCHANGED state
      <4>1. CASE Quorum[p] = 1
        BY <2>16, <4>1 DEF HoldLock, Acquire, TypeOK, NoLocal, NoState
      <4>2. CASE Quorum[p] # 1
        <5> DEFINE o == [NoLocal EXCEPT !.op = "open",
                                        !.st = [NoState EXCEPT !.required = Quorum[p],
                                                               !.pin = opKey]]
        <5>1. o.op = "open" /\ o.st.approvers = <<>> /\ o.st.pending = 0
          BY DEF NoLocal, NoState
        <5>2. Acquire(p, "emit", o) /\ UNCHANGED state
          BY <2>16, <4>2 DEF HoldLock
        <5> HIDE DEF o
        <5> QED BY <5>1, <5>2 DEF Acquire, TypeOK
      <4> QED BY <4>1, <4>2
    <3>2. RollHeld(p)'
      BY <3>1 DEF RollHeld, RollBacked
    <3> QED BY <2>2, <2>4, <2>7, <3>1, <3>2 DEF QuorumInv
  <2>17. ASSUME NEW p \in Procs, Snapshot(p) PROVE QuorumInv'
    <3>1. /\ pc' = [pc EXCEPT ![p] = pc'[p]] /\ loc' = [loc EXCEPT ![p] = loc'[p]]
          /\ loc'[p].op = "hold"
          /\ loc'[p].st.pending = loc[p].st.pending
          /\ loc'[p].st.required = loc[p].st.required
          /\ loc'[p].st.approvers = loc[p].st.approvers
          /\ pc'[p] = "deny" /\ loc[p].op = "hold" /\ UNCHANGED state
      <4>1. loc' = [loc EXCEPT ![p] = [loc[p] EXCEPT !.st = [loc[p].st EXCEPT !.orig = policy,
                                                                              !.pin = opKey]]]
        BY <2>17 DEF Snapshot, TypeOK, Local, State
      <4>2. loc[p].op = "hold"
        BY <2>17 DEF Snapshot, BindInv, LocalBound
      <4>3. /\ loc' = [loc EXCEPT ![p] = loc'[p]]
            /\ loc'[p].op = "hold"
            /\ loc'[p].st.pending = loc[p].st.pending
            /\ loc'[p].st.required = loc[p].st.required
            /\ loc'[p].st.approvers = loc[p].st.approvers
        BY <4>1, <4>2 DEF TypeOK, Local, State
      <4> QED BY <2>17, <4>2, <4>3 DEF Snapshot, Goto, TypeOK
    <3>2. RollHeld(p)
      BY DEF QuorumInv
    <3>3. RollBacked(loc[p].st)'
      BY <2>3, <3>1, <3>2 DEF RollHeld
    <3>4. loc[p].st.pending # 0 => QuorumMet(loc[p].st)
      BY <3>1, <3>2 DEF RollHeld
    <3>5. RollHeld(p)'
      BY <3>1, <3>3, <3>4 DEF RollHeld, QuorumMet
    <3> QED BY <2>2, <2>4, <2>7, <3>1, <3>5 DEF QuorumInv
  <2>18. ASSUME NEW p \in Procs, pc[p] \in {"emit", "reanchor"},
                EmissionFailed(p), UNCHANGED state
         PROVE  QuorumInv'
    BY <2>2, <2>4, <2>8, <2>9, <2>18 DEF QuorumInv, EmissionFailed
  <2>19. ASSUME NEW p \in Procs, \/ EmitRefused(p) \/ EmitFault(p) \/ AnchorFault(p)
         PROVE  QuorumInv'
    BY <2>18, <2>19 DEF EmitRefused, EmitFault, AnchorFault
  <2>20. ASSUME NEW p \in Procs, ApplyRefused(p) \/ Rollback(p) PROVE QuorumInv'
    BY <2>2, <2>4, <2>8, <2>20 DEF QuorumInv, ApplyRefused, Rollback
  <2>21. ASSUME NEW p \in Procs, VerifyRestore(p) PROVE QuorumInv'
    BY <2>2, <2>4, <2>8, <2>9, <2>21 DEF QuorumInv, VerifyRestore
  <2>22. ASSUME NEW p \in Procs, TruncateState(p) \/ UnlinkState(p) PROVE QuorumInv'
    <3>1. RollBacked(state)'
      BY <2>22 DEF TruncateState, UnlinkState, RollBacked, NoState
    <3> QED BY <2>2, <2>8, <2>9, <2>22, <3>1 DEF QuorumInv, TruncateState, UnlinkState
  <2>23. ASSUME NEW p \in Procs, Crash(p) PROVE QuorumInv'
    <3>1. /\ pc' = [pc EXCEPT ![p] = pc'[p]] /\ loc' = [loc EXCEPT ![p] = loc'[p]]
          /\ loc'[p] = NoLocal /\ pc'[p] = "idle" /\ UNCHANGED state
      BY <2>23 DEF Crash, TypeOK
    <3> QED BY <2>2, <2>4, <2>6, <2>7, <3>1 DEF QuorumInv
  <2>24. ASSUME NEW p \in Procs, Persist(p) PROVE QuorumInv'
    <3>1. pc[p] = "persist" /\ RollHeld(p) /\ loc[p].st \in State
      BY <2>24 DEF Persist, QuorumInv, TypeOK, Local
    <3>2. RollBacked(state)'
      <4>1. CASE loc[p].op = "open"
        <5>1. /\ state'.pending = loc[p].rid /\ state'.required = loc[p].st.required
              /\ state'.approvers = <<>>
          BY <2>24, <3>1, <4>1 DEF Persist, State, RollHeld
        <5> QED BY <2>1, <3>1, <4>1, <5>1 DEF RollBacked, RollHeld, IsInjective, Range
      <4>2. CASE loc[p].op # "open"
        <5>1. /\ state'.pending = loc[p].st.pending /\ state'.required = loc[p].st.required
              /\ state'.approvers = loc[p].st.approvers
          BY <2>24, <3>1, <4>2 DEF Persist, State
        <5> QED BY <2>3, <3>1, <5>1 DEF RollHeld
      <4> QED BY <4>1, <4>2
    <3> QED BY <2>2, <2>8, <2>24, <3>2 DEF QuorumInv, Persist
  <2>25. ASSUME NEW p \in Procs, Reanchor(p) PROVE QuorumInv'
    <3>1. pc[p] = "reanchor" /\ UNCHANGED state /\ loc[p].op \in Ops /\ RollHeld(p)
      BY <2>25 DEF Reanchor, TypeOK, Local, QuorumInv
    <3>2. CASE loc[p].op \in {"hold", "open", "abort", "resume"}
      <4>1. \A q \in Procs : RollHeld(q)'
        BY <2>9, <2>25, <3>1, <3>2 DEF Reanchor
      <4> QED BY <2>2, <2>4, <3>1, <4>1 DEF QuorumInv
    <3>3. CASE loc[p].op = "approve"
      <4>1. /\ loc[p].st \in State /\ loc[p].who \in Approvers
            /\ Approved(p).pending = loc[p].st.pending
            /\ Approved(p).required = loc[p].st.required
            /\ Approved(p).approvers = Append(loc[p].st.approvers, loc[p].who)
        BY <3>3 DEF TypeOK, Local, State, Approved
      <4>2. RollBacked(Approved(p))
        <5>1. loc[p].st.pending # 0 => IsInjective(loc[p].st.approvers)
          BY <3>1 DEF RollHeld, RollBacked
        <5>2. loc[p].st.pending # 0 =>
                 /\ IsInjective(Approved(p).approvers)
                 /\ Range(Approved(p).approvers) = Range(loc[p].st.approvers) \cup {loc[p].who}
          BY <3>1, <3>3, <4>1, <5>1, RollGrows DEF RollHeld, State
        <5> QED BY <3>1, <3>3, <4>1, <5>2 DEF RollHeld, RollBacked
      <4>3. /\ pc' = [pc EXCEPT ![p] = pc'[p]] /\ loc' = [loc EXCEPT ![p] = loc'[p]]
            /\ loc'[p].st = Approved(p)
            /\ \/ loc'[p].op = "hold" /\ pc'[p] = "snapshot" /\ QuorumMet(Approved(p))
               \/ loc'[p].op = "approve" /\ pc'[p] = "persist"
        <5>1. CASE pc' = [pc EXCEPT ![p] = "snapshot"]
          <6>1. pc'[p] = "snapshot"
            BY <5>1 DEF TypeOK
          <6>2. /\ loc' = [loc EXCEPT ![p] = [op |-> "hold", st |-> Approved(p),
                                              who |-> NoOne, rid |-> 0]]
                /\ QuorumMet(Approved(p))
            BY <2>25, <3>3, <6>1, ReanchorApproval DEF TypeOK
          <6> QED BY <5>1, <6>1, <6>2 DEF TypeOK
        <5>2. CASE pc' = [pc EXCEPT ![p] = "persist"]
          <6>1. /\ [loc[p] EXCEPT !.st = Approved(p)].op = "approve"
                /\ [loc[p] EXCEPT !.st = Approved(p)].st = Approved(p)
            BY <3>3 DEF TypeOK, Local
          <6> QED BY <2>25, <3>3, <5>2, <6>1, ReanchorApproval DEF TypeOK
        <5> QED BY <2>25, <3>3, <5>1, <5>2, ReanchorApproval
      <4>4. RollBacked(loc[p].st)'
        BY <2>3, <4>2, <4>3
      <4>5. RollHeld(p)'
        BY <4>3, <4>4 DEF RollHeld, QuorumMet
      <4> QED BY <2>2, <2>4, <2>7, <3>1, <4>3, <4>5 DEF QuorumInv
    <3>4. CASE loc[p].op = "refuse"
      <4>1. \A q \in Procs : RollHeld(q)'
        BY <2>8, <2>25, <3>4 DEF Reanchor
      <4> QED BY <2>2, <2>4, <3>1, <4>1 DEF QuorumInv
    <3> QED BY <3>1, <3>2, <3>3, <3>4 DEF Ops
  <2>26. ASSUME NEW p \in Procs, Begin(p) PROVE QuorumInv'
    BY <2>11, <2>14, <2>15, <2>26 DEF Begin
  <2>27. ASSUME NEW p \in Procs, Step(p) PROVE QuorumInv'
    <3>1. CASE AdoptAnchor(p)
      BY <2>10, <3>1 DEF AdoptAnchor
    <3> QED BY <1>2, <2>11, <2>12, <2>16, <2>17, <2>19, <2>20, <2>21, <2>22, <2>24, <2>25,
               <2>27, <3>1 DEF Step
  <2>28. CASE \/ UNCHANGED vars
              \/ \E v \in Policies : Activate(v) \/ Restamp(v)
              \/ \E k \in Keys : ReplaceKey(k)
    BY <2>10, <2>28 DEF vars, Activate, Restamp, ReplaceKey
  <2> QED BY <2>19, <2>23, <2>26, <2>27, <2>28 DEF Next
<1> QED BY <1>1, <1>2

----------------------------------------------------------------------------
(* The halt and the state file. *)

(* No invocation died and nobody else wrote the policy file. *)
Unshaken == used.crashes = 0 /\ used.activations = 0

Matched == policy = DenyAll <=> state.kind = "held"

(* What an invocation that has the lock finds in the two files at each point. *)
FilesAt(p) ==
    LET l == loc[p] IN
    CASE pc[p] = "snapshot" -> l.op = "hold" /\ policy # DenyAll /\ state.kind # "held"
      [] pc[p] = "deny"     -> /\ l.op = "hold" /\ policy # DenyAll /\ state.kind # "held"
                               /\ l.st.orig = policy
      [] pc[p] \in {"emit", "reanchor", "persist", "rollback"} ->
           IF l.op = "hold"
           THEN policy = DenyAll /\ l.st.orig # DenyAll /\ state.kind # "held"
           ELSE /\ Matched /\ pc[p] # "rollback"
                /\ l.op \in {"resume", "refuse"} => state.kind = "held"
                /\ l.op \in {"open", "approve", "abort"} => state.kind # "held"
      [] pc[p] = "restore"  -> l.op = "resume" /\ state.kind = "held"
      [] pc[p] = "verify"   -> l.op = "resume" /\ state.kind = "held" /\ policy = l.st.orig
      [] pc[p] = "truncate" -> policy # DenyAll
      [] pc[p] = "unlink"   -> policy # DenyAll /\ state.kind = "empty"
      [] OTHER              -> TRUE

HaltInv ==
    Unshaken =>
        /\ lock = NoProc => Matched
        /\ \A i \in DOMAIN receipts : receipts[i].verdict = "hold" => receipts[i].orig # DenyAll
        /\ \A p \in Procs : /\ FilesAt(p)
                            /\ loc[p].op = "resume" => loc[p].st.orig # DenyAll

(* What has been used up stays so, and a death or a failing anchor uses some. *)
LEMMA UsedGrows ==
  ASSUME TypeOK, [Next]_vars
  PROVE  /\ used'.crashes = 0 => /\ used.crashes = 0
                                 /\ ~ \E p \in Procs : Crash(p)
         /\ used'.anchorFaults = 0 => /\ used.anchorFaults = 0
                                      /\ ~ \E p \in Procs : AnchorFault(p)
         /\ used'.activations = 0 => /\ used.activations = 0
                                     /\ ~ \E v \in Policies : Activate(v)
<1>1. used \in Bounds
  BY DEF TypeOK
<1>2. \/ used' = used
      \/ \E n \in Nat : used' = [used EXCEPT !.receipts = @ + n]
      \/ used' = [used EXCEPT !.faults = @ + 1]
      \/ used' = [used EXCEPT !.anchorFaults = @ + 1]
      \/ used' = [used EXCEPT !.crashes = @ + 1]
      \/ used' = [used EXCEPT !.activations = @ + 1]
      \/ used' = [used EXCEPT !.swaps = @ + 1]
      \/ used' = [used EXCEPT !.restamps = @ + 1]
  <2>1. ASSUME NEW p \in Procs, Begin(p) PROVE \E n \in Nat : used' = [used EXCEPT !.receipts = @ + n]
    <3>1. 1 \in Nat /\ 2 \in Nat
      OBVIOUS
    <3> QED BY <2>1, <3>1 DEF Begin, HoldCheck, Approve, Abort, Resume, ClaimReceipts
  <2>2. ASSUME NEW p \in Procs, Step(p) PROVE used' = used
    BY <2>2 DEF Step, HoldLock, HoldLockRefused, Snapshot, ApplyRefused, WriteDenyAll, AdoptAnchor,
                AppendReceipt, EmitRefused, Reanchor, Rollback, Persist, RestorePolicy,
                VerifyRestore, TruncateState, UnlinkState
  <2> QED BY <2>1, <2>2 DEF Next, vars, EmitFault, AnchorFault, Crash, Activate, ReplaceKey, Restamp
<1>3. /\ used'.crashes = 0 => used.crashes = 0
      /\ used'.anchorFaults = 0 => used.anchorFaults = 0
      /\ used'.activations = 0 => used.activations = 0
  BY <1>1, <1>2 DEF Bounds
<1>4. ASSUME NEW p \in Procs, Crash(p) PROVE used'.crashes # 0
  BY <1>1, <1>4 DEF Crash, Bounds
<1>5. ASSUME NEW p \in Procs, AnchorFault(p) PROVE used'.anchorFaults # 0
  BY <1>1, <1>5 DEF AnchorFault, Bounds
<1>6. ASSUME NEW v \in Policies, Activate(v) PROVE used'.activations # 0
  BY <1>1, <1>6 DEF Activate, Bounds
<1> QED BY <1>3, <1>4, <1>5, <1>6

LEMMA HaltNext == TypeOK /\ SoleWriter /\ BindInv /\ HaltInv /\ [Next]_vars => HaltInv'
<1> SUFFICES ASSUME TypeOK, SoleWriter, BindInv, HaltInv, [Next]_vars, Unshaken'
             PROVE  /\ lock' = NoProc => Matched'
                    /\ \A i \in DOMAIN receipts' :
                          receipts'[i].verdict = "hold" => receipts'[i].orig # DenyAll
                    /\ \A p \in Procs : /\ FilesAt(p)'
                                        /\ loc'[p].op = "resume" => loc'[p].st.orig # DenyAll
  BY DEF HaltInv
<1> DEFINE ReceiptsOK == \A i \in DOMAIN receipts :
                            receipts[i].verdict = "hold" => receipts[i].orig # DenyAll
           SnapOK(p)  == loc[p].op = "resume" => loc[p].st.orig # DenyAll
           Goal       == /\ lock' = NoProc => Matched'
                         /\ ReceiptsOK'
                         /\ \A p \in Procs : FilesAt(p)' /\ SnapOK(p)'
<1> SUFFICES Goal
  OBVIOUS
<1>1. /\ Unshaken
      /\ ~ \E p \in Procs : Crash(p)
      /\ ~ \E v \in Policies : Activate(v)
  BY UsedGrows DEF Unshaken
<1>2. /\ lock = NoProc => Matched
      /\ ReceiptsOK
      /\ \A p \in Procs : FilesAt(p) /\ SnapOK(p)
  BY <1>1 DEF HaltInv
(* What is left to show of a step of one invocation. *)
<1>3. ASSUME NEW p \in Procs, lock \in {p, NoProc},
             pc' = [pc EXCEPT ![p] = pc'[p]], loc' = [loc EXCEPT ![p] = loc'[p]],
             FilesAt(p)', SnapOK(p)', lock' = NoProc => Matched', ReceiptsOK'
      PROVE  Goal
  <2>1. ASSUME NEW q \in Procs, q # p PROVE FilesAt(q)' /\ SnapOK(q)'
    <3>1. pc'[q] = pc[q] /\ loc'[q] = loc[q]
      BY <1>3, <2>1 DEF TypeOK
    <3>2. pc[q] \in {"idle", "checked"}
      BY <1>3, <2>1, ContainmentAssumption DEF SoleWriter
    <3> QED BY <1>2, <3>1, <3>2 DEF FilesAt
  <2> QED BY <1>3, <2>1
<1>4. ASSUME NEW p \in Procs, pc[p] \notin {"idle", "checked"}, Release(p), Matched',
             UNCHANGED receipts
      PROVE  Goal
  <2>1. /\ pc' = [pc EXCEPT ![p] = pc'[p]] /\ loc' = [loc EXCEPT ![p] = loc'[p]]
        /\ pc'[p] = "idle" /\ loc'[p] = NoLocal /\ lock = p
    BY <1>4 DEF Release, TypeOK, SoleWriter
  <2>2. FilesAt(p)' /\ SnapOK(p)'
    BY <2>1 DEF FilesAt, NoLocal
  <2>3. ReceiptsOK'
    BY <1>2, <1>4
  <2> HIDE DEF Goal
  <2> QED BY <1>3, <1>4, <2>1, <2>2, <2>3
<1>5. ASSUME NEW p \in Procs, NEW s, pc[p] \notin {"idle", "checked"}, Goto(p, s),
             UNCHANGED <<loc, lock, receipts>>, FilesAt(p)'
      PROVE  Goal
  <2>1. /\ pc' = [pc EXCEPT ![p] = pc'[p]] /\ loc' = [loc EXCEPT ![p] = loc'[p]]
        /\ loc'[p] = loc[p] /\ lock = p /\ lock' = p
    BY <1>5 DEF Goto, TypeOK, SoleWriter
  <2>2. SnapOK(p)' /\ ReceiptsOK'
    BY <1>2, <1>5, <2>1
  <2> HIDE DEF Goal
  <2> QED BY <1>3, <1>5, <2>1, <2>2, ContainmentAssumption
<1>6. ASSUME NEW p \in Procs, NEW s, NEW l, Acquire(p, s, l), UNCHANGED receipts, FilesAt(p)',
             l.op = "resume" => l.st.orig # DenyAll
      PROVE  Goal
  <2>1. /\ pc' = [pc EXCEPT ![p] = pc'[p]] /\ loc' = [loc EXCEPT ![p] = loc'[p]]
        /\ loc'[p] = l /\ lock = NoProc /\ lock' = p
    BY <1>6 DEF Acquire, TypeOK
  <2>2. SnapOK(p)' /\ ReceiptsOK'
    BY <1>2, <1>6, <2>1
  <2> HIDE DEF Goal
  <2> QED BY <1>3, <1>6, <2>1, <2>2, ContainmentAssumption
<1>7. ASSUME UNCHANGED <<pc, loc, lock, receipts, policy>>, state'.kind = state.kind PROVE Goal
  BY <1>2, <1>7 DEF Matched, FilesAt
<1>8. CASE \/ UNCHANGED vars
           \/ \E k \in Keys : ReplaceKey(k)
           \/ \E v \in Policies : Restamp(v)
           \/ \E p \in Procs : AdoptAnchor(p)
  <2>1. UNCHANGED <<pc, loc, lock, receipts, policy>>
    BY <1>8 DEF vars, ReplaceKey, Restamp, AdoptAnchor
  <2>2. state'.kind = state.kind
    BY <1>8 DEF vars, ReplaceKey, Restamp, AdoptAnchor, TypeOK, State
  <2> HIDE DEF Goal
  <2> QED BY <1>7, <2>1, <2>2
<1>9. ASSUME NEW p \in Procs, HoldCheck(p) \/ HoldLockRefused(p) PROVE Goal
  <2>1. /\ UNCHANGED <<policy, state, receipts, lock, loc>>
        /\ pc'[p] \in {"idle", "checked"}
        /\ \A q \in Procs : q # p => pc'[q] = pc[q]
    BY <1>9 DEF HoldCheck, HoldLockRefused, Goto, TypeOK
  <2>2. ASSUME NEW q \in Procs PROVE FilesAt(q)' /\ SnapOK(q)'
    <3>1. CASE q = p
      BY <1>2, <2>1, <3>1 DEF FilesAt
    <3>2. CASE q # p
      <4>1. FilesAt(q) /\ SnapOK(q) /\ pc'[q] = pc[q]
        BY <1>2, <2>1, <3>2
      <4> QED BY <2>1, <4>1 DEF FilesAt, Matched
    <3> QED BY <3>1, <3>2
  <2> QED BY <1>2, <2>1, <2>2 DEF Matched
<1>10. ASSUME NEW p \in Procs, NEW a \in Approvers, Approve(p, a) \/ Abort(p, a) PROVE Goal
  <2>1. PICK l : /\ Acquire(p, "emit", l) /\ l.op \in {"approve", "abort"}
                 /\ state.kind = "pending" /\ UNCHANGED <<policy, state, receipts>>
    BY <1>10 DEF Approve, Abort
  <2>2. pc'[p] = "emit" /\ loc'[p] = l /\ Matched
    BY <1>2, <2>1 DEF Acquire, TypeOK
  <2>3. FilesAt(p)'
    BY <2>1, <2>2 DEF FilesAt, Matched
  <2> HIDE DEF Goal
  <2> QED BY <1>6, <2>1, <2>3
<1>11. ASSUME NEW p \in Procs, Resume(p) PROVE Goal
  <2>1. PICK l : /\ Acquire(p, "emit", l) /\ l.op \in {"resume", "refuse"} /\ l.st = state
                 /\ l.op = "resume" => SnapshotReceipted(state)
                 /\ state.kind = "held" /\ state.rid \in DOMAIN receipts
                 /\ UNCHANGED <<policy, state, receipts>>
    BY <1>11 DEF Resume
  <2>2. pc'[p] = "emit" /\ loc'[p] = l /\ Matched
    BY <1>2, <2>1 DEF Acquire, TypeOK
  <2>3. FilesAt(p)'
    BY <2>1, <2>2 DEF FilesAt, Matched
  <2>4. l.op = "resume" => l.st.orig # DenyAll
    BY <1>2, <2>1 DEF SnapshotReceipted
  <2> HIDE DEF Goal
  <2> QED BY <1>6, <2>1, <2>3, <2>4
<1>12. ASSUME NEW p \in Procs, HoldLock(p) PROVE Goal
  <2>1. /\ pc' = [pc EXCEPT ![p] = pc'[p]] /\ loc' = [loc EXCEPT ![p] = loc'[p]]
        /\ \/ loc'[p].op = "hold" /\ pc'[p] = "snapshot"
           \/ loc'[p].op = "open" /\ pc'[p] = "emit"
        /\ lock = NoProc /\ lock' = p /\ state.kind = "absent"
        /\ UNCHANGED <<policy, state, receipts>>
    BY <1>12 DEF HoldLock, Acquire, TypeOK, NoLocal
  <2>2. FilesAt(p)' /\ SnapOK(p)'
    BY <1>2, <2>1 DEF FilesAt, Matched
  <2>3. ReceiptsOK'
    BY <1>2, <2>1
  <2> HIDE DEF Goal
  <2> QED BY <1>3, <2>1, <2>2, <2>3, ContainmentAssumption
<1>13. ASSUME NEW p \in Procs, Snapshot(p) PROVE Goal
  <2>1. /\ pc' = [pc EXCEPT ![p] = pc'[p]] /\ loc' = [loc EXCEPT ![p] = loc'[p]]
        /\ loc'[p].op = loc[p].op /\ loc'[p].st.orig = policy
        /\ pc[p] = "snapshot" /\ pc'[p] = "deny" /\ lock = p
        /\ UNCHANGED <<policy, state, receipts, lock>>
    <3>1. loc' = [loc EXCEPT ![p] = [loc[p] EXCEPT !.st = [loc[p].st EXCEPT !.orig = policy,
                                                                            !.pin = opKey]]]
      BY <1>13 DEF Snapshot, TypeOK, Local, State
    <3>2. /\ loc' = [loc EXCEPT ![p] = loc'[p]]
          /\ loc'[p].op = loc[p].op /\ loc'[p].st.orig = policy
      BY <3>1 DEF TypeOK, Local, State
    <3> QED BY <1>13, <3>2 DEF Snapshot, Goto, TypeOK, SoleWriter
  <2>2. FilesAt(p)' /\ SnapOK(p)'
    BY <1>2, <2>1 DEF FilesAt
  <2>3. ReceiptsOK'
    BY <1>2, <2>1
  <2> HIDE DEF Goal
  <2> QED BY <1>3, <2>1, <2>2, <2>3, ContainmentAssumption
<1>14. ASSUME NEW p \in Procs, WriteDenyAll(p) PROVE Goal
  <2>1. FilesAt(p)'
    BY <1>2, <1>14 DEF FilesAt, WriteDenyAll, Goto, TypeOK
  <2> HIDE DEF Goal
  <2> QED BY <1>5, <1>14, <2>1 DEF WriteDenyAll
<1>15. ASSUME NEW p \in Procs, AppendReceipt(p) PROVE Goal
  <2>1. /\ pc' = [pc EXCEPT ![p] = pc'[p]] /\ loc' = [loc EXCEPT ![p] = loc'[p]]
        /\ loc'[p].op = loc[p].op /\ loc'[p].st = loc[p].st
        /\ pc[p] = "emit" /\ pc'[p] = "reanchor" /\ lock = p
        /\ UNCHANGED <<policy, state, lock>>
    BY <1>15 DEF AppendReceipt, Goto, TypeOK, Local, SoleWriter
  <2>2. FilesAt(p)' /\ SnapOK(p)'
    BY <1>2, <2>1 DEF FilesAt, Matched
  <2>3. ReceiptsOK'
    <3>1. NextReceipt(p).verdict = "hold" => loc[p].op = "hold"
      BY DEF NextReceipt, TypeOK, Local, Ops
    <3>2. NextReceipt(p).orig = loc[p].st.orig
      BY DEF NextReceipt
    <3>3. loc[p].op = "hold" => loc[p].st.orig # DenyAll
      BY <1>2, <2>1 DEF FilesAt
    <3> QED BY <1>2, <1>15, <3>1, <3>2, <3>3, StreamGrows
  <2> HIDE DEF Goal
  <2> QED BY <1>3, <2>1, <2>2, <2>3, ContainmentAssumption
<1>16. ASSUME NEW p \in Procs, pc[p] \in {"emit", "reanchor"}, EmissionFailed(p),
              UNCHANGED <<policy, state, receipts>>
       PROVE  Goal
  <2>1. CASE loc[p].op = "hold"
    <3>1. Goto(p, "rollback") /\ UNCHANGED <<lock, loc>>
      BY <1>16, <2>1 DEF EmissionFailed
    <3>2. FilesAt(p)'
      BY <1>2, <1>16, <2>1, <3>1 DEF FilesAt, Goto, TypeOK
    <3> HIDE DEF Goal
    <3> QED BY <1>5, <1>16, <3>1, <3>2
  <2>2. CASE loc[p].op # "hold"
    <3>1. Matched'
      BY <1>2, <1>16, <2>2 DEF FilesAt, Matched
    <3> HIDE DEF Goal
    <3> QED BY <1>4, <1>16, <2>2, <3>1 DEF EmissionFailed
  <2> QED BY <2>1, <2>2
<1>17. ASSUME NEW p \in Procs, EmitRefused(p) \/ EmitFault(p) \/ AnchorFault(p) PROVE Goal
  <2> HIDE DEF Goal
  <2> QED BY <1>16, <1>17 DEF EmitRefused, EmitFault, AnchorFault
<1>18. ASSUME NEW p \in Procs, ApplyRefused(p) \/ Rollback(p) PROVE Goal
  <2>1. Matched'
    <3>1. CASE ApplyRefused(p)
      BY <1>2, <3>1 DEF ApplyRefused, FilesAt, Matched
    <3>2. CASE Rollback(p)
      BY <1>2, <3>2 DEF Rollback, FilesAt, Matched
    <3> QED BY <1>18, <3>1, <3>2
  <2> HIDE DEF Goal
  <2> QED BY <1>4, <1>18, <2>1 DEF ApplyRefused, Rollback
<1>19. ASSUME NEW p \in Procs, Persist(p) PROVE Goal
  <2>1. pc[p] = "persist" /\ loc[p].op \in {"hold", "open", "approve"}
    BY <1>19 DEF Persist, BindInv, LocalBound
  <2>2. state'.kind = IF loc[p].op = "hold" THEN "held" ELSE "pending"
    BY <1>19, <2>1 DEF Persist, TypeOK, Local, State, BindInv, LocalBound
  <2>3. Matched'
    BY <1>2, <1>19, <2>1, <2>2 DEF FilesAt, Matched, Persist
  <2> HIDE DEF Goal
  <2> QED BY <1>4, <1>19, <2>3 DEF Persist
<1>20. ASSUME NEW p \in Procs, Reanchor(p) PROVE Goal
  <2>1. /\ pc[p] = "reanchor" /\ loc[p].op \in Ops /\ lock = p
        /\ UNCHANGED <<policy, state, receipts>>
    BY <1>20 DEF Reanchor, TypeOK, Local, SoleWriter
  <2>2. CASE loc[p].op \in {"hold", "open", "abort", "resume"}
    <3>1. PICK s : /\ Goto(p, s) /\ UNCHANGED <<lock, loc>>
                   /\ s = CASE loc[p].op = "abort"  -> "truncate"
                            [] loc[p].op = "resume" -> "restore"
                            [] OTHER                -> "persist"
      BY <1>20, <2>2 DEF Reanchor
    <3>2. FilesAt(p)'
      BY <1>2, <2>1, <2>2, <3>1 DEF FilesAt, Goto, TypeOK, Matched
    <3> HIDE DEF Goal
    <3> QED BY <1>5, <2>1, <3>1, <3>2
  <2>3. CASE loc[p].op = "approve"
    <3>1. /\ pc' = [pc EXCEPT ![p] = pc'[p]] /\ loc' = [loc EXCEPT ![p] = loc'[p]]
          /\ \/ loc'[p].op = "hold" /\ pc'[p] = "snapshot"
             \/ loc'[p].op = "approve" /\ pc'[p] = "persist"
      <4>1. CASE pc' = [pc EXCEPT ![p] = "snapshot"]
        <5>1. pc'[p] = "snapshot"
          BY <4>1 DEF TypeOK
        <5>2. loc' = [loc EXCEPT ![p] = [op |-> "hold", st |-> Approved(p),
                                         who |-> NoOne, rid |-> 0]]
          BY <1>20, <2>3, <5>1, ReanchorApproval DEF TypeOK
        <5> QED BY <4>1, <5>1, <5>2 DEF TypeOK
      <4>2. CASE pc' = [pc EXCEPT ![p] = "persist"]
        <5>1. [loc[p] EXCEPT !.st = Approved(p)].op = "approve"
          BY <2>3 DEF TypeOK, Local
        <5> QED BY <1>20, <2>3, <4>2, <5>1, ReanchorApproval DEF TypeOK
      <4> QED BY <1>20, <2>3, <4>1, <4>2, ReanchorApproval
    <3>2. FilesAt(p)' /\ SnapOK(p)'
      BY <1>2, <2>1, <2>3, <3>1 DEF FilesAt, Matched
    <3>3. UNCHANGED lock /\ ReceiptsOK'
      BY <1>2, <1>20, <2>1, <2>3 DEF Reanchor
    <3> HIDE DEF Goal
    <3> QED BY <1>3, <2>1, <3>1, <3>2, <3>3, ContainmentAssumption
  <2>4. CASE loc[p].op = "refuse"
    <3>1. Matched'
      BY <1>2, <2>1, <2>4 DEF FilesAt, Matched
    <3> HIDE DEF Goal
    <3> QED BY <1>4, <1>20, <2>1, <2>4, <3>1 DEF Reanchor
  <2> QED BY <2>1, <2>2, <2>3, <2>4 DEF Ops
<1>21. ASSUME NEW p \in Procs, RestorePolicy(p) PROVE Goal
  <2>1. FilesAt(p)'
    BY <1>2, <1>21 DEF FilesAt, RestorePolicy, Goto, TypeOK
  <2> HIDE DEF Goal
  <2> QED BY <1>5, <1>21, <2>1 DEF RestorePolicy
<1>22. ASSUME NEW p \in Procs, VerifyRestore(p) PROVE Goal
  <2>1. /\ pc[p] = "verify" /\ policy = loc[p].st.orig /\ policy # DenyAll
        /\ UNCHANGED <<policy, state, receipts>>
    BY <1>2, <1>22 DEF VerifyRestore, FilesAt
  <2>2. Goto(p, "truncate") /\ UNCHANGED <<lock, loc>>
    BY <1>22, <2>1 DEF VerifyRestore
  <2>3. FilesAt(p)'
    BY <2>1, <2>2 DEF FilesAt, Goto, TypeOK
  <2> HIDE DEF Goal
  <2> QED BY <1>5, <2>1, <2>2, <2>3
<1>23. ASSUME NEW p \in Procs, TruncateState(p) PROVE Goal
  <2>1. FilesAt(p)'
    BY <1>2, <1>23 DEF FilesAt, TruncateState, Goto, TypeOK, NoState
  <2> HIDE DEF Goal
  <2> QED BY <1>5, <1>23, <2>1 DEF TruncateState
<1>24. ASSUME NEW p \in Procs, UnlinkState(p) PROVE Goal
  <2>1. Matched'
    BY <1>2, <1>24 DEF FilesAt, UnlinkState, NoState, Matched
  <2> HIDE DEF Goal
  <2> QED BY <1>4, <1>24, <2>1 DEF UnlinkState
<1> HIDE DEF Goal
<1>25. ASSUME NEW p \in Procs, Begin(p) \/ Step(p) PROVE Goal
  BY <1>8, <1>9, <1>10, <1>11, <1>12, <1>13, <1>14, <1>15, <1>17, <1>18, <1>19, <1>20,
     <1>21, <1>22, <1>23, <1>24, <1>25 DEF Begin, Step
<1> QED BY <1>1, <1>8, <1>17, <1>25 DEF Next

----------------------------------------------------------------------------
(* The anchor and the stream. *)

(* The anchor lags behind the stream only while an invocation is about to write it. *)
AnchorInv ==
    used.crashes = 0 /\ used.anchorFaults = 0 => NoGap \/ \E p \in Procs : pc[p] = "reanchor"

LEMMA AnchorNext == TypeOK /\ AnchorInv /\ [Next]_vars => AnchorInv'
<1> SUFFICES ASSUME TypeOK, AnchorInv, [Next]_vars,
                    used'.crashes = 0, used'.anchorFaults = 0
             PROVE  NoGap' \/ \E p \in Procs : pc'[p] = "reanchor"
  BY DEF AnchorInv
<1>1. /\ used.crashes = 0 /\ used.anchorFaults = 0
      /\ ~ \E p \in Procs : Crash(p) \/ AnchorFault(p)
  BY UsedGrows
<1>2. NoGap \/ \E p \in Procs : pc[p] = "reanchor"
  BY <1>1 DEF AnchorInv
<1>3. ASSUME NEW p \in Procs, AppendReceipt(p) \/ Reanchor(p) \/ AdoptAnchor(p)
      PROVE  NoGap' \/ \E q \in Procs : pc'[q] = "reanchor"
  BY <1>2, <1>3 DEF AppendReceipt, Reanchor, AdoptAnchor, Goto, NoGap, TypeOK
<1>4. ASSUME ~ \E p \in Procs : AppendReceipt(p) \/ Reanchor(p) \/ AdoptAnchor(p)
      PROVE  /\ UNCHANGED <<receipts, anchor>>
             /\ \A q \in Procs : pc[q] = "reanchor" => pc'[q] = "reanchor"
  BY <1>1, <1>4
  DEF Next, Begin, Step, vars, HoldCheck, Approve, Abort, Resume, HoldLock,
      HoldLockRefused, Snapshot, ApplyRefused, WriteDenyAll, EmitRefused, EmissionFailed,
      Rollback, Persist, RestorePolicy, VerifyRestore, TruncateState,
      UnlinkState, EmitFault, Activate, ReplaceKey, Restamp, Goto, Acquire, Release, TypeOK
<1> QED BY <1>2, <1>3, <1>4 DEF NoGap

----------------------------------------------------------------------------
(* The receipt stream refines HaltTrail. *)

(* The state file says what the newest receipt says. *)
StateMatch ==
    \/ state.kind = "absent" /\ Audit!Running
    \/ /\ state.kind = "pending" /\ Audit!Pending
       /\ state.required > 0
       /\ Audit!Newest.required = state.required
       /\ Audit!Valid = state.approvers
    \/ /\ state.kind = "held" /\ Audit!Held
       /\ Audit!Newest.required = state.required
       /\ Audit!Newest.roll = state.approvers

(* An applied hold may be receipted now: nothing is held, or a quorum is met. *)
HoldReady(l) ==
    \/ Audit!Running /\ l.st.required = 0 /\ l.st.approvers = <<>>
    \/ /\ Audit!Pending /\ Audit!QuorumMet
       /\ l.st.required = Audit!Newest.required
       /\ l.st.approvers = Audit!Roll

SameRoll(l) == l.st.required = state.required /\ l.st.approvers = state.approvers

(* Before its receipt an invocation agrees with the newest one. *)
BeforeReceipt(l) ==
    /\ StateMatch
    /\ CASE l.op = "hold" -> HoldReady(l) /\ l.who = NoOne
         [] l.op = "open" -> /\ state.kind = "absent" /\ l.who = NoOne
                             /\ l.st.required \in {Quorum[p] : p \in Procs} \ {1}
                             /\ l.st.approvers = <<>>
         [] l.op \in {"approve", "abort"} ->
               /\ state.kind = "pending" /\ SameRoll(l) /\ l.who \in Approvers
               /\ l.op = "approve" => l.who \notin Range(l.st.approvers)
         [] OTHER -> state.kind = "held" /\ SameRoll(l) /\ l.who = NoOne

(* After it the newest receipt is its own. *)
AfterReceipt(l) ==
    /\ Audit!Newest.required = l.st.required
    /\ CASE l.op = "hold" -> Audit!Newest.verdict = "hold" /\ Audit!Newest.roll = l.st.approvers
         [] l.op = "open" -> /\ Audit!Newest.verdict = "pending"
                             /\ l.st.required > 0 /\ l.st.approvers = <<>>
         [] l.op = "approve" -> /\ Audit!Newest.verdict = "approval" /\ l.st.required > 0
                                /\ Audit!Newest.roll = l.st.approvers
                                /\ Audit!Newest.who = l.who
                                /\ state.kind = "pending" /\ SameRoll(l)
         [] l.op = "abort"  -> Audit!Newest.verdict = "abort"
         [] l.op = "resume" -> Audit!Newest.verdict = "resume"
         [] OTHER -> /\ Audit!Newest.verdict = "resume_refused"
                     /\ Audit!Newest.roll = l.st.approvers
                     /\ state.kind = "held" /\ SameRoll(l)

TrailAt(p) ==
    LET l == loc[p] IN
    CASE pc[p] \in {"snapshot", "deny", "rollback"} -> l.op = "hold" /\ BeforeReceipt(l)
      [] pc[p] = "emit"     -> BeforeReceipt(l)
      [] pc[p] = "reanchor" -> AfterReceipt(l)
      [] pc[p] = "persist"  ->
           IF l.op = "approve"
           THEN /\ Audit!Newest.verdict = "approval" /\ ~ Audit!QuorumMet
                /\ l.st.kind = "pending" /\ l.st.required > 0
                /\ Audit!Newest.required = l.st.required
                /\ Audit!Roll = l.st.approvers
           ELSE l.op \in {"hold", "open"} /\ AfterReceipt(l)
      [] pc[p] \in {"restore", "verify", "truncate", "unlink"} -> Audit!Running
      [] OTHER -> TRUE

TrailInv ==
    Undisturbed => /\ lock = NoProc => StateMatch
                   /\ \A p \in Procs : TrailAt(p)

LEMMA Audited ==
  ASSUME NEW rs \in Seq(Receipt)
  PROVE  LET t == [i \in DOMAIN rs |-> AuditEntry(rs[i])] IN
         /\ t \in Seq(Audit!Entry)
         /\ Len(t) = Len(rs)
         /\ \A i \in 1 .. Len(rs) : t[i] = AuditEntry(rs[i])
<1>1. /\ DOMAIN rs = 1 .. Len(rs) /\ Len(rs) \in Nat
      /\ \A i \in 1 .. Len(rs) : rs[i] \in Receipt
  OBVIOUS
<1>2. ASSUME NEW r \in Receipt PROVE AuditEntry(r) \in Audit!Entry
  BY DEF AuditEntry, Audit!Entry, Receipt, Verdicts
<1>3. \A i \in 1 .. Len(rs) : AuditEntry(rs[i]) \in Audit!Entry
  BY <1>1, <1>2
<1>4. [i \in DOMAIN rs |-> AuditEntry(rs[i])] = [i \in 1 .. Len(rs) |-> AuditEntry(rs[i])]
  BY <1>1
<1> QED BY <1>1, <1>3, <1>4, IsASeq

LEMMA TrailShape ==
  ASSUME TypeOK
  PROVE  /\ Trail \in Seq(Audit!Entry)
         /\ Len(Trail) = Len(receipts)
         /\ \A i \in 1 .. Len(receipts) : Trail[i] = AuditEntry(receipts[i])
  BY Audited DEF TypeOK, Trail

(* The newest entry is the newest receipt; before the first one the stop is off. *)
LEMMA NewestType ==
  ASSUME TypeOK
  PROVE  /\ Audit!Newest \in Audit!Entry
         /\ Audit!Roll \in Seq(Approvers) \/ Audit!Newest.verdict = "approval"
<1>1. Audit!Start \in Audit!Entry
  BY DEF Audit!Start, Audit!Entry
<1>2. Trail # <<>> => Trail[Len(Trail)] \in Audit!Entry
  BY TrailShape
<1> QED BY <1>1, <1>2 DEF Audit!Newest, Audit!Roll

LEMMA TrailGrows ==
  ASSUME TypeOK, TypeOK', NEW p \in Procs, AppendReceipt(p)
  PROVE  /\ Trail' = Append(Trail, AuditEntry(NextReceipt(p)))
         /\ Audit!Newest' = AuditEntry(NextReceipt(p))
<1> DEFINE n == Len(receipts)
           e == AuditEntry(NextReceipt(p))
           t == Append(Trail, e)
<1>1. /\ n \in Nat /\ DOMAIN receipts = 1 .. n /\ Len(receipts') = n + 1
      /\ \A i \in DOMAIN receipts : receipts'[i] = receipts[i]
      /\ receipts'[n + 1] = NextReceipt(p)
  BY StreamGrows
<1>2. e \in Audit!Entry
  BY NextReceiptType DEF AuditEntry, Audit!Entry, Receipt, Verdicts
<1>3. /\ Trail \in Seq(Audit!Entry) /\ Len(Trail) = n
      /\ \A i \in 1 .. n : Trail[i] = AuditEntry(receipts[i])
  BY TrailShape
<1>4. /\ Trail' \in Seq(Audit!Entry) /\ Len(Trail') = n + 1
      /\ \A i \in 1 .. n + 1 : Trail'[i] = AuditEntry(receipts'[i])
  <2>1. receipts' \in Seq(Receipt)
    BY DEF TypeOK
  <2>2. Trail' = [i \in DOMAIN receipts' |-> AuditEntry(receipts'[i])]
    BY DEF Trail, AuditEntry
  <2> QED BY <1>1, <2>1, <2>2, Audited
<1> HIDE DEF e
<1>5. /\ t \in Seq(Audit!Entry) /\ Len(t) = n + 1
      /\ \A i \in 1 .. n : t[i] = Trail[i]
      /\ t[n + 1] = e
  BY <1>1, <1>2, <1>3
<1>6. \A i \in 1 .. n + 1 : Trail'[i] = t[i]
  BY <1>1, <1>3, <1>4, <1>5 DEF e
<1> HIDE DEF t
<1>7. Trail' = t
  BY <1>4, <1>5, <1>6, SeqEqual
<1>8. Audit!Newest' = e
  BY <1>1, <1>4, <1>5, <1>6, <1>7 DEF Audit!Newest
<1> QED BY <1>7, <1>8 DEF t, e

(* What the auditor sees changes only with the stream. *)
LEMMA TrailKept ==
  ASSUME receipts' = receipts
  PROVE  /\ Trail' = Trail
         /\ Audit!Newest' = Audit!Newest
         /\ Audit!Running' <=> Audit!Running
         /\ Audit!Pending' <=> Audit!Pending
         /\ Audit!Held' <=> Audit!Held
         /\ Audit!QuorumMet' <=> Audit!QuorumMet
         /\ Audit!Roll' = Audit!Roll
         /\ Audit!Valid' = Audit!Valid
<1>1. Trail' = Trail
  BY DEF Trail, AuditEntry
<1>2. Audit!Newest' = Audit!Newest
  BY <1>1 DEF Audit!Newest, Audit!Start
<1>3. /\ Audit!Running' <=> Audit!Running
      /\ Audit!Pending' <=> Audit!Pending
      /\ Audit!Held' <=> Audit!Held
      /\ Audit!Roll' = Audit!Roll
  BY <1>2 DEF Audit!Running, Audit!Pending, Audit!Held, Audit!Roll
<1>4. Audit!QuorumMet' <=> Audit!QuorumMet
  BY <1>2, <1>3 DEF Audit!QuorumMet
<1>5. Audit!Valid' = Audit!Valid
  BY <1>3, <1>4 DEF Audit!Valid
<1> QED BY <1>1, <1>2, <1>3, <1>4, <1>5

(* A roll without its last approver. *)
LEMMA FrontOfAppend ==
  ASSUME NEW S, NEW s \in Seq(S), NEW a \in S
  PROVE  SubSeq(Append(s, a), 1, Len(Append(s, a)) - 1) = s
<1> DEFINE t == Append(s, a)
<1>1. /\ Len(s) \in Nat /\ t \in Seq(S) /\ Len(t) = Len(s) + 1
      /\ \A i \in 1 .. Len(s) : t[i] = s[i]
  OBVIOUS
<1> HIDE DEF t
<1>2. \A i \in 1 .. Len(t) - 1 : t[i] \in S
  BY <1>1
<1>3. /\ SubSeq(t, 1, Len(t) - 1) \in Seq(S)
      /\ Len(SubSeq(t, 1, Len(t) - 1)) = Len(s)
      /\ \A i \in 1 .. Len(s) : SubSeq(t, 1, Len(t) - 1)[i] = t[i]
  BY <1>1, <1>2, SubSeqProperties
<1> QED BY <1>1, <1>3, SeqEqual DEF t

(* The approvers that count after a request, and after an approval. *)
LEMMA RollOfNewest ==
  ASSUME TypeOK
  PROVE  /\ Audit!Newest.verdict = "pending" /\ Audit!Newest.required > 0 =>
               Audit!Roll = <<>> /\ Audit!Valid = <<>>
         /\ Audit!Newest.verdict = "approval" /\ Audit!Newest.who \in Approvers =>
               /\ Audit!Roll = Append(Audit!Newest.roll, Audit!Newest.who)
               /\ Audit!QuorumMet => Audit!Valid = Audit!Newest.roll
               /\ ~ Audit!QuorumMet => Audit!Valid = Audit!Roll
<1> DEFINE N == Audit!Newest
<1>1. N \in Audit!Entry
  BY NewestType
<1>2. ASSUME N.verdict = "pending", N.required > 0
      PROVE  Audit!Roll = <<>> /\ Audit!Valid = <<>>
  <2>1. Audit!Roll = <<>>
    BY <1>2 DEF Audit!Roll
  <2>2. ~ Audit!QuorumMet
    BY <1>1, <1>2, <2>1 DEF Audit!QuorumMet, Audit!Entry
  <2> QED BY <2>1, <2>2 DEF Audit!Valid
<1>3. ASSUME N.verdict = "approval", N.who \in Approvers
      PROVE  /\ Audit!Roll = Append(N.roll, N.who)
             /\ Audit!QuorumMet => Audit!Valid = N.roll
             /\ ~ Audit!QuorumMet => Audit!Valid = Audit!Roll
  <2>1. Audit!Roll = Append(N.roll, N.who)
    BY <1>3 DEF Audit!Roll
  <2>2. Audit!Pending
    BY <1>3 DEF Audit!Pending
  <2>3. N.roll \in Seq(Approvers)
    BY <1>1 DEF Audit!Entry
  <2>4. SubSeq(Audit!Roll, 1, Len(Audit!Roll) - 1) = N.roll
    BY <1>3, <2>1, <2>3, FrontOfAppend
  <2> QED BY <2>1, <2>2, <2>4 DEF Audit!Valid, Audit!Front
<1> QED BY <1>2, <1>3

LEMMA TrailNext ==
  TypeOK /\ SoleWriter /\ BindInv /\ HaltInv /\ TrailInv /\ [Next]_vars => TrailInv'
<1> SUFFICES ASSUME TypeOK, SoleWriter, BindInv, HaltInv, TrailInv, [Next]_vars, Undisturbed'
             PROVE  /\ lock' = NoProc => StateMatch'
                    /\ \A p \in Procs : TrailAt(p)'
  BY DEF TrailInv
<1> DEFINE Goal == /\ lock' = NoProc => StateMatch'
                   /\ \A p \in Procs : TrailAt(p)'
<1> SUFFICES Goal
  OBVIOUS
<1>1. /\ Undisturbed /\ Unshaken
      /\ ~ \E p \in Procs : Crash(p) \/ AnchorFault(p)
      /\ ~ \E v \in Policies : Activate(v)
  BY UsedGrows DEF Undisturbed, Unshaken
<1>2. /\ lock = NoProc => StateMatch
      /\ \A p \in Procs : TrailAt(p) /\ FilesAt(p)
  BY <1>1 DEF TrailInv, HaltInv
<1>3. ASSUME NEW p \in Procs, lock \in {p, NoProc},
             pc' = [pc EXCEPT ![p] = pc'[p]], loc' = [loc EXCEPT ![p] = loc'[p]],
             TrailAt(p)', lock' = NoProc => StateMatch'
      PROVE  Goal
  <2>1. ASSUME NEW q \in Procs, q # p PROVE TrailAt(q)'
    <3>1. pc'[q] = pc[q]
      BY <1>3, <2>1 DEF TypeOK
    <3>2. pc[q] \in {"idle", "checked"}
      BY <1>3, <2>1, ContainmentAssumption DEF SoleWriter
    <3> QED BY <3>1, <3>2 DEF TrailAt
  <2> QED BY <1>3, <2>1
<1>4. ASSUME NEW p \in Procs, pc[p] \notin {"idle", "checked"}, Release(p), StateMatch'
      PROVE  Goal
  <2>1. /\ pc' = [pc EXCEPT ![p] = pc'[p]] /\ loc' = [loc EXCEPT ![p] = loc'[p]]
        /\ pc'[p] = "idle" /\ lock = p
    BY <1>4 DEF Release, TypeOK, SoleWriter
  <2>2. TrailAt(p)'
    BY <2>1 DEF TrailAt
  <2> HIDE DEF Goal
  <2> QED BY <1>3, <1>4, <2>1, <2>2
<1>5. ASSUME NEW p \in Procs, NEW s, pc[p] \notin {"idle", "checked"}, Goto(p, s),
             UNCHANGED <<loc, lock>>, TrailAt(p)'
      PROVE  Goal
  <2>1. /\ pc' = [pc EXCEPT ![p] = pc'[p]] /\ loc' = [loc EXCEPT ![p] = loc'[p]]
        /\ lock = p /\ lock' = p
    BY <1>5 DEF Goto, TypeOK, SoleWriter
  <2> HIDE DEF Goal
  <2> QED BY <1>3, <1>5, <2>1, ContainmentAssumption
<1>6. ASSUME NEW p \in Procs, NEW s, NEW l, Acquire(p, s, l), TrailAt(p)'
      PROVE  Goal
  <2>1. /\ pc' = [pc EXCEPT ![p] = pc'[p]] /\ loc' = [loc EXCEPT ![p] = loc'[p]]
        /\ lock = NoProc /\ lock' = p
    BY <1>6 DEF Acquire, TypeOK
  <2> HIDE DEF Goal
  <2> QED BY <1>3, <1>6, <2>1, ContainmentAssumption
(* The stream and the roll in the state file stay as they are. *)
<1> DEFINE Same == /\ receipts' = receipts /\ state'.kind = state.kind
                   /\ state'.required = state.required /\ state'.approvers = state.approvers
<1>7. ASSUME Same PROVE StateMatch' <=> StateMatch
  BY <1>7, TrailKept DEF StateMatch
<1>8. ASSUME Same, NEW l PROVE BeforeReceipt(l)' <=> BeforeReceipt(l)
  <2>1. StateMatch' <=> StateMatch
    BY <1>7, <1>8
  <2>2. HoldReady(l)' <=> HoldReady(l)
    BY <1>8, TrailKept DEF HoldReady
  <2> QED BY <1>8, <2>1, <2>2 DEF BeforeReceipt, SameRoll
<1>9. ASSUME Same, NEW l PROVE AfterReceipt(l)' <=> AfterReceipt(l)
  BY <1>9, TrailKept DEF AfterReceipt, SameRoll
<1>10. ASSUME Same, NEW q \in Procs, pc'[q] = pc[q], loc'[q] = loc[q] PROVE TrailAt(q)'
  BY <1>2, <1>8, <1>9, <1>10, TrailKept DEF TrailAt
<1> HIDE DEF Goal
<1>11. CASE \/ UNCHANGED vars
            \/ \E k \in Keys : ReplaceKey(k)
            \/ \E v \in Policies : Restamp(v)
            \/ \E p \in Procs : AdoptAnchor(p)
  <2>1. UNCHANGED <<pc, loc, lock, receipts>>
    BY <1>11 DEF vars, ReplaceKey, Restamp, AdoptAnchor
  <2>2. Same
    BY <1>11, <2>1 DEF vars, ReplaceKey, Restamp, AdoptAnchor, TypeOK, State
  <2> HIDE DEF Same
  <2>3. StateMatch' <=> StateMatch
    BY <1>7, <2>2
  <2> QED BY <1>2, <1>10, <2>1, <2>2, <2>3 DEF Goal
<1>12. ASSUME NEW p \in Procs, HoldCheck(p) \/ HoldLockRefused(p) PROVE Goal
  <2>1. /\ UNCHANGED <<state, receipts, lock, loc>>
        /\ pc'[p] \in {"idle", "checked"}
        /\ \A q \in Procs : q # p => pc'[q] = pc[q]
    BY <1>12 DEF HoldCheck, HoldLockRefused, Goto, TypeOK
  <2>2. Same
    BY <2>1
  <2> HIDE DEF Same
  <2>3. ASSUME NEW q \in Procs PROVE TrailAt(q)'
    <3>1. CASE q = p
      BY <2>1, <3>1 DEF TrailAt
    <3>2. CASE q # p
      BY <1>10, <2>1, <2>2, <3>2
    <3> QED BY <3>1, <3>2
  <2>4. StateMatch' <=> StateMatch
    BY <1>7, <2>2
  <2> QED BY <1>2, <2>1, <2>3, <2>4 DEF Goal
<1>13. ASSUME NEW p \in Procs, NEW a \in Approvers, Approve(p, a) \/ Abort(p, a) PROVE Goal
  <2>1. PICK l : /\ Acquire(p, "emit", l) /\ l.op \in {"approve", "abort"} /\ l.who = a
                 /\ l.st = state /\ state.kind = "pending" /\ UNCHANGED <<state, receipts>>
                 /\ l.op = "approve" => a \notin Range(state.approvers)
    BY <1>13 DEF Approve, Abort
  <2>2. pc'[p] = "emit" /\ loc'[p] = l /\ StateMatch
    BY <1>2, <2>1 DEF Acquire, TypeOK
  <2>3. BeforeReceipt(l)
    BY <2>1, <2>2 DEF BeforeReceipt, SameRoll
  <2>4. BeforeReceipt(l)'
    BY <1>8, <2>1, <2>3
  <2>5. TrailAt(p)'
    BY <2>2, <2>4 DEF TrailAt
  <2> QED BY <1>6, <2>1, <2>5
<1>14. ASSUME NEW p \in Procs, Resume(p) PROVE Goal
  <2>1. PICK l : /\ Acquire(p, "emit", l) /\ l.op \in {"resume", "refuse"} /\ l.who = NoOne
                 /\ l.st = state /\ state.kind = "held" /\ UNCHANGED <<state, receipts>>
    BY <1>14 DEF Resume
  <2>2. pc'[p] = "emit" /\ loc'[p] = l /\ StateMatch
    BY <1>2, <2>1 DEF Acquire, TypeOK
  <2>3. BeforeReceipt(l)
    BY <2>1, <2>2 DEF BeforeReceipt, SameRoll
  <2>4. BeforeReceipt(l)'
    BY <1>8, <2>1, <2>3
  <2>5. TrailAt(p)'
    BY <2>2, <2>4 DEF TrailAt
  <2> QED BY <1>6, <2>1, <2>5
<1>15. ASSUME NEW p \in Procs, HoldLock(p) PROVE Goal
  <2>1. state.kind = "absent" /\ UNCHANGED <<state, receipts>> /\ lock = NoProc
    BY <1>15 DEF HoldLock, Acquire
  <2>2. StateMatch /\ Audit!Running
    BY <1>2, <2>1 DEF StateMatch
  <2>3. CASE Quorum[p] = 1
    <3> DEFINE h == [NoLocal EXCEPT !.op = "hold"]
    <3>1. /\ h.op = "hold" /\ h.who = NoOne
          /\ h.st.required = 0 /\ h.st.approvers = <<>>
      BY DEF NoLocal, NoState
    <3>2. Acquire(p, "snapshot", h)
      BY <1>15, <2>3 DEF HoldLock
    <3> HIDE DEF h
    <3>3. BeforeReceipt(h)
      BY <2>2, <3>1 DEF BeforeReceipt, HoldReady
    <3>4. BeforeReceipt(h)'
      BY <1>8, <2>1, <3>3
    <3>5. TrailAt(p)'
      BY <3>1, <3>2, <3>4 DEF TrailAt, Acquire, TypeOK
    <3> QED BY <1>6, <3>2, <3>5
  <2>4. CASE Quorum[p] # 1
    <3> DEFINE o == [NoLocal EXCEPT !.op = "open",
                                    !.st = [NoState EXCEPT !.required = Quorum[p],
                                                           !.pin = opKey]]
    <3>1. /\ o.op = "open" /\ o.who = NoOne
          /\ o.st.required = Quorum[p] /\ o.st.approvers = <<>>
      BY DEF NoLocal, NoState
    <3>2. Acquire(p, "emit", o)
      BY <1>15, <2>4 DEF HoldLock
    <3> HIDE DEF o
    <3>3. BeforeReceipt(o)
      BY <2>1, <2>2, <2>4, <3>1 DEF BeforeReceipt
    <3>4. ASSUME NEW l, l = o PROVE BeforeReceipt(l)'
      BY <1>8, <2>1, <3>3, <3>4
    <3>5. pc'[p] = "emit" /\ loc'[p] = o
      BY <3>2 DEF Acquire, TypeOK
    <3>6. TrailAt(p)'
      BY <3>4, <3>5 DEF TrailAt
    <3> QED BY <1>6, <3>2, <3>6
  <2> QED BY <2>3, <2>4
<1>16. ASSUME NEW p \in Procs, Snapshot(p) PROVE Goal
  <2>1. /\ pc' = [pc EXCEPT ![p] = "deny"] /\ pc[p] = "snapshot"
        /\ UNCHANGED <<state, receipts, lock>>
        /\ loc' = [loc EXCEPT ![p] = [loc[p] EXCEPT !.st = [loc[p].st EXCEPT !.orig = policy,
                                                                             !.pin = opKey]]]
    BY <1>16 DEF Snapshot, Goto, TypeOK, Local, State
  <2>2. /\ loc' = [loc EXCEPT ![p] = loc'[p]]
        /\ loc'[p].op = loc[p].op /\ loc'[p].who = loc[p].who
        /\ loc'[p].st.required = loc[p].st.required
        /\ loc'[p].st.approvers = loc[p].st.approvers
    BY <2>1 DEF TypeOK, Local, State
  <2>3. /\ pc' = [pc EXCEPT ![p] = pc'[p]] /\ pc'[p] = "deny" /\ lock = p
    BY <2>1 DEF TypeOK, SoleWriter
  <2>4. loc[p].op = "hold" /\ BeforeReceipt(loc[p])
    BY <1>2, <2>1 DEF TrailAt
  <2>5. BeforeReceipt(loc'[p])
    BY <2>2, <2>4 DEF BeforeReceipt, HoldReady
  <2>6. ASSUME NEW l, l = loc'[p] PROVE BeforeReceipt(l)'
    BY <1>8, <2>1, <2>5, <2>6
  <2>7. TrailAt(p)'
    BY <2>2, <2>3, <2>4, <2>6 DEF TrailAt
  <2> QED BY <1>3, <2>1, <2>2, <2>3, <2>7, ContainmentAssumption
<1>17. ASSUME NEW p \in Procs, WriteDenyAll(p) PROVE Goal
  <2>1. /\ pc[p] = "deny" /\ pc'[p] = "emit" /\ loc'[p] = loc[p]
        /\ UNCHANGED <<state, receipts, lock, loc>> /\ Goto(p, "emit")
    BY <1>17 DEF WriteDenyAll, Goto, TypeOK
  <2>2. BeforeReceipt(loc[p])
    BY <1>2, <2>1 DEF TrailAt
  <2>3. BeforeReceipt(loc[p])'
    BY <1>8, <2>1, <2>2
  <2>4. TrailAt(p)'
    BY <2>1, <2>3 DEF TrailAt
  <2> QED BY <1>5, <2>1, <2>4
<1>18. ASSUME NEW p \in Procs, AppendReceipt(p) PROVE Goal
  <2> DEFINE l == loc[p]
  <2>1. /\ pc' = [pc EXCEPT ![p] = pc'[p]] /\ loc' = [loc EXCEPT ![p] = loc'[p]]
        /\ loc'[p].op = l.op /\ loc'[p].st = l.st /\ loc'[p].who = l.who
        /\ pc[p] = "emit" /\ pc'[p] = "reanchor" /\ lock = p
        /\ UNCHANGED <<state, lock>>
    BY <1>18 DEF AppendReceipt, Goto, TypeOK, Local, SoleWriter
  <2>2. BeforeReceipt(l) /\ l.op \in Ops
    BY <1>2, <2>1 DEF TrailAt, TypeOK, Local
  <2>3. TypeOK'
    BY TypeNext
  <2>4. Audit!Newest' = AuditEntry(NextReceipt(p))
    BY <1>18, <2>3, TrailGrows
  <2>5. /\ Audit!Newest'.required = l.st.required
        /\ Audit!Newest'.roll = l.st.approvers
        /\ Audit!Newest'.who = l.who
        /\ Audit!Newest'.verdict = CASE l.op = "hold"    -> "hold"
                                     [] l.op = "open"    -> "pending"
                                     [] l.op = "approve" -> "approval"
                                     [] l.op = "abort"   -> "abort"
                                     [] l.op = "resume"  -> "resume"
                                     [] l.op = "refuse"  -> "resume_refused"
    BY <2>4 DEF AuditEntry, NextReceipt
  <2>6. l.op = "open" => l.st.required > 0
    BY <2>2, ContainmentAssumption DEF BeforeReceipt
  <2>7. l.op = "approve" => l.st.required > 0
    BY <2>2 DEF BeforeReceipt, SameRoll, StateMatch
  <2> HIDE DEF l
  <2>8. AfterReceipt(loc[p])'
    BY <2>1, <2>2, <2>5, <2>6, <2>7 DEF AfterReceipt, BeforeReceipt, SameRoll, Ops
  <2>9. TrailAt(p)'
    BY <2>1, <2>8 DEF TrailAt
  <2> QED BY <1>3, <2>1, <2>9, ContainmentAssumption
<1>19. ASSUME NEW p \in Procs, EmitRefused(p) \/ EmitFault(p) PROVE Goal
  <2>1. pc[p] = "emit" /\ EmissionFailed(p) /\ UNCHANGED <<state, receipts>>
    BY <1>19 DEF EmitRefused, EmitFault
  <2>2. BeforeReceipt(loc[p])
    BY <1>2, <2>1 DEF TrailAt
  <2>3. CASE loc[p].op = "hold"
    <3>1. /\ Goto(p, "rollback") /\ UNCHANGED <<lock, loc>>
          /\ pc'[p] = "rollback" /\ loc'[p] = loc[p]
      BY <2>1, <2>3 DEF EmissionFailed, Goto, TypeOK
    <3>2. BeforeReceipt(loc[p])'
      BY <1>8, <2>1, <2>2, <3>1
    <3>3. TrailAt(p)'
      BY <2>3, <3>1, <3>2 DEF TrailAt
    <3> QED BY <1>5, <2>1, <3>1, <3>3
  <2>4. CASE loc[p].op # "hold"
    <3>1. StateMatch'
      BY <1>7, <2>1, <2>2 DEF BeforeReceipt
    <3> QED BY <1>4, <2>1, <2>4, <3>1 DEF EmissionFailed
  <2> QED BY <2>3, <2>4
<1>20. ASSUME NEW p \in Procs, ApplyRefused(p) \/ Rollback(p) PROVE Goal
  <2>1. /\ pc[p] \in {"snapshot", "rollback"} /\ Release(p) /\ UNCHANGED <<state, receipts>>
    BY <1>20 DEF ApplyRefused, Rollback
  <2>2. StateMatch
    BY <1>2, <2>1 DEF TrailAt, BeforeReceipt
  <2>3. StateMatch'
    BY <1>7, <2>1, <2>2
  <2> QED BY <1>4, <2>1, <2>3
<1>21. ASSUME NEW p \in Procs, Persist(p) PROVE Goal
  <2> DEFINE l == loc[p]
  <2>1. /\ pc[p] = "persist" /\ Release(p) /\ receipts' = receipts
        /\ l.st \in State /\ TrailAt(p)
    BY <1>2, <1>21 DEF Persist, TypeOK, Local
  <2>2. CASE l.op = "hold"
    <3>1. /\ state'.kind = "held" /\ state'.required = l.st.required
          /\ state'.approvers = l.st.approvers
      BY <1>21, <2>1, <2>2 DEF Persist, State
    <3>2. AfterReceipt(l)
      BY <2>1, <2>2 DEF TrailAt
    <3>3. StateMatch'
      BY <2>1, <2>2, <3>1, <3>2, TrailKept DEF StateMatch, AfterReceipt, Audit!Held
    <3> QED BY <1>4, <2>1, <3>3
  <2>3. CASE l.op = "open"
    <3>1. /\ state'.kind = "pending" /\ state'.required = l.st.required
          /\ state'.approvers = l.st.approvers
      BY <1>21, <2>1, <2>3 DEF Persist, State
    <3>2. AfterReceipt(l)
      BY <2>1, <2>3 DEF TrailAt
    <3>3. Audit!Pending /\ Audit!Valid = <<>> /\ l.st.approvers = <<>>
          /\ Audit!Newest.required = l.st.required /\ l.st.required > 0
      BY <2>3, <3>2, RollOfNewest DEF AfterReceipt, Audit!Pending
    <3>4. StateMatch'
      BY <2>1, <3>1, <3>3, TrailKept DEF StateMatch
    <3> QED BY <1>4, <2>1, <3>4
  <2>4. CASE l.op = "approve"
    <3>1. state' = l.st
      BY <1>21, <2>1, <2>4 DEF Persist
    <3>2. /\ Audit!Newest.verdict = "approval" /\ ~ Audit!QuorumMet
          /\ l.st.kind = "pending" /\ l.st.required > 0
          /\ Audit!Newest.required = l.st.required
          /\ Audit!Roll = l.st.approvers
      BY <2>1, <2>4 DEF TrailAt
    <3>3. Audit!Pending /\ Audit!Valid = l.st.approvers
      BY <3>2 DEF Audit!Pending, Audit!Valid
    <3>4. StateMatch'
      BY <2>1, <3>1, <3>2, <3>3, TrailKept DEF StateMatch
    <3> QED BY <1>4, <2>1, <3>4
  <2> QED BY <2>1, <2>2, <2>3, <2>4 DEF TrailAt
<1>22. ASSUME NEW p \in Procs, Reanchor(p) PROVE Goal
  <2> DEFINE l == loc[p]
  <2>1. /\ pc[p] = "reanchor" /\ l.op \in Ops /\ lock = p /\ l \in Local
        /\ UNCHANGED <<state, receipts>> /\ AfterReceipt(l)
    BY <1>2, <1>22 DEF Reanchor, TypeOK, Local, SoleWriter, TrailAt
  <2>2. CASE l.op \in {"hold", "open"}
    <3>1. /\ Goto(p, "persist") /\ UNCHANGED <<lock, loc>>
          /\ pc'[p] = "persist" /\ loc'[p] = loc[p]
      BY <1>22, <2>2 DEF Reanchor, Goto, TypeOK
    <3>2. AfterReceipt(loc[p])'
      BY <1>9, <2>1, <3>1
    <3>3. TrailAt(p)'
      BY <2>2, <3>1, <3>2 DEF TrailAt
    <3> QED BY <1>5, <2>1, <3>1, <3>3
  <2>3. CASE l.op \in {"abort", "resume"}
    <3>1. PICK s : /\ Goto(p, s) /\ UNCHANGED <<lock, loc>>
                   /\ s \in {"truncate", "restore"}
      BY <1>22, <2>3 DEF Reanchor
    <3>2. Audit!Running
      BY <2>1, <2>3 DEF AfterReceipt, Audit!Running
    <3>3. TrailAt(p)'
      BY <2>1, <3>1, <3>2, TrailKept DEF TrailAt, Goto, TypeOK
    <3> QED BY <1>5, <2>1, <3>1, <3>3
  <2>4. CASE l.op = "approve"
    <3> DEFINE st == Approved(p)
    <3>1. /\ Audit!Newest.verdict = "approval" /\ l.st.required > 0
          /\ Audit!Newest.required = l.st.required
          /\ Audit!Newest.roll = l.st.approvers /\ Audit!Newest.who = l.who
          /\ state.kind = "pending" /\ state.required = l.st.required
          /\ state.approvers = l.st.approvers /\ l.who \in Approvers
      BY <2>1, <2>4 DEF AfterReceipt, SameRoll, Local
    <3>2. /\ st.required = l.st.required /\ st.kind = l.st.kind
          /\ st.approvers = Append(l.st.approvers, l.who)
      BY <2>1 DEF Approved, Local, State
    <3>3. /\ Audit!Pending /\ Audit!Roll = st.approvers
          /\ Audit!QuorumMet <=> QuorumMet(st)
      BY <3>1, <3>2, RollOfNewest DEF Audit!Pending, Audit!QuorumMet, QuorumMet
    <3>4. CASE QuorumMet(st)
      <4> DEFINE h == [op |-> "hold", st |-> st, who |-> NoOne, rid |-> 0]
      <4>1. Audit!Valid = state.approvers
        BY <3>1, <3>3, <3>4, RollOfNewest
      <4>2. StateMatch
        BY <3>1, <3>3, <4>1 DEF StateMatch
      <4>3. BeforeReceipt(h)
        BY <3>1, <3>2, <3>3, <3>4, <4>2 DEF BeforeReceipt, HoldReady
      <4>4. /\ loc' = [loc EXCEPT ![p] = h] /\ pc' = [pc EXCEPT ![p] = "snapshot"]
            /\ UNCHANGED lock
        BY <1>22, <2>4, <3>4 DEF Reanchor, Approved, Goto
      <4>5. h.op = "hold"
        OBVIOUS
      <4> HIDE DEF h
      <4>7. /\ loc' = [loc EXCEPT ![p] = loc'[p]] /\ pc' = [pc EXCEPT ![p] = pc'[p]]
            /\ loc'[p] = h /\ pc'[p] = "snapshot"
        BY <4>4 DEF TypeOK
      <4>8. ASSUME NEW k, k = h PROVE BeforeReceipt(k)'
        BY <1>8, <2>1, <4>3, <4>8
      <4>9. TrailAt(p)'
        BY <4>5, <4>7, <4>8 DEF TrailAt
      <4> QED BY <1>3, <2>1, <4>4, <4>7, <4>9, ContainmentAssumption
    <3>5. CASE ~ QuorumMet(st)
      <4>1. /\ loc' = [loc EXCEPT ![p] = [l EXCEPT !.st = st]] /\ pc' = [pc EXCEPT ![p] = "persist"]
            /\ UNCHANGED lock
        BY <1>22, <2>4, <3>5 DEF Reanchor, Approved, Goto, TypeOK, Local
      <4>2. /\ [l EXCEPT !.st = st].op = "approve" /\ [l EXCEPT !.st = st].st = st
        BY <2>1, <2>4 DEF Local
      <4>3. /\ loc' = [loc EXCEPT ![p] = loc'[p]] /\ pc' = [pc EXCEPT ![p] = pc'[p]]
            /\ loc'[p].op = "approve" /\ loc'[p].st = st /\ pc'[p] = "persist"
        BY <4>1, <4>2 DEF TypeOK
      <4>4. l.st.kind = "pending"
        BY <2>4 DEF BindInv, LocalBound
      <4> HIDE DEF st
      <4>5. TrailAt(p)'
        BY <2>1, <3>1, <3>2, <3>3, <3>5, <4>3, <4>4, TrailKept DEF TrailAt
      <4> QED BY <1>3, <2>1, <4>1, <4>3, <4>5, ContainmentAssumption
    <3> QED BY <3>4, <3>5
  <2>5. CASE l.op = "refuse"
    <3>1. StateMatch
      BY <2>1, <2>5 DEF AfterReceipt, SameRoll, StateMatch, Audit!Held
    <3>2. StateMatch'
      BY <1>7, <2>1, <3>1
    <3> QED BY <1>4, <1>22, <2>1, <2>5, <3>2 DEF Reanchor
  <2> QED BY <2>1, <2>2, <2>3, <2>4, <2>5 DEF Ops
<1>23. ASSUME NEW p \in Procs, NEW s, Goto(p, s), UNCHANGED <<lock, loc, receipts>>,
              pc[p] \in {"restore", "verify", "truncate", "unlink"},
              s \in {"restore", "verify", "truncate", "unlink"}
       PROVE  Goal
  <2>1. Audit!Running
    BY <1>2, <1>23 DEF TrailAt
  <2>2. TrailAt(p)'
    BY <1>23, <2>1, TrailKept DEF TrailAt, Goto, TypeOK
  <2> QED BY <1>5, <1>23, <2>2
<1>24. ASSUME NEW p \in Procs, RestorePolicy(p) \/ VerifyRestore(p) \/ TruncateState(p)
       PROVE  Goal
  <2>1. CASE RestorePolicy(p) \/ TruncateState(p)
    BY <1>23, <2>1 DEF RestorePolicy, TruncateState
  <2>2. CASE VerifyRestore(p)
    <3>1. policy = loc[p].st.orig
      BY <1>2, <2>2 DEF VerifyRestore, FilesAt
    <3> QED BY <1>23, <2>2, <3>1 DEF VerifyRestore
  <2> QED BY <1>24, <2>1, <2>2
<1>25. ASSUME NEW p \in Procs, UnlinkState(p) PROVE Goal
  <2>1. Audit!Running /\ state'.kind = "absent" /\ receipts' = receipts
    BY <1>2, <1>25 DEF TrailAt, UnlinkState, NoState
  <2>2. StateMatch'
    BY <2>1, TrailKept DEF StateMatch
  <2> QED BY <1>4, <1>25, <2>2 DEF UnlinkState
<1>26. ASSUME NEW p \in Procs, Begin(p) \/ Step(p) PROVE Goal
  BY <1>11, <1>12, <1>13, <1>14, <1>15, <1>16, <1>17, <1>18, <1>19, <1>20, <1>21, <1>22,
     <1>24, <1>25, <1>26 DEF Begin, Step
<1> QED BY <1>1, <1>11, <1>19, <1>26 DEF Next

LEMMA TrailStep ==
  ASSUME TypeOK, TrailInv, [Next]_vars, Undisturbed'
  PROVE  [Audit!Next]_Trail
<1>1. Undisturbed
  BY UsedGrows DEF Undisturbed
<1>2. ASSUME NEW p \in Procs, AppendReceipt(p) PROVE Audit!Next
  <2> DEFINE l == loc[p]
             e == AuditEntry(NextReceipt(p))
  <2>1. BeforeReceipt(l) /\ l.op \in Ops
    BY <1>1, <1>2 DEF TrailInv, TrailAt, AppendReceipt, TypeOK, Local
  <2>2. TypeOK'
    BY TypeNext
  <2>3. Trail' = Append(Trail, e)
    BY <1>2, <2>2, TrailGrows
  <2>4. CASE l.op = "hold"
    <3>1. e = [verdict |-> "hold", required |-> l.st.required, roll |-> l.st.approvers,
               who |-> NoOne]
      BY <2>1, <2>4 DEF AuditEntry, NextReceipt, BeforeReceipt
    <3> HIDE DEF e
    <3>2. Audit!Hold
      BY <2>1, <2>3, <2>4, <3>1 DEF BeforeReceipt, HoldReady, Audit!Hold, Audit!Record
    <3> QED BY <3>2 DEF Audit!Next
  <2>5. CASE l.op = "open"
    <3>1. e = [verdict |-> "pending", required |-> l.st.required, roll |-> <<>>, who |-> NoOne]
      BY <2>1, <2>5 DEF AuditEntry, NextReceipt, BeforeReceipt
    <3> HIDE DEF e
    <3>2. Audit!Running /\ l.st.required \in {Quorum[q] : q \in Procs} \ {1}
      BY <2>1, <2>5 DEF BeforeReceipt, StateMatch
    <3>3. Audit!Open(l.st.required)
      BY <2>3, <3>1, <3>2 DEF Audit!Open, Audit!Record
    <3> QED BY <3>2, <3>3 DEF Audit!Next
  <2>6. CASE l.op \in {"approve", "abort"}
    <3>1. e = [verdict |-> IF l.op = "approve" THEN "approval" ELSE "abort",
               required |-> l.st.required, roll |-> l.st.approvers, who |-> l.who]
      BY <2>1, <2>6 DEF AuditEntry, NextReceipt
    <3> HIDE DEF e
    <3>2. /\ Audit!Pending /\ l.st.required = Audit!Newest.required
          /\ l.st.approvers = Audit!Valid /\ l.who \in Approvers
          /\ l.op = "approve" => l.who \notin Range(l.st.approvers)
      BY <2>1, <2>6 DEF BeforeReceipt, SameRoll, StateMatch
    <3>3. CASE l.op = "approve"
      <4>1. Audit!Approve(l.who)
        BY <2>3, <3>1, <3>2, <3>3 DEF Audit!Approve, Audit!Record, Range, Audit!Range
      <4> QED BY <3>2, <4>1 DEF Audit!Next
    <3>4. CASE l.op = "abort"
      <4>1. Audit!Abort(l.who)
        BY <2>3, <3>1, <3>2, <3>4 DEF Audit!Abort, Audit!Record
      <4> QED BY <3>2, <4>1 DEF Audit!Next
    <3> QED BY <2>6, <3>3, <3>4
  <2>7. CASE l.op \in {"resume", "refuse"}
    <3> DEFINE v == IF l.op = "resume" THEN "resume" ELSE "resume_refused"
    <3>1. e = [verdict |-> v, required |-> l.st.required, roll |-> l.st.approvers, who |-> NoOne]
      BY <2>1, <2>7 DEF AuditEntry, NextReceipt, BeforeReceipt
    <3> HIDE DEF e
    <3>2. /\ Audit!Held /\ l.st.required = Audit!Newest.required
          /\ l.st.approvers = Audit!Newest.roll
      BY <2>1, <2>7 DEF BeforeReceipt, SameRoll, StateMatch
    <3>3. Audit!Resume
      BY <2>3, <3>1, <3>2 DEF Audit!Resume, Audit!Record
    <3> QED BY <3>3 DEF Audit!Next
  <2> QED BY <2>1, <2>4, <2>5, <2>6, <2>7 DEF Ops
<1>3. ASSUME ~ \E p \in Procs : AppendReceipt(p) PROVE Trail' = Trail
  BY <1>3, StreamKept, TrailKept
<1> QED BY <1>2, <1>3

LEMMA HaltAlways == Spec => [](AnchorInv /\ HaltInv /\ QuorumInv /\ TrailInv)
<1>1. Init => AnchorInv /\ HaltInv /\ QuorumInv
  BY ContainmentAssumption
  DEF Init, AnchorInv, NoGap, HaltInv, Matched, FilesAt, QuorumInv, RollBacked, RollHeld,
      QuorumBacked, NoState, NoLocal
<1>2. Init => TrailInv
  <2> SUFFICES ASSUME Init PROVE TrailInv
    OBVIOUS
  <2>1. Trail = <<>>
    BY DEF Init, Trail
  <2>2. Audit!Running /\ state.kind = "absent"
    BY <2>1 DEF Init, NoState, Audit!Running, Audit!Newest, Audit!Start
  <2> QED BY <2>2 DEF Init, TrailInv, TrailAt, StateMatch
<1> QED BY <1>1, <1>2, TypeCorrect, MutualExclusion, BindAlways, AnchorNext, HaltNext,
           QuorumNext, TrailNext, PTL DEF Spec

(* In every reachable state a quorum hold has its approvals, an undisturbed halt
   is what the state file says, and a hold can be resumed. *)
THEOREM HaltsAreSound == Spec => []HaltSound
<1>1. AnchorInv /\ HaltInv /\ QuorumInv /\ SoleWriter /\ HeldIsReceipted => HaltSound
  BY ContainmentAssumption
  DEF AnchorInv, HaltInv, QuorumInv, HaltSound, HaltMatchesState, HoldStaysReversible,
      Unshaken, Matched, SoleWriter, HeldIsReceipted
<1> QED BY <1>1, HaltAlways, MutualExclusion, HeldStatesAreReceipted, PTL

(* Until the first disturbance every step of the stop is a step of the abstract
   history, or one the auditor does not see. *)
THEOREM TrailsAreLegal == Spec => TrailIsLegal
<1>1. Init => Trail = <<>>
  BY DEF Init, Trail
<1>2. TypeOK /\ TrailInv /\ [Next]_vars => [Undisturbed' => Audit!Next]_Trail
  BY TrailStep
<1> QED BY <1>1, <1>2, TypeCorrect, HaltAlways, PTL DEF Spec, TrailIsLegal

(* The emergency stop implements the auditor's history: undisturbed behaviours
   of the files are behaviours of HaltTrail. *)
THEOREM StopRefinesHistory == Spec /\ []Undisturbed => Audit!Spec
<1>1. Init => Trail = <<>>
  BY DEF Init, Trail
<1>2. TypeOK /\ TrailInv /\ Undisturbed' /\ [Next]_vars => [Audit!Next]_Trail
  BY TrailStep
<1> QED BY <1>1, <1>2, TypeCorrect, HaltAlways, PTL DEF Spec, Audit!Spec
=============================================================================
