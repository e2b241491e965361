------------------------ MODULE DelegationHoldProofs ------------------------
(***************************************************************************)
(* For any delegation tree, any registrars and any number of holds,        *)
(* resumes, failing receipts and dying processes: no hold makes a          *)
(* revocation undone that was made before it, and a hold that stands covers *)
(* what it resolved and what is minted under it.                           *)
(*                                                                         *)
(* The revocations file is overwritten with a snapshot when a hold is      *)
(* rolled back and when it is resumed, so the property needs to know of    *)
(* every snapshot that may still be written: the one the running process   *)
(* holds from the moment it was taken, and the one in the state file for   *)
(* as long as a hold is in force.                                          *)
(***************************************************************************)
EXTENDS DelegationHold, TLAPS

(* The steps at which the containment process holds a snapshot. *)
Holding == {"append", "emit", "rollback", "state", "marker", "restore", "unmark", "clear"}

(* cloc is a record with the fields of the state file. *)
Shape == cloc = [scope |-> cloc.scope, ids |-> cloc.ids, snap |-> cloc.snap]

SnapshotInv ==
    /\ Shape
    /\ PriorRevocationsStand
    /\ cpc \in Holding => prior \subseteq cloc.snap
    /\ state # NoState => prior \subseteq state.snap
    /\ state # NoState => state = [scope |-> state.scope, ids |-> state.ids, snap |-> state.snap]

(* Each step that writes the file, takes a snapshot or revokes keeps it. *)
LEMMA SnapshotStep == SnapshotInv /\ [Next]_vars => SnapshotInv'
  <1> SUFFICES ASSUME SnapshotInv, [Next]_vars
               PROVE  SnapshotInv'
    OBVIOUS
  <1> USE DEF SnapshotInv, PriorRevocationsStand, Shape, Holding, files, memory, history
  <1>1. ASSUME NEW s \in Scopes, HoldResolve(s)
        PROVE  SnapshotInv'
    BY <1>1 DEF HoldResolve
  <1>2. CASE HoldSnapshot
    BY <1>2 DEF HoldSnapshot
  <1>3. CASE HoldAppend
    BY <1>3 DEF HoldAppend
  <1>4. CASE HoldReceipt
    BY <1>4 DEF HoldReceipt
  <1>5. CASE HoldReceiptFails
    BY <1>5 DEF HoldReceiptFails
  <1>6. CASE HoldRollback
    BY <1>6 DEF HoldRollback, NoState
  <1>7. CASE HoldWriteState
    BY <1>7 DEF HoldWriteState
  <1>8. CASE HoldMarker
    BY <1>8 DEF HoldMarker, NoState
  <1>8f. CASE HoldMarkerFails
    BY <1>8f DEF HoldMarkerFails, NoState
  <1>9. CASE ResumeReceipt
    BY <1>9 DEF ResumeReceipt
  <1>10. CASE ResumeRestore
    BY <1>10 DEF ResumeRestore
  <1>11. CASE ResumeMarker
    BY <1>11 DEF ResumeMarker
  <1>11f. CASE ResumeMarkerFails
    BY <1>11f DEF ResumeMarkerFails
  <1>12. CASE ResumeClear
    BY <1>12 DEF ResumeClear, NoState
  <1>13. CASE Crash
    BY <1>13 DEF Crash, NoState
  <1>14. ASSUME NEW r \in Registrars, NEW t \in Tokens, RegisterCheck(r, t)
         PROVE  SnapshotInv'
    BY <1>14 DEF RegisterCheck
  <1>15. ASSUME NEW r \in Registrars, RegisterRevoke(r)
         PROVE  SnapshotInv'
    BY <1>15 DEF RegisterRevoke
  <1>16. ASSUME NEW r \in Registrars, RegisterAppend(r)
         PROVE  SnapshotInv'
    BY <1>16 DEF RegisterAppend
  <1>17. ASSUME NEW t \in Tokens, Cascade(t)
         PROVE  SnapshotInv'
    BY <1>17 DEF Cascade
  <1>18. CASE UNCHANGED vars
    BY <1>18 DEF vars
  <1> HIDE DEF SnapshotInv
  <1> QED
    BY <1>1, <1>2, <1>3, <1>4, <1>5, <1>6, <1>7, <1>8, <1>8f, <1>9, <1>10, <1>11, <1>11f,
       <1>12, <1>13, <1>14, <1>15, <1>16, <1>17, <1>18
    DEF Next

(* A cascade revocation made while nothing is held outlives every later hold,
   roll back, resume and crash (_apply_hold_locked, resume). *)
THEOREM HoldsKeepRevocations == Spec => []PriorRevocationsStand
  <1>1. Init => SnapshotInv
    BY DEF Init, SnapshotInv, Shape, Holding, PriorRevocationsStand, NoState
  <1>2. SnapshotInv => PriorRevocationsStand
    BY DEF SnapshotInv
  <1> QED BY <1>1, <1>2, SnapshotStep, PTL DEF Spec

----------------------------------------------------------------------------
(* HoldCovers.  The registrars' caches make it hard: a cache may miss rows
   that others appended between the check and the append of a registration,
   also the marker of a hold.  The invariant says that a registrar that met no
   containment operation knows every marker up to the mtime it remembers, so
   what it registers clean was checked against the hold in force. *)

LostMarkers == [hold : SUBSET Scopes, resume : SUBSET Scopes]

Counts == [holds : Nat, cascades : Nat, faults : Nat, crashes : Nat]

(* The steps of a hold, and of a resume. *)
HoldSteps == {"snapshot", "append", "emit", "rollback", "state", "marker"}
ResumeSteps == {"restore", "unmark", "clear"}

(* A token descends from itself. *)
LEMMA AboveSelf == ASSUME NEW t \in Tokens PROVE t \in Above(t) /\ Above(t) \subseteq Tokens
  BY DEF Above

----------------------------------------------------------------------------
(* The ledger *)

Marker(i) == ledger[i].kind # "cap"

(* A row that is not a resume marker of s. *)
Keeps(row, s) == row # [kind |-> "resume", id |-> s]

(* A hold marker adds its scope, a resume marker takes its scope off, a
   capability changes nothing. *)
LEMMA HoldsGrow ==
    ASSUME ledger \in Seq(Rows), NEW row \in Rows, ledger' = Append(ledger, row)
    PROVE  /\ ledger' \in Seq(Rows)
           /\ All' = All \cup {Len(ledger) + 1} /\ Len(ledger') = Len(ledger) + 1
           /\ All = 1..Len(ledger)
           /\ \A i \in All : ledger'[i] = ledger[i]
           /\ ledger'[Len(ledger) + 1] = row
  BY DEF All

LEMMA MarkersGrow ==
    ASSUME ledger \in Seq(Rows), NEW row \in Rows, ledger' = Append(ledger, row)
    PROVE  /\ row.kind = "cap" => ActiveHolds(All)' = ActiveHolds(All)
           /\ row.kind = "hold" => ActiveHolds(All)' = ActiveHolds(All) \cup {row.id}
           /\ row.kind = "resume" => ActiveHolds(All)' = ActiveHolds(All) \ {row.id}
<1> DEFINE n == Len(ledger) + 1
<1>1. /\ All' = All \cup {n} /\ All = 1..Len(ledger) /\ Len(ledger) \in Nat
      /\ \A i \in All : ledger'[i] = ledger[i]
      /\ ledger'[n] = row /\ \A i \in All : ledger[i] \in Rows
  BY HoldsGrow DEF All
<1>2. \A i \in All : n > i /\ ~(i > n)
  BY <1>1
<1> DEFINE Active(i) == ledger[i].kind = "hold" /\ \A j \in All : j > i => Keeps(ledger[j], ledger[i].id)
           Active2(i) == ledger'[i].kind = "hold" /\ \A j \in All' : j > i => Keeps(ledger'[j], ledger'[i].id)
<1>3. ActiveHolds(All) = {ledger[i].id : i \in {k \in All : Active(k)}}
  BY DEF ActiveHolds, Keeps
<1>4. ActiveHolds(All)' = {ledger'[i].id : i \in {k \in All' : Active2(k)}}
  BY DEF ActiveHolds, Keeps
<1>5. ASSUME NEW i \in All PROVE Active2(i) <=> Active(i) /\ Keeps(row, ledger[i].id)
  BY <1>1, <1>2, <1>5
<1>6. Active2(n) <=> row.kind = "hold"
  BY <1>1, <1>2
<1>7. row.kind # "resume" => \A x : Keeps(row, x)
  BY DEF Keeps
<1>8. row.kind = "resume" => \A x : Keeps(row, x) <=> x # row.id
  BY DEF Keeps, Rows
<1> HIDE DEF Active, Active2, n, ActiveHolds, All
<1>9. ASSUME NEW x
      PROVE  x \in ActiveHolds(All)' <=>
               \/ \E k \in All : Active(k) /\ Keeps(row, ledger[k].id) /\ x = ledger[k].id
               \/ row.kind = "hold" /\ x = row.id
  <2>1. x \in ActiveHolds(All)' <=> \E k \in All' : Active2(k) /\ x = ledger'[k].id
    BY <1>4
  <2>2. \A k \in All' : k \in All \/ k = n
    BY <1>1
  <2> QED BY <1>1, <1>5, <1>6, <2>1, <2>2
<1>10. ASSUME NEW x
       PROVE  x \in ActiveHolds(All) <=> \E k \in All : Active(k) /\ x = ledger[k].id
  BY <1>3
<1> QED BY <1>7, <1>8, <1>9, <1>10

(* A registrar that knows every marker finds the holds that are in force. *)
LEMMA MarkersSuffice ==
    ASSUME NEW K, K \subseteq All, \A i \in All : Marker(i) => i \in K
    PROVE  ActiveHolds(K) = ActiveHolds(All)
<1>1. ASSUME NEW k \in All, ledger[k].kind = "hold"
      PROVE  k \in K /\ ((\A j \in K : j > k => Keeps(ledger[j], ledger[k].id))
                          <=> (\A j \in All : j > k => Keeps(ledger[j], ledger[k].id)))
  <2>1. ASSUME NEW j \in All, j \notin K PROVE Keeps(ledger[j], ledger[k].id)
    BY <2>1 DEF Marker, Keeps
  <2> QED BY <1>1, <2>1 DEF Marker
<1> QED BY <1>1 DEF ActiveHolds, Keeps

----------------------------------------------------------------------------
(* Types *)

(* The locals of a hold are a state record. *)
LEMMA ResolvedTyped ==
    ASSUME ledger \in Seq(Rows), NEW s \in Scopes
    PROVE  /\ ResolveIds(s) \in SUBSET Tokens
           /\ s \in Tokens => Descendants(All, s) \in SUBSET Tokens
<1>1. ASSUME NEW u \in Records(All) PROVE u \in Tokens
  <2>1. PICK i \in All : ledger[i].kind = "cap" /\ u = ledger[i].id
    BY DEF Records
  <2>2. ledger[i] \in Rows
    BY DEF All
  <2> QED BY <2>1, <2>2 DEF Rows
<1>2. TokensForAgent(All, s) \in SUBSET Tokens
  BY <1>1 DEF TokensForAgent
<1>3. s \in Tokens => Descendants(All, s) \in SUBSET Tokens
  BY <1>1 DEF Descendants
<1>4. {} \in SUBSET Tokens
  OBVIOUS
<1> QED BY <1>1, <1>2, <1>3, <1>4 DEF ResolveIds

LEMMA UsedTyped ==
    ASSUME used \in Counts
    PROVE  /\ [used EXCEPT !.holds = @ + 1] \in Counts
           /\ [used EXCEPT !.cascades = @ + 1] \in Counts
           /\ [used EXCEPT !.faults = @ + 1] \in Counts
           /\ [used EXCEPT !.crashes = @ + 1] \in Counts
  BY DEF Counts

LEMMA LostTyped ==
    ASSUME lost \in LostMarkers, NEW s \in Scopes
    PROVE  /\ [lost EXCEPT !.hold = @ \cup {s}] \in LostMarkers
           /\ [lost EXCEPT !.hold = {}] \in LostMarkers
           /\ [lost EXCEPT !.resume = @ \cup {s}] \in LostMarkers
           /\ [lost EXCEPT !.resume = @ \ {s}] \in LostMarkers
<1>1. /\ lost = [hold |-> lost.hold, resume |-> lost.resume]
      /\ lost.hold \in SUBSET Scopes /\ lost.resume \in SUBSET Scopes
  BY DEF LostMarkers
<1>2. /\ lost.hold \cup {s} \in SUBSET Scopes /\ {} \in SUBSET Scopes
      /\ lost.resume \cup {s} \in SUBSET Scopes /\ lost.resume \ {s} \in SUBSET Scopes
  BY <1>1
<1> QED BY <1>1, <1>2 DEF LostMarkers

LEMMA NoStateTyped == NoState \in State
<1>1. {} \in SUBSET Tokens /\ None \in Scopes \cup {None}
  OBVIOUS
<1> QED BY <1>1 DEF NoState, State

(* A hold or resume under way has a scope, a registration a token. *)
ScopedInv ==
    /\ TypeOK
    /\ cpc # "idle" => cloc.scope \in Scopes
    /\ state # NoState => state.scope \in Scopes
    /\ \A r \in Registrars : rpc[r] # "idle" => rtok[r] \in Tokens

LEMMA ScopedStep == ScopedInv /\ [Next]_vars => ScopedInv'
<1> SUFFICES ASSUME ScopedInv, [Next]_vars PROVE ScopedInv'
  OBVIOUS
<1> USE DelegationAssumption DEF ScopedInv, TypeOK, CSteps, RSteps, files, memory, history
<1>0. NoState \in State /\ used \in Counts /\ lost \in LostMarkers
  BY NoStateTyped DEF Counts, LostMarkers
<1>c. cloc.snap \in SUBSET Tokens /\ cloc.ids \in SUBSET Tokens
  BY DEF State
<1>u. ASSUME \/ used' = [used EXCEPT !.holds = @ + 1] \/ used' = [used EXCEPT !.cascades = @ + 1]
             \/ used' = [used EXCEPT !.faults = @ + 1] \/ used' = [used EXCEPT !.crashes = @ + 1]
      PROVE  used' \in [holds : Nat, cascades : Nat, faults : Nat, crashes : Nat]
  BY <1>0, <1>u, UsedTyped DEF Counts
<1>1. ASSUME NEW s \in Scopes, HoldResolve(s) PROVE ScopedInv'
  <2>1. [scope |-> s, ids |-> ResolveIds(s), snap |-> {}] \in State
    BY ResolvedTyped DEF State
  <2>2. used' \in [holds : Nat, cascades : Nat, faults : Nat, crashes : Nat]
    BY <1>1, <1>u DEF HoldResolve
  <2> QED BY <1>1, <2>1, <2>2 DEF HoldResolve
<1>2. CASE HoldSnapshot
  <2>1. [cloc EXCEPT !.snap = revoked] \in State /\ [cloc EXCEPT !.snap = revoked].scope = cloc.scope
    BY DEF State
  <2> QED BY <1>2, <2>1 DEF HoldSnapshot
<1>3. CASE HoldAppend
  BY <1>3, <1>c DEF HoldAppend
<1>4. CASE HoldReceipt
  BY <1>4 DEF HoldReceipt
<1>5. CASE HoldReceiptFails
  <2>1. used' \in [holds : Nat, cascades : Nat, faults : Nat, crashes : Nat]
    BY <1>5, <1>u DEF HoldReceiptFails
  <2> QED BY <1>5, <2>1 DEF HoldReceiptFails
<1>6. CASE HoldRollback
  BY <1>0, <1>6, <1>c DEF HoldRollback
<1>7. CASE HoldWriteState
  BY <1>7 DEF HoldWriteState
<1>8. CASE HoldMarker
  <2>1. [kind |-> "hold", id |-> cloc.scope] \in Rows
    BY <1>8 DEF Rows, HoldMarker
  <2>2. ledger' \in Seq(Rows)
    BY <1>8, <2>1, HoldsGrow DEF HoldMarker
  <2> QED BY <1>0, <1>8, <2>2 DEF HoldMarker
<1>8f. CASE HoldMarkerFails
  <2>1. used' \in [holds : Nat, cascades : Nat, faults : Nat, crashes : Nat]
    BY <1>8f, <1>u DEF HoldMarkerFails
  <2>2. lost' \in [hold : SUBSET Scopes, resume : SUBSET Scopes]
    BY <1>0, <1>8f, LostTyped DEF HoldMarkerFails, LostMarkers
  <2> QED BY <1>0, <1>8f, <2>1, <2>2 DEF HoldMarkerFails
<1>9. CASE ResumeReceipt
  BY <1>9 DEF ResumeReceipt
<1>10. CASE ResumeRestore
  BY <1>10, <1>c DEF ResumeRestore
<1>11. CASE ResumeMarker
  <2>1. [kind |-> "resume", id |-> cloc.scope] \in Rows
    BY <1>11 DEF Rows, ResumeMarker
  <2>2. ledger' \in Seq(Rows)
    BY <1>11, <2>1, HoldsGrow DEF ResumeMarker
  <2>3. lost' \in [hold : SUBSET Scopes, resume : SUBSET Scopes]
    BY <1>0, <1>11, LostTyped DEF ResumeMarker, LostMarkers
  <2> QED BY <1>11, <2>2, <2>3 DEF ResumeMarker
<1>11f. CASE ResumeMarkerFails
  <2>1. used' \in [holds : Nat, cascades : Nat, faults : Nat, crashes : Nat]
    BY <1>11f, <1>u DEF ResumeMarkerFails
  <2>2. lost' \in [hold : SUBSET Scopes, resume : SUBSET Scopes]
    BY <1>0, <1>11f, LostTyped DEF ResumeMarkerFails, LostMarkers
  <2> QED BY <1>11f, <2>1, <2>2 DEF ResumeMarkerFails
<1>12. CASE ResumeClear
  <2>1. cloc.scope \in Scopes
    BY <1>12 DEF ResumeClear
  <2>2. lost' \in [hold : SUBSET Scopes, resume : SUBSET Scopes]
    BY <1>0, <1>12, <2>1, LostTyped DEF ResumeClear, LostMarkers
  <2> QED BY <1>0, <1>12, <2>2 DEF ResumeClear
<1>13. CASE Crash
  <2>1. used' \in [holds : Nat, cascades : Nat, faults : Nat, crashes : Nat]
    BY <1>13, <1>u DEF Crash
  <2> QED BY <1>0, <1>13, <2>1 DEF Crash
<1>14. ASSUME NEW r \in Registrars, NEW t \in Tokens, RegisterCheck(r, t) PROVE ScopedInv'
  <2>1. Loaded(r) \in SUBSET Nat /\ Len(ledger) \in Nat
    BY DEF Loaded, All
  <2> QED BY <1>14, <2>1 DEF RegisterCheck
<1>15. ASSUME NEW r \in Registrars, RegisterRevoke(r) PROVE ScopedInv'
  BY <1>15 DEF RegisterRevoke
<1>16. ASSUME NEW r \in Registrars, RegisterAppend(r) PROVE ScopedInv'
  <2>1. [kind |-> "cap", id |-> rtok[r], clean |-> ~raced[r]] \in Rows
    BY <1>16 DEF Rows, RegisterAppend
  <2>2. ledger' \in Seq(Rows) /\ Len(ledger) \in Nat
    BY <1>16, <2>1, HoldsGrow DEF RegisterAppend
  <2> QED BY <1>16, <2>2 DEF RegisterAppend
<1>17. ASSUME NEW t \in Tokens, Cascade(t) PROVE ScopedInv'
  <2>1. Descendants(All, t) \in SUBSET Tokens
    BY ResolvedTyped DEF Scopes
  <2>2. used' \in [holds : Nat, cascades : Nat, faults : Nat, crashes : Nat]
    BY <1>17, <1>u DEF Cascade
  <2> QED BY <1>17, <2>1, <2>2 DEF Cascade
<1>18. CASE UNCHANGED vars
  BY <1>18 DEF vars
<1> HIDE DEF ScopedInv
<1> QED
  BY <1>1, <1>2, <1>3, <1>4, <1>5, <1>6, <1>7, <1>8, <1>8f, <1>9, <1>10, <1>11, <1>11f,
     <1>12, <1>13, <1>14, <1>15, <1>16, <1>17, <1>18
  DEF Next

----------------------------------------------------------------------------
(* Containment and its files *)

(* A hold works while nothing is held, and writes its state when its ids are
   revoked and its receipt is in the log; until a resume is receipted they stay
   revoked. *)
StepInv ==
    /\ cpc \in HoldSteps \ {"marker"} => state = NoState
    /\ cpc \in ResumeSteps \cup {"marker"} => state = cloc /\ state # NoState
    /\ cpc \in {"emit", "state"} => cloc.ids \subseteq revoked
    /\ cpc \in {"state", "marker"} => lastReceipt = "hold"
    /\ cpc \in ResumeSteps => lastReceipt = "resume"
    /\ state # NoState /\ lastReceipt = "hold" => state.ids \subseteq revoked
    /\ used.crashes = 0 /\ state # NoState /\ cpc = "idle" => lastReceipt = "hold"
    /\ cpc \in HoldSteps /\ cloc.scope \in Tokens => cloc.scope \in cloc.ids
    /\ state.scope \in Tokens => state.scope \in state.ids

(* What the markers say at each step, as long as no process died: the scope in
   force unless its marker was lost, and nothing else but the scopes of which a
   resume marker was. *)
MarkInv ==
    used.crashes = 0 =>
        /\ cpc \notin {"marker", "clear"} =>
              {state.scope} \ {None} \subseteq ActiveHolds(All) \cup lost.hold
        /\ ActiveHolds(All) \subseteq
              lost.resume \cup (IF cpc \in {"marker", "clear"} THEN {} ELSE {state.scope} \ {None})

(* The hold in force has its marker in the ledger. *)
Published == used.crashes = 0 /\ state.scope \notin lost.hold

(* A registrar that met no containment operation knows every marker that is as
   old as its copy, and in the middle of a registration every marker; past its
   check, what it registers for a held agent is revoked. *)
CacheInv ==
    \A r \in Registrars :
        /\ stamp[r] <= Len(ledger) /\ known[r] \subseteq All
        /\ ~raced[r] => \A i \in All : i <= stamp[r] /\ Marker(i) => i \in known[r]
        /\ rpc[r] # "idle" /\ ~raced[r] =>
              cpc = "idle" /\ \A i \in All : Marker(i) => i \in known[r]
        /\ rpc[r] = "append" /\ ~raced[r] /\ Published /\ state.scope = Delegate[rtok[r]] =>
              rtok[r] \in revoked

Clean(i) == ledger[i].kind = "cap" /\ ledger[i].clean

(* A clean row of a held agent is among the ids of the hold under way, and
   revoked while the hold stands. *)
CleanInv ==
    \A i \in All : Clean(i) =>
        /\ cpc \in HoldSteps /\ Delegate[ledger[i].id] = cloc.scope => ledger[i].id \in cloc.ids
        /\ Published /\ cpc \in {"idle", "marker"} /\ Delegate[ledger[i].id] = state.scope =>
              ledger[i].id \in revoked

HoldInv == ScopedInv /\ StepInv /\ MarkInv /\ CacheInv /\ CleanInv

(* What is revoked by others leaves containment where it is. *)
LEMMA StepFrame ==
    ASSUME StepInv, UNCHANGED <<cpc, cloc, state, lastReceipt>>, revoked \subseteq revoked',
           used'.crashes = used.crashes
    PROVE  StepInv'
  BY DEF StepInv

LEMMA OthersFrame ==
    ASSUME ScopedInv,
           \/ \E r \in Registrars, t \in Tokens : RegisterCheck(r, t)
           \/ \E r \in Registrars : RegisterRevoke(r) \/ RegisterAppend(r)
           \/ \E t \in Tokens : Cascade(t)
    PROVE  /\ UNCHANGED <<cpc, cloc, state, lastReceipt, lost>>
           /\ revoked \subseteq revoked' /\ used'.crashes = used.crashes
<1>1. used \in Counts
  BY DEF ScopedInv, TypeOK, Counts
<1> QED BY <1>1 DEF RegisterCheck, RegisterRevoke, RegisterAppend, Cascade, files, history, memory, Counts

LEMMA NoStateIs == NoState.scope = None /\ NoState.ids = {} /\ None \notin Scopes \cup Tokens
  BY DelegationAssumption DEF NoState, Scopes

(* One case per action of containment. *)
LEMMA StepStep == ScopedInv /\ StepInv /\ [Next]_vars => StepInv'
<1> SUFFICES ASSUME ScopedInv, StepInv, [Next]_vars PROVE StepInv'
  OBVIOUS
<1> USE NoStateIs DEF StepInv, HoldSteps, ResumeSteps, files, memory, history
<1>0. used \in Counts /\ (cpc # "idle" => cloc.scope \in Scopes) /\ cloc \in State
  BY DEF ScopedInv, TypeOK, Counts
<1>1. ASSUME NEW s \in Scopes, HoldResolve(s) PROVE StepInv'
  <2>1. s \in Tokens => s \in ResolveIds(s)
    BY <1>1, DelegationAssumption DEF HoldResolve, ResolveIds, Descendants
  <2>2. cloc'.scope = s /\ cloc'.ids = ResolveIds(s)
    BY <1>1 DEF HoldResolve
  <2> QED BY <1>1, <2>1, <2>2 DEF HoldResolve
<1>2. CASE HoldSnapshot
  <2>1. cloc'.scope = cloc.scope /\ cloc'.ids = cloc.ids
    BY <1>0, <1>2 DEF HoldSnapshot, State
  <2> QED BY <1>2, <2>1 DEF HoldSnapshot
<1>3. CASE HoldAppend
  BY <1>3 DEF HoldAppend
<1>4. CASE HoldReceipt
  BY <1>4 DEF HoldReceipt
<1>5. CASE HoldReceiptFails
  <2>1. used'.crashes = used.crashes
    BY <1>0, <1>5 DEF HoldReceiptFails, Counts
  <2> QED BY <1>5, <2>1 DEF HoldReceiptFails
<1>6. CASE HoldRollback
  BY <1>6 DEF HoldRollback
<1>7. CASE HoldWriteState
  BY <1>0, <1>7 DEF HoldWriteState
<1>8. CASE HoldMarker
  BY <1>8 DEF HoldMarker
<1>8f. CASE HoldMarkerFails
  <2>1. used'.crashes = used.crashes
    BY <1>0, <1>8f DEF HoldMarkerFails, Counts
  <2> QED BY <1>8f, <2>1 DEF HoldMarkerFails
<1>9. CASE ResumeReceipt
  BY <1>9 DEF ResumeReceipt
<1>10. CASE ResumeRestore
  BY <1>10 DEF ResumeRestore
<1>11. CASE ResumeMarker
  BY <1>11 DEF ResumeMarker
<1>11f. CASE ResumeMarkerFails
  <2>1. used'.crashes = used.crashes
    BY <1>0, <1>11f DEF ResumeMarkerFails, Counts
  <2> QED BY <1>11f, <2>1 DEF ResumeMarkerFails
<1>12. CASE ResumeClear
  BY <1>12 DEF ResumeClear
<1>13. CASE Crash
  <2>1. used'.crashes # 0
    BY <1>0, <1>13 DEF Crash, Counts
  <2> QED BY <1>13, <2>1 DEF Crash
<1>14. ASSUME \/ \E r \in Registrars, t \in Tokens : RegisterCheck(r, t)
              \/ \E r \in Registrars : RegisterRevoke(r) \/ RegisterAppend(r)
              \/ \E t \in Tokens : Cascade(t)
       PROVE  StepInv'
  BY <1>14, OthersFrame, StepFrame
<1>15. CASE UNCHANGED vars
  BY <1>15, StepFrame DEF vars
<1> HIDE DEF StepInv
<1> QED
  BY <1>1, <1>2, <1>3, <1>4, <1>5, <1>6, <1>7, <1>8, <1>8f, <1>9, <1>10, <1>11, <1>11f,
     <1>12, <1>13, <1>14, <1>15
  DEF Next

(* Only the two markers change what is active: the state is already, or still,
   the one of their hold. *)
LEMMA MarkStep == ScopedInv /\ StepInv /\ MarkInv /\ [Next]_vars => MarkInv'
<1> SUFFICES ASSUME ScopedInv, StepInv, MarkInv, [Next]_vars PROVE MarkInv'
  OBVIOUS
<1>0. /\ used \in Counts /\ (cpc # "idle" => cloc.scope \in Scopes) /\ cloc \in State
      /\ ledger \in Seq(Rows) /\ lost \in LostMarkers
  BY DEF ScopedInv, TypeOK, Counts, LostMarkers
<1>1. ASSUME UNCHANGED <<ledger, state, lost>>, used'.crashes = used.crashes,
             cpc \in {"marker", "clear"} <=> cpc' \in {"marker", "clear"}
      PROVE  MarkInv'
  <2>1. ActiveHolds(All)' = ActiveHolds(All)
    BY <1>1 DEF ActiveHolds, All
  <2> QED BY <1>1, <2>1 DEF MarkInv
<1>2. ASSUME NEW s \in Scopes, HoldResolve(s) PROVE MarkInv'
  <2>1. used'.crashes = used.crashes
    BY <1>0, <1>2 DEF HoldResolve, Counts
  <2> QED BY <1>1, <1>2, <2>1 DEF HoldResolve, files, history
<1>3. CASE HoldSnapshot \/ HoldAppend \/ HoldReceipt \/ HoldRollback \/ ResumeReceipt \/ ResumeRestore
  BY <1>1, <1>3 DEF HoldSnapshot, HoldAppend, HoldReceipt, HoldRollback, ResumeReceipt,
                    ResumeRestore, files, history
<1>4. CASE HoldReceiptFails
  <2>1. used'.crashes = used.crashes
    BY <1>0, <1>4 DEF HoldReceiptFails, Counts
  <2> QED BY <1>1, <1>4, <2>1 DEF HoldReceiptFails, files, history
<1>5. CASE HoldWriteState
  <2>1. ActiveHolds(All)' = ActiveHolds(All)
    BY <1>5 DEF HoldWriteState, ActiveHolds, All
  <2>2. state = NoState
    BY <1>5 DEF HoldWriteState, StepInv, HoldSteps
  <2> QED BY <1>5, <2>1, <2>2, NoStateIs DEF HoldWriteState, MarkInv, history
<1>6. CASE HoldMarker
  <2>1. [kind |-> "hold", id |-> cloc.scope] \in Rows
    BY <1>0, <1>6 DEF HoldMarker, Rows
  <2>2. ActiveHolds(All)' = ActiveHolds(All) \cup {cloc.scope}
    BY <1>0, <1>6, <2>1, MarkersGrow DEF HoldMarker
  <2>3. state' = cloc /\ cloc.scope \in Scopes
    BY <1>0, <1>6 DEF HoldMarker, StepInv, ResumeSteps
  <2> QED BY <1>6, <2>2, <2>3, NoStateIs DEF HoldMarker, MarkInv, history
<1>6f. CASE HoldMarkerFails
  <2>1. used'.crashes = used.crashes /\ cpc' = "idle"
    BY <1>0, <1>6f DEF HoldMarkerFails, Counts
  <2>2. ActiveHolds(All)' = ActiveHolds(All)
    BY <1>6f DEF HoldMarkerFails, ActiveHolds, All, files
  <2>3. state' = cloc /\ cloc.scope \in Scopes
    BY <1>0, <1>6f DEF HoldMarkerFails, StepInv, ResumeSteps, files
  <2>4. lost'.hold = lost.hold \cup {cloc.scope} /\ lost'.resume = lost.resume
    BY <1>0, <1>6f DEF HoldMarkerFails, LostMarkers
  <2> QED BY <1>6f, <2>1, <2>2, <2>3, <2>4 DEF HoldMarkerFails, MarkInv
<1>7. CASE ResumeMarker
  <2>1. [kind |-> "resume", id |-> cloc.scope] \in Rows
    BY <1>0, <1>7 DEF ResumeMarker, Rows
  <2>2. ActiveHolds(All)' = ActiveHolds(All) \ {cloc.scope}
    BY <1>0, <1>7, <2>1, MarkersGrow DEF ResumeMarker
  <2>3. state = cloc /\ cloc.scope \in Scopes
    BY <1>0, <1>7 DEF ResumeMarker, StepInv, ResumeSteps
  <2>4. lost'.resume = lost.resume \ {cloc.scope}
    BY <1>0, <1>7 DEF ResumeMarker, LostMarkers
  <2> QED BY <1>7, <2>2, <2>3, <2>4 DEF ResumeMarker, MarkInv
<1>7f. CASE ResumeMarkerFails
  <2>1. used'.crashes = used.crashes /\ cpc' = "clear" /\ cpc = "unmark"
    BY <1>0, <1>7f DEF ResumeMarkerFails, Counts
  <2>2. ActiveHolds(All)' = ActiveHolds(All)
    BY <1>7f DEF ResumeMarkerFails, ActiveHolds, All, files
  <2>3. state = cloc
    BY <1>7f DEF ResumeMarkerFails, StepInv, ResumeSteps
  <2>4. lost'.resume = lost.resume \cup {cloc.scope}
    BY <1>0, <1>7f DEF ResumeMarkerFails, LostMarkers
  <2> QED BY <2>1, <2>2, <2>3, <2>4 DEF MarkInv
<1>8. CASE ResumeClear
  <2>1. ActiveHolds(All)' = ActiveHolds(All)
    BY <1>8 DEF ResumeClear, ActiveHolds, All
  <2>2. state' = NoState /\ lost'.resume = lost.resume /\ used' = used
    BY <1>0, <1>8 DEF ResumeClear, LostMarkers
  <2> QED BY <1>8, <2>1, <2>2, NoStateIs DEF ResumeClear, MarkInv
<1>9. CASE Crash
  <2>1. used'.crashes # 0
    BY <1>0, <1>9 DEF Crash, Counts
  <2> QED BY <2>1 DEF MarkInv
<1>10. ASSUME NEW r \in Registrars, RegisterAppend(r) PROVE MarkInv'
  <2>1. [kind |-> "cap", id |-> rtok[r], clean |-> ~raced[r]] \in Rows
    BY <1>10 DEF RegisterAppend, Rows, ScopedInv, TypeOK
  <2>2. ActiveHolds(All)' = ActiveHolds(All)
    BY <1>0, <1>10, <2>1, MarkersGrow DEF RegisterAppend
  <2> QED BY <1>10, <2>2 DEF RegisterAppend, MarkInv, history
<1>11. ASSUME \/ \E r \in Registrars, t \in Tokens : RegisterCheck(r, t)
              \/ \E r \in Registrars : RegisterRevoke(r)
              \/ \E t \in Tokens : Cascade(t)
       PROVE  MarkInv'
  <2>1. ledger' = ledger
    BY <1>11 DEF RegisterCheck, RegisterRevoke, Cascade, files
  <2> QED BY <1>1, <1>11, <2>1, OthersFrame
<1>12. CASE UNCHANGED vars
  BY <1>1, <1>12 DEF vars, files, history
<1> QED
  BY <1>2, <1>3, <1>4, <1>5, <1>6, <1>6f, <1>7, <1>7f, <1>8, <1>9, <1>10, <1>11, <1>12 DEF Next

----------------------------------------------------------------------------
(* Registrars and what they register *)

(* Containment leaves the copies of the registrars alone and marks those it
   meets; the rows it writes are markers. *)
ContainmentKeeps ==
    /\ UNCHANGED <<known, stamp, rpc, rtok>>
    /\ \A r \in Registrars : raced[r] => raced'[r]
    /\ cpc # "idle" \/ (\A r \in Registrars : rpc[r] # "idle" => raced'[r])
    /\ \/ ledger' = ledger
       \/ \E row \in Rows : row.kind # "cap" /\ ledger' = Append(ledger, row)

ContainmentStep ==
    \/ \E s \in Scopes : HoldResolve(s)
    \/ HoldSnapshot \/ HoldAppend \/ HoldReceipt \/ HoldReceiptFails \/ HoldRollback
    \/ HoldWriteState \/ HoldMarker \/ HoldMarkerFails
    \/ ResumeReceipt \/ ResumeRestore \/ ResumeMarker \/ ResumeMarkerFails \/ ResumeClear
    \/ Crash

LEMMA ContainmentIs == ScopedInv /\ ContainmentStep => ContainmentKeeps
<1> SUFFICES ASSUME ScopedInv, ContainmentStep PROVE ContainmentKeeps
  OBVIOUS
<1>0. raced \in [Registrars -> BOOLEAN] /\ (cpc # "idle" => cloc.scope \in Scopes)
  BY DEF ScopedInv, TypeOK
<1>1. ASSUME NEW s \in Scopes, HoldResolve(s) PROVE ContainmentKeeps
  BY <1>0, <1>1 DEF HoldResolve, ContainmentKeeps, files, memory
<1>2. CASE ResumeReceipt
  BY <1>0, <1>2 DEF ResumeReceipt, ContainmentKeeps, files, memory
<1>3. CASE HoldMarker
  <2>1. [kind |-> "hold", id |-> cloc.scope] \in Rows
    BY <1>0, <1>3 DEF HoldMarker, Rows
  <2> QED BY <1>3, <2>1 DEF HoldMarker, ContainmentKeeps, memory
<1>4. CASE ResumeMarker
  <2>1. [kind |-> "resume", id |-> cloc.scope] \in Rows
    BY <1>0, <1>4 DEF ResumeMarker, Rows
  <2> QED BY <1>4, <2>1 DEF ResumeMarker, ContainmentKeeps, memory
<1>5. CASE \/ HoldSnapshot \/ HoldAppend \/ HoldReceipt \/ HoldReceiptFails \/ HoldRollback
           \/ HoldWriteState \/ HoldMarkerFails \/ ResumeRestore \/ ResumeMarkerFails
           \/ ResumeClear \/ Crash
  BY <1>5 DEF HoldSnapshot, HoldAppend, HoldReceipt, HoldReceiptFails, HoldRollback,
              HoldWriteState, HoldMarkerFails, ResumeRestore, ResumeMarkerFails, ResumeClear, Crash, ContainmentKeeps, files, memory
<1> QED BY <1>1, <1>2, <1>3, <1>4, <1>5 DEF ContainmentStep

(* A registration that overlaps a containment operation is marked, so a step of
   containment finds nothing to keep for it. *)
LEMMA CacheContained ==
    ASSUME ScopedInv, CacheInv, ContainmentStep
    PROVE  CacheInv'
<1>1. ContainmentKeeps /\ ledger \in Seq(Rows) /\ stamp \in [Registrars -> Nat]
  BY ContainmentIs DEF ScopedInv, TypeOK
<1>2. /\ All \subseteq All' /\ Len(ledger) <= Len(ledger') /\ All = 1..Len(ledger)
      /\ \A i \in All : ledger'[i] = ledger[i]
  <2>1. CASE ledger' = ledger
    BY <1>1, <2>1 DEF All
  <2>2. ASSUME NEW row \in Rows, ledger' = Append(ledger, row)
        PROVE  /\ All \subseteq All' /\ Len(ledger) <= Len(ledger') /\ All = 1..Len(ledger)
               /\ \A i \in All : ledger'[i] = ledger[i]
    BY <1>1, <2>2, HoldsGrow
  <2> QED BY <1>1, <2>1, <2>2 DEF ContainmentKeeps
<1>3. ASSUME NEW r \in Registrars
      PROVE  /\ stamp'[r] <= Len(ledger') /\ known'[r] \subseteq All'
             /\ ~raced'[r] => \A i \in All' : i <= stamp'[r] /\ Marker(i)' => i \in known'[r]
             /\ rpc'[r] # "idle" => raced'[r]
  <2>1. /\ stamp'[r] = stamp[r] /\ known'[r] = known[r] /\ rpc'[r] = rpc[r]
        /\ stamp[r] \in Nat /\ stamp[r] <= Len(ledger) /\ known[r] \subseteq All
        /\ raced[r] => raced'[r]
    BY <1>1, <1>3 DEF ContainmentKeeps, CacheInv
  <2>2. rpc'[r] # "idle" => raced'[r]
    BY <1>1, <2>1 DEF ContainmentKeeps, CacheInv
  <2>3. ASSUME ~raced'[r], NEW i \in All', i <= stamp'[r], Marker(i)' PROVE i \in known'[r]
    <3>1. All' = 1..Len(ledger') /\ Len(ledger) \in Nat
      BY <1>1, <1>2, HoldsGrow DEF All, ContainmentKeeps
    <3>2. i \in All
      BY <1>2, <2>1, <2>3, <3>1
    <3>3. Marker(i)
      BY <1>2, <2>3, <3>2 DEF Marker
    <3> QED BY <2>1, <2>3, <3>2, <3>3 DEF CacheInv
  <2>4. Len(ledger) \in Nat /\ Len(ledger') \in Nat
    <3>1. ledger' \in Seq(Rows)
      BY <1>1, HoldsGrow DEF ContainmentKeeps
    <3> QED BY <1>1, <3>1
  <2> QED BY <1>2, <2>1, <2>2, <2>3, <2>4
<1> QED BY <1>3 DEF CacheInv

(* Whatever is revoked stays revoked while others revoke more. *)
LEMMA CacheRevoke ==
    ASSUME CacheInv, revoked \subseteq revoked', used'.crashes = used.crashes,
           UNCHANGED <<ledger, state, cpc, lost, known, stamp, rtok, raced>>,
           \A r \in Registrars :
              \/ rpc'[r] = rpc[r]
              \/ rpc'[r] = "append" /\ rpc[r] # "idle" /\ rtok[r] \in revoked'
    PROVE  CacheInv'
<1>1. All' = All /\ \A i : Marker(i)' = Marker(i)
  BY DEF All, Marker
<1> QED BY <1>1 DEF CacheInv, Published

(* The check: a copy that misses no marker shows the hold in force, so past it
   the token is on its way to the revocations, or of no held agent. *)
LEMMA CacheCheck ==
    ASSUME ScopedInv, MarkInv, CacheInv, NEW r \in Registrars, NEW t \in Tokens,
           RegisterCheck(r, t)
    PROVE  CacheInv'
<1> DEFINE K == Loaded(r)
<1>1. /\ UNCHANGED <<ledger, revoked, state, cpc, used, lost>>
      /\ stamp \in [Registrars -> Nat] /\ raced \in [Registrars -> BOOLEAN]
      /\ known \in [Registrars -> SUBSET Nat] /\ rpc \in [Registrars -> RSteps]
      /\ rtok \in [Registrars -> Tokens \cup {None}]
      /\ All = 1..Len(ledger) /\ Len(ledger) \in Nat
  BY DEF RegisterCheck, ScopedInv, TypeOK, files, history, All
<1>2. /\ known'[r] = K /\ stamp'[r] = Len(ledger) /\ rtok'[r] = t
      /\ rpc'[r] = IF \E s \in ActiveHolds(K) : Hit(K, t, s) THEN "revoke" ELSE "append"
      /\ raced'[r] = (cpc # "idle" \/ (raced[r] /\ stamp[r] = Len(ledger)))
      /\ \A q \in Registrars : q # r => /\ known'[q] = known[q] /\ stamp'[q] = stamp[q]
                                        /\ rtok'[q] = rtok[q] /\ rpc'[q] = rpc[q]
                                        /\ raced'[q] = raced[q]
  BY <1>1 DEF RegisterCheck
<1>3. K \subseteq All
  BY DEF Loaded, CacheInv
<1>4. ASSUME ~raced'[r]
      PROVE  cpc = "idle" /\ \A i \in All : Marker(i) => i \in K
  <2>1. CASE stamp[r] = Len(ledger)
    <3>1. ~raced[r] /\ cpc = "idle"
      BY <1>2, <1>4, <2>1
    <3>2. K = known[r]
      BY <2>1 DEF Loaded
    <3>3. \A i \in All : i <= stamp[r] /\ Marker(i) => i \in known[r]
      BY <3>1 DEF CacheInv
    <3>4. \A i \in All : i <= stamp[r]
      BY <1>1, <2>1
    <3> QED BY <3>1, <3>2, <3>3, <3>4
  <2>2. CASE stamp[r] # Len(ledger)
    BY <1>2, <1>4, <2>2 DEF Loaded
  <2> QED BY <2>1, <2>2
<1>5. ASSUME rpc'[r] = "append", ~raced'[r], Published', state'.scope = Delegate[t]
      PROVE  FALSE
  <2>1. ActiveHolds(K) = ActiveHolds(All)
    BY <1>3, <1>4, <1>5, MarkersSuffice
  <2>2. state.scope = Delegate[t] /\ Delegate[t] \in Scopes
    BY <1>1, <1>5, DelegationAssumption DEF Scopes
  <2>3. Delegate[t] \in ActiveHolds(All)
    BY <1>1, <1>4, <1>5, <2>2, NoStateIs DEF MarkInv, Published
  <2>4. Hit(K, t, Delegate[t])
    BY DEF Hit
  <2> QED BY <1>2, <1>5, <2>1, <2>3, <2>4
<1> HIDE DEF K
<1>6. All' = All /\ \A i : Marker(i)' = Marker(i)
  BY <1>1 DEF All, Marker
<1>7. ASSUME NEW q \in Registrars, q # r
      PROVE  /\ stamp'[q] <= Len(ledger') /\ known'[q] \subseteq All'
             /\ ~raced'[q] => \A i \in All' : i <= stamp'[q] /\ Marker(i)' => i \in known'[q]
             /\ rpc'[q] # "idle" /\ ~raced'[q] =>
                   cpc' = "idle" /\ \A i \in All' : Marker(i)' => i \in known'[q]
             /\ rpc'[q] = "append" /\ ~raced'[q] /\ Published' /\ state'.scope = Delegate[rtok'[q]] =>
                   rtok'[q] \in revoked'
  BY <1>1, <1>2, <1>6, <1>7 DEF CacheInv, Published
<1>8. /\ stamp'[r] <= Len(ledger') /\ known'[r] \subseteq All'
      /\ ~raced'[r] => \A i \in All' : i <= stamp'[r] /\ Marker(i)' => i \in known'[r]
      /\ rpc'[r] # "idle" /\ ~raced'[r] =>
            cpc' = "idle" /\ \A i \in All' : Marker(i)' => i \in known'[r]
      /\ rpc'[r] = "append" /\ ~raced'[r] /\ Published' /\ state'.scope = Delegate[rtok'[r]] =>
            rtok'[r] \in revoked'
  <2>1. rpc'[r] = "append" /\ ~raced'[r] /\ Published' /\ state'.scope = Delegate[t] => FALSE
    BY <1>5
  <2>2. rtok'[r] = t
    BY <1>2
  <2>3. stamp'[r] <= Len(ledger') /\ known'[r] \subseteq All'
    BY <1>1, <1>2, <1>3, <1>6
  <2>4. ~raced'[r] => cpc' = "idle" /\ \A i \in All' : Marker(i)' => i \in known'[r]
    BY <1>1, <1>2, <1>4, <1>6
  <2> QED BY <2>1, <2>2, <2>3, <2>4
<1> QED BY <1>7, <1>8 DEF CacheInv

(* The append remembers the new mtime: no marker was written since the check. *)
LEMMA CacheAppend ==
    ASSUME ScopedInv, CacheInv, NEW r \in Registrars, RegisterAppend(r)
    PROVE  CacheInv'
<1> DEFINE n == Len(ledger) + 1
           row == [kind |-> "cap", id |-> rtok[r], clean |-> ~raced[r]]
<1>1. /\ UNCHANGED <<revoked, state, cpc, used, lost, raced>>
      /\ stamp \in [Registrars -> Nat]
      /\ known \in [Registrars -> SUBSET Nat] /\ rpc \in [Registrars -> RSteps]
      /\ rtok \in [Registrars -> Tokens \cup {None}]
      /\ rpc[r] = "append" /\ ledger \in Seq(Rows)
  BY DEF RegisterAppend, ScopedInv, TypeOK, history
<1>2. row \in Rows
  BY <1>1 DEF Rows, ScopedInv, TypeOK
<1>3. ledger' = Append(ledger, row)
  BY DEF RegisterAppend
<1>4. /\ All' = All \cup {n} /\ All = 1..Len(ledger) /\ Len(ledger) \in Nat
      /\ \A i \in All : ledger'[i] = ledger[i]
      /\ ledger'[n].kind = "cap" /\ Len(ledger') = n
  BY <1>1, <1>2, <1>3, HoldsGrow
<1>5. /\ known'[r] = known[r] \cup {n} /\ stamp'[r] = n /\ rpc'[r] = "idle"
      /\ \A q \in Registrars : q # r => /\ known'[q] = known[q] /\ stamp'[q] = stamp[q]
                                        /\ rtok'[q] = rtok[q] /\ rpc'[q] = rpc[q]
  BY <1>1 DEF RegisterAppend
<1>6. \A i \in All' : Marker(i)' => i \in All /\ Marker(i)
  BY <1>4 DEF Marker
<1> HIDE DEF n, row
<1>n. n = Len(ledger) + 1
  BY DEF n
<1>7. ASSUME NEW q \in Registrars, q # r
      PROVE  /\ stamp'[q] <= Len(ledger') /\ known'[q] \subseteq All'
             /\ ~raced'[q] => \A i \in All' : i <= stamp'[q] /\ Marker(i)' => i \in known'[q]
             /\ rpc'[q] # "idle" /\ ~raced'[q] =>
                   cpc' = "idle" /\ \A i \in All' : Marker(i)' => i \in known'[q]
             /\ rpc'[q] = "append" /\ ~raced'[q] /\ Published' /\ state'.scope = Delegate[rtok'[q]] =>
                   rtok'[q] \in revoked'
  <2>1. /\ stamp'[q] = stamp[q] /\ known'[q] = known[q] /\ rtok'[q] = rtok[q]
        /\ rpc'[q] = rpc[q] /\ raced'[q] = raced[q] /\ stamp[q] \in Nat
    BY <1>1, <1>5, <1>7
  <2>2. stamp[q] <= Len(ledger) /\ known[q] \subseteq All
    BY DEF CacheInv
  <2>3. stamp'[q] <= Len(ledger') /\ known'[q] \subseteq All'
    BY <1>4, <1>n, <2>1, <2>2
  <2>4. ~raced'[q] => \A i \in All' : i <= stamp'[q] /\ Marker(i)' => i \in known'[q]
    BY <1>6, <2>1 DEF CacheInv
  <2>5. rpc'[q] # "idle" /\ ~raced'[q] =>
           cpc' = "idle" /\ \A i \in All' : Marker(i)' => i \in known'[q]
    BY <1>1, <1>6, <2>1 DEF CacheInv
  <2>6. rpc'[q] = "append" /\ ~raced'[q] /\ Published' /\ state'.scope = Delegate[rtok'[q]] =>
           rtok'[q] \in revoked'
    BY <1>1, <2>1 DEF CacheInv, Published
  <2> QED BY <2>3, <2>4, <2>5, <2>6
<1>8. /\ stamp'[r] <= Len(ledger') /\ known'[r] \subseteq All'
      /\ ~raced'[r] => \A i \in All' : i <= stamp'[r] /\ Marker(i)' => i \in known'[r]
      /\ rpc'[r] = "idle"
  BY <1>1, <1>4, <1>5, <1>6, <1>n DEF CacheInv
<1> QED BY <1>7, <1>8 DEF CacheInv

LEMMA CacheStep == ScopedInv /\ MarkInv /\ CacheInv /\ [Next]_vars => CacheInv'
<1> SUFFICES ASSUME ScopedInv, MarkInv, CacheInv, [Next]_vars PROVE CacheInv'
  OBVIOUS
<1>0. rpc \in [Registrars -> RSteps]
  BY DEF ScopedInv, TypeOK
<1>1. CASE ContainmentStep
  BY <1>1, CacheContained
<1>2. ASSUME NEW r \in Registrars, NEW t \in Tokens, RegisterCheck(r, t) PROVE CacheInv'
  BY <1>2, CacheCheck
<1>3. ASSUME NEW r \in Registrars, RegisterRevoke(r) PROVE CacheInv'
  BY <1>0, <1>3, CacheRevoke DEF RegisterRevoke, history
<1>4. ASSUME NEW r \in Registrars, RegisterAppend(r) PROVE CacheInv'
  BY <1>4, CacheAppend
<1>5. ASSUME NEW t \in Tokens, Cascade(t) PROVE CacheInv'
  <2>1. used'.crashes = used.crashes
    BY <1>5, OthersFrame
  <2> QED BY <1>5, <2>1, CacheRevoke DEF Cascade, memory
<1>6. CASE UNCHANGED vars
  BY <1>6, CacheRevoke DEF vars, files, memory, history
<1> QED BY <1>1, <1>2, <1>3, <1>4, <1>5, <1>6 DEF Next, ContainmentStep

(* The part of CleanInv about one row. *)
Covered(id) ==
    /\ cpc \in HoldSteps /\ Delegate[id] = cloc.scope => id \in cloc.ids
    /\ Published /\ cpc \in {"idle", "marker"} /\ Delegate[id] = state.scope => id \in revoked

(* Containment writes no clean row; its holds take up the rows there are. *)
LEMMA CleanContained ==
    ASSUME ScopedInv, StepInv, CleanInv, ContainmentStep
    PROVE  CleanInv'
<1>0. /\ used \in Counts /\ cloc \in State /\ ledger \in Seq(Rows)
      /\ (cpc # "idle" => cloc.scope \in Scopes) /\ lost \in LostMarkers
  BY DEF ScopedInv, TypeOK, Counts, LostMarkers
<1>1. ASSUME NEW i \in All', Clean(i)'
      PROVE  i \in All /\ Clean(i) /\ ledger'[i] = ledger[i] /\ ledger[i].id \in Tokens
  <2>1. CASE ledger' = ledger
    BY <1>0, <1>1, <2>1 DEF All, Clean, Rows
  <2>2. ASSUME NEW row \in Rows, row.kind # "cap", ledger' = Append(ledger, row)
        PROVE  i \in All /\ ledger'[i] = ledger[i]
    BY <1>0, <1>1, <2>2, HoldsGrow DEF Clean
  <2>3. i \in All /\ ledger'[i] = ledger[i]
    BY <1>1, <2>1, <2>2, ContainmentIs DEF ContainmentKeeps
  <2>4. ledger[i] \in Rows
    BY <1>0, <2>3 DEF All
  <2> QED BY <1>1, <2>3, <2>4 DEF Clean, Rows
<1>2. ASSUME NEW i \in All, Clean(i) PROVE Covered(ledger[i].id)
  BY <1>2 DEF CleanInv, Covered
<1>3. ASSUME NEW i \in All, Clean(i), ledger[i].id \in Tokens
      PROVE  \A id \in {ledger[i].id} : Covered(id)'
  <2> DEFINE x == ledger[i].id
  <2> SUFFICES ASSUME NEW id, id = x PROVE Covered(id)'
    OBVIOUS
  <2>0. Covered(id) /\ Delegate[id] \in Agents /\ Delegate[id] # None
    BY <1>2, <1>3, DelegationAssumption
  <2>1. ASSUME NEW s \in Scopes, HoldResolve(s) PROVE Covered(id)'
    <3>1. cloc'.scope = s /\ cloc'.ids = ResolveIds(s) /\ cpc' = "snapshot"
      BY <2>1 DEF HoldResolve
    <3>2. id \in Records(All)
      BY <1>3 DEF Records, Clean
    <3>3. Delegate[id] = s => id \in ResolveIds(s)
      BY <2>0, <3>2 DEF ResolveIds, TokensForAgent
    <3> QED BY <3>1, <3>3 DEF Covered
  <2>2. CASE HoldSnapshot
    <3>1. cloc'.scope = cloc.scope /\ cloc'.ids = cloc.ids
      BY <1>0, <2>2 DEF HoldSnapshot, State
    <3> QED BY <2>0, <2>2, <3>1 DEF HoldSnapshot, Covered, HoldSteps
  <2>3. CASE HoldAppend \/ HoldReceipt \/ HoldReceiptFails
    BY <2>0, <2>3 DEF HoldAppend, HoldReceipt, HoldReceiptFails, Covered, HoldSteps
  <2>4. CASE HoldRollback \/ ResumeClear
    <3>1. state' = NoState /\ cpc' = "idle"
      BY <2>4 DEF HoldRollback, ResumeClear, StepInv, HoldSteps
    <3> QED BY <2>0, <3>1, NoStateIs DEF Covered, HoldSteps
  <2>5. CASE HoldWriteState
    <3>1. /\ state' = cloc /\ cloc' = cloc /\ revoked' = revoked
          /\ cloc.ids \subseteq revoked /\ cpc \in HoldSteps
      BY <2>5 DEF HoldWriteState, StepInv, HoldSteps
    <3> QED BY <2>0, <3>1 DEF Covered
  <2>6. CASE HoldMarker
    BY <2>0, <2>6 DEF HoldMarker, Covered, HoldSteps, Published, history
  <2>9. CASE HoldMarkerFails
    <3>1. state' = cloc /\ cpc' = "idle" /\ lost'.hold = lost.hold \cup {cloc.scope}
      BY <1>0, <2>9 DEF HoldMarkerFails, StepInv, ResumeSteps, LostMarkers, files
    <3> QED BY <3>1 DEF Covered, HoldSteps, Published
  <2>7. CASE ResumeReceipt \/ ResumeRestore \/ ResumeMarker \/ ResumeMarkerFails
    BY <2>7 DEF ResumeReceipt, ResumeRestore, ResumeMarker, ResumeMarkerFails, Covered, HoldSteps
  <2>8. CASE Crash
    <3>1. used'.crashes # 0 /\ cpc' = "idle"
      BY <1>0, <2>8 DEF Crash, Counts
    <3> QED BY <3>1 DEF Covered, HoldSteps, Published
  <2> QED BY <2>1, <2>2, <2>3, <2>4, <2>5, <2>6, <2>7, <2>8, <2>9 DEF ContainmentStep
<1>4. ASSUME NEW i \in All', Clean(i)'
      PROVE  /\ cpc' \in HoldSteps /\ Delegate[ledger'[i].id] = cloc'.scope => ledger'[i].id \in cloc'.ids
             /\ Published' /\ cpc' \in {"idle", "marker"} /\ Delegate[ledger'[i].id] = state'.scope =>
                   ledger'[i].id \in revoked'
  <2>1. i \in All /\ Clean(i) /\ ledger'[i].id = ledger[i].id /\ ledger[i].id \in Tokens
    BY <1>1, <1>4
  <2>2. \A id \in {ledger[i].id} : Covered(id)'
    BY <1>3, <2>1
  <2> QED BY <2>1, <2>2 DEF Covered
<1> QED BY <1>4 DEF CleanInv

(* Others revoke more, and register a clean row only while containment rests. *)
LEMMA CleanOthers ==
    ASSUME ScopedInv, CacheInv, CleanInv,
           \/ \E r \in Registrars, t \in Tokens : RegisterCheck(r, t)
           \/ \E r \in Registrars : RegisterRevoke(r) \/ RegisterAppend(r)
           \/ \E t \in Tokens : Cascade(t)
    PROVE  CleanInv'
<1>0. /\ UNCHANGED <<cpc, cloc, state>> /\ revoked \subseteq revoked'
      /\ used'.crashes = used.crashes /\ ledger \in Seq(Rows) /\ lost' = lost
  BY OthersFrame DEF ScopedInv, TypeOK
<1>1. CASE ledger' = ledger
  <2>1. All' = All /\ \A i : Clean(i)' = Clean(i)
    BY <1>1 DEF All, Clean
  <2> QED BY <1>0, <1>1, <2>1 DEF CleanInv, Published
<1>2. ASSUME NEW r \in Registrars, RegisterAppend(r) PROVE CleanInv'
  <2> DEFINE row == [kind |-> "cap", id |-> rtok[r], clean |-> ~raced[r]]
             n == Len(ledger) + 1
  <2>1. row \in Rows /\ row.id = rtok[r] /\ row.clean = ~raced[r]
    BY <1>2 DEF Rows, RegisterAppend, ScopedInv, TypeOK
  <2>2. ledger' = Append(ledger, row)
    BY <1>2 DEF RegisterAppend
  <2> HIDE DEF row
  <2>3. /\ All' = All \cup {n} /\ \A i \in All : ledger'[i] = ledger[i]
        /\ ledger'[n] = row
    BY <1>0, <2>1, <2>2, HoldsGrow
  <2> HIDE DEF n
  <2>4. ASSUME ~raced[r]
        PROVE  /\ cpc = "idle"
               /\ Published /\ state.scope = Delegate[rtok[r]] => rtok[r] \in revoked
    BY <1>2, <2>4 DEF RegisterAppend, CacheInv
  <2>5. ASSUME NEW i \in All', Clean(i)'
        PROVE  /\ cpc \in HoldSteps /\ Delegate[ledger'[i].id] = cloc.scope => ledger'[i].id \in cloc.ids
               /\ Published /\ cpc \in {"idle", "marker"} /\ Delegate[ledger'[i].id] = state.scope =>
                     ledger'[i].id \in revoked
    <3>1. CASE i \in All
      BY <2>3, <2>5, <3>1 DEF Clean, CleanInv
    <3>2. CASE i = n
      <4>1. ledger'[i] = row /\ ~raced[r]
        BY <2>1, <2>3, <2>5, <3>2 DEF Clean
      <4> QED BY <2>1, <2>4, <4>1 DEF HoldSteps
    <3> QED BY <2>3, <3>1, <3>2
  <2> QED BY <1>0, <2>5 DEF CleanInv, Published
<1> QED BY <1>1, <1>2 DEF RegisterCheck, RegisterRevoke, Cascade, files

LEMMA CleanStep == ScopedInv /\ StepInv /\ CacheInv /\ CleanInv /\ [Next]_vars => CleanInv'
<1> SUFFICES ASSUME ScopedInv, StepInv, CacheInv, CleanInv, [Next]_vars PROVE CleanInv'
  OBVIOUS
<1>1. CASE ContainmentStep
  BY <1>1, CleanContained
<1>2. CASE UNCHANGED vars
  <2>1. UNCHANGED <<ledger, cpc, cloc, state, revoked, used, lost>>
    BY <1>2 DEF vars, files, history
  <2>2. All' = All /\ \A i : Clean(i)' = Clean(i)
    BY <2>1 DEF All, Clean
  <2> QED BY <2>1, <2>2 DEF CleanInv, Published
<1>3. CASE \/ \E r \in Registrars, t \in Tokens : RegisterCheck(r, t)
           \/ \E r \in Registrars : RegisterRevoke(r) \/ RegisterAppend(r)
           \/ \E t \in Tokens : Cascade(t)
  BY <1>3, CleanOthers
<1> QED BY <1>1, <1>2, <1>3 DEF Next, ContainmentStep

----------------------------------------------------------------------------

LEMMA HoldInit == Init => HoldInv
<1> SUFFICES ASSUME Init PROVE HoldInv
  OBVIOUS
<1>1. ScopedInv
  BY NoStateTyped DEF Init, ScopedInv, TypeOK, CSteps, RSteps
<1>2. All = {} /\ Len(ledger) = 0
  BY DEF Init, All
<1>3. StepInv
  BY NoStateIs DEF Init, StepInv, HoldSteps, ResumeSteps
<1>4. MarkInv
  BY <1>2, NoStateIs DEF Init, MarkInv, ActiveHolds
<1>5. CacheInv /\ CleanInv
  BY <1>2 DEF Init, CacheInv, CleanInv
<1> QED BY <1>1, <1>3, <1>4, <1>5 DEF HoldInv

LEMMA HoldStep == HoldInv /\ [Next]_vars => HoldInv'
  BY ScopedStep, StepStep, MarkStep, CacheStep, CleanStep DEF HoldInv

(* What the invariant says of a hold that stands. *)
LEMMA HoldInvCovers == HoldInv => HoldCovers
<1> SUFFICES ASSUME HoldInv PROVE HoldCovers
  OBVIOUS
<1> USE DEF HoldInv
<1>1. HoldCoversResolved
  BY DEF HoldCoversResolved, StepInv, CallAllowed
<1>2. MintedUnderHoldDenied
  <2> SUFFICES ASSUME cpc = "idle", state # NoState, Published, NEW i \in All,
                      ledger[i].kind = "cap", ledger[i].clean,
                      InScope(state.scope, ledger[i].id)
               PROVE  ~CallAllowed(ledger[i].id)
    BY DEF MintedUnderHoldDenied, Published
  <2>1. ledger[i].id \in Tokens
    <3>1. ledger[i] \in Rows
      BY DEF ScopedInv, TypeOK, All
    <3> QED BY <3>1 DEF Rows
  <2>2. state.ids \subseteq revoked
    BY DEF StepInv, Published
  <2>3. CASE state.scope = Delegate[ledger[i].id]
    <3>1. ledger[i].id \in revoked
      BY <2>3 DEF CleanInv, Clean
    <3> QED BY <2>1, <3>1, AboveSelf DEF CallAllowed
  <2>4. CASE state.scope \in Above(ledger[i].id)
    <3>1. state.scope \in revoked
      BY <2>1, <2>2, <2>4, AboveSelf DEF StepInv
    <3> QED BY <2>4, <3>1 DEF CallAllowed
  <2> QED BY <2>3, <2>4 DEF InScope
<1>3. MarkersMatchState
  BY DEF MarkersMatchState, MarkInv
<1> QED BY <1>1, <1>2, <1>3 DEF HoldCovers

(* The rows, caches and locals are what TypeOK says (DelegationLedger,
   ContainmentManager). *)
THEOREM TypeCorrect == Spec => []TypeOK
<1>1. HoldInv => TypeOK
  BY DEF HoldInv, ScopedInv
<1> QED BY HoldInit, HoldStep, <1>1, PTL DEF Spec

(* A hold that stands covers what it resolved and what is minted under it, and
   the markers registrars consult say what the state file says, but for those
   that could not be appended
   (_apply_hold_locked, resume, _hold_check, _propagate_hold_revocation). *)
THEOREM HoldsCover == Spec => []HoldCovers
  BY HoldInit, HoldStep, HoldInvCovers, PTL DEF Spec
=============================================================================
