----------------------- MODULE DeploymentIntakeProofs -----------------------
(***************************************************************************)
(* For any number of request threads, portal receipts and restarts: only   *)
(* what was verified and receipted reaches the policy file; and until one  *)
(* request begins beside another no nonce comes back within the window and *)
(* the gate enforces its file.                                             *)
(*                                                                         *)
(* The first part needs what a thread knows of its request at each step.   *)
(* The second is about one request at a time, which the claims and the     *)
(* rules it has read tie to the files: the cache is the end of the claims, *)
(* also when the gate died in between.                                     *)
(***************************************************************************)
EXTENDS DeploymentIntake, SequenceTheorems, TLAPS

Kinds == (Faults \ {"none", "unloadable"})
            \cup {"digest_mismatch", "replayed_nonce", "reload_failed", "policy_deployed"}
Refusals == [jws : Jws, status : {"accepted", "refused", "error"},
             audited : BOOLEAN, wrote : BOOLEAN]
Counts == [requests : Nat, faults : Nat, crashes : Nat, overlaps : Nat]

(* A thread that is not idle handles a receipt of the portal. *)
InRequest == \A t \in Threads : pc[t] # "idle" => req[t] \in Jws

(* Past verification a request is not refused, past its receipt it is
   receipted; and so was what is in the policy file. *)
VerifiedInv ==
    /\ \A t \in Threads :
          /\ pc[t] \notin {"idle", "verify"} => ~Refuses(req[t])
          /\ pc[t] \in {"write", "reload", "install", "audit"} => req[t] \in Range(receipts)
    /\ policy # Installed =>
          policy \in Jws /\ ~Refuses(policy) /\ policy \in Range(receipts)

IntakeInv == TypeOK /\ InRequest /\ VerifiedInv

----------------------------------------------------------------------------
(* One request at a time *)

Alone == \A t, u \in Threads : pc[t] # "idle" /\ pc[u] # "idle" => t = u

(* s is the end of the claims c, CacheMax of them or all. *)
EndOf(s, c) ==
    /\ s \in Seq(Nat)
    /\ Len(s) = IF Len(c) > CacheMax THEN CacheMax ELSE Len(c)
    /\ \A i \in 1 .. Len(s) : s[i] = c[Len(c) - Len(s) + i]

Served ==
    \/ live = Rules(policy)
    \/ \E a \in answers : a.jws = policy /\ a.status # "accepted" /\ a.wrote

(* The request in progress loaded the cache there is, wrote the policy there is
   and read its rules; at every other step the gate serves the file. *)
SerialInv ==
    /\ Alone
    /\ EndOf(cache, claims)
    /\ ReplayWindow
    /\ \A t \in Threads :
          /\ pc[t] = "claim" => EndOf(seen[t], claims)
          /\ pc[t] = "reload" => policy = req[t]
          /\ pc[t] = "install" => read[t] = Rules(policy)
    /\ (\A t \in Threads : pc[t] \notin {"reload", "install"}) => Served

InTurn == used.overlaps = 0 => SerialInv
----------------------------------------------------------------------------
(* Helpers *)

(* The n newest entries of a sequence. *)
LEMMA NewestIs ==
    ASSUME NEW s \in Seq(Nat), NEW n \in Nat \ {0}
    PROVE  /\ Newest(n, s) \in Seq(Nat)
           /\ Len(Newest(n, s)) = IF Len(s) > n THEN n ELSE Len(s)
           /\ \A i \in 1 .. Len(Newest(n, s)) :
                 Newest(n, s)[i] = s[Len(s) - Len(Newest(n, s)) + i]
<1> DEFINE m == IF Len(s) > n THEN Len(s) - n + 1 ELSE 1
<1>0. Len(s) \in Nat /\ m \in Int /\ m >= 1
  BY LenProperties
<1>1. Len(s) \in Nat /\ m \in Int /\ m >= 1 /\ \A i \in m .. Len(s) : s[i] \in Nat
  <2> SUFFICES ASSUME NEW i \in m .. Len(s) PROVE s[i] \in Nat
    BY <1>0
  <2> HIDE DEF m
  <2>1. i \in 1 .. Len(s)
    BY <1>0
  <2> QED BY <2>1, ElementOfSeq
<1>2. Newest(n, s) = SubSeq(s, m, Len(s))
  BY DEF Newest
<1>6. m = IF Len(s) > n THEN Len(s) - n + 1 ELSE 1
  OBVIOUS
<1> HIDE DEF m
<1>3. /\ SubSeq(s, m, Len(s)) \in Seq(Nat)
      /\ Len(SubSeq(s, m, Len(s))) = IF m <= Len(s) THEN Len(s) - m + 1 ELSE 0
      /\ \A i \in 1 .. Len(s) - m + 1 : SubSeq(s, m, Len(s))[i] = s[m + i - 1]
  BY <1>1, SubSeqProperties
<1>4. Len(Newest(n, s)) = IF Len(s) > n THEN n ELSE Len(s)
  <2>1. (IF m <= Len(s) THEN Len(s) - m + 1 ELSE 0) = (IF Len(s) > n THEN n ELSE Len(s))
    <3> DEFINE k == Len(s)
    <3>1. k \in Nat /\ m \in Int /\ n \in Nat /\ n >= 1
      BY <1>0
    <3>2. m = IF k > n THEN k - n + 1 ELSE 1
      BY <1>6
    <3> HIDE DEF k
    <3>3. (IF m <= k THEN k - m + 1 ELSE 0) = (IF k > n THEN n ELSE k)
      BY <3>1, <3>2
    <3> QED BY <3>3 DEF k
  <2>2. Len(SubSeq(s, m, Len(s))) = IF m <= Len(s) THEN Len(s) - m + 1 ELSE 0
    BY <1>3
  <2> QED BY <2>1, <2>2, <1>2
<1>5. \A i \in 1 .. Len(Newest(n, s)) :
         i \in 1 .. Len(s) - m + 1 /\ m + i - 1 = Len(s) - Len(Newest(n, s)) + i
  BY <1>1, <1>4, <1>6
<1> QED BY <1>2, <1>3, <1>4, <1>5

(* What Append leaves in the range of a sequence. *)
LEMMA RangeAppend ==
    ASSUME NEW s \in Seq(Jws), NEW j \in Jws
    PROVE  /\ Append(s, j) \in Seq(Jws)
           /\ Range(s) \subseteq Range(Append(s, j))
           /\ j \in Range(Append(s, j))
BY AppendProperties DEF Range

(* _load_rules: the rules of a policy file. *)
LEMMA RulesTyped ==
    ASSUME NEW p \in Artefacts
    PROVE  Rules(p) \in Artefacts \cup {NoRules}
BY DEF Rules, Artefacts

(* What the gate refuses is not sound, and what it accepts verified. *)
LEMMA RefusesIs ==
    ASSUME NEW j \in Jws
    PROVE  /\ Refuses(j) => Found(j) \in Kinds
           /\ ~Refuses(j) => Fault[j] \in {"none", "unloadable"} /\ IsSuffix(Expected[j], Digest[j])
BY IntakeAssumption DEF Refuses, Found, DigestMatches, Kinds, Faults

(* An answer of a thread whose request is one of the portal's. *)
LEMMA AnswerTyped ==
    ASSUME TypeOK, NEW t \in Threads, req[t] \in Jws,
           NEW status \in {"accepted", "refused", "error"}, NEW audited \in BOOLEAN,
           Answer(t, status, audited)
    PROVE  answers' \subseteq Refusals /\ pc' = [pc EXCEPT ![t] = "idle"] /\ answers \subseteq answers'
<1> DEFINE a == [jws |-> req[t], status |-> status, audited |-> audited,
                 wrote |-> pc[t] \in {"reload", "install", "audit"}]
<1>1. answers' = answers \cup {a}
  BY DEF Answer
<1>2. a \in Refusals
  BY DEF Refusals
<1>3. answers \subseteq Refusals
  BY DEF TypeOK, Refusals
<1> HIDE DEF a
<1> QED BY <1>1, <1>2, <1>3 DEF Answer, Goto

(* What a fault, a submission and a restart add to the counts. *)
LEMMA FaultCounts ==
    ASSUME used \in Counts, IOFault
    PROVE  used' \in Counts /\ used'.overlaps = used.overlaps
BY DEF Counts, IOFault

LEMMA SubmitCounts ==
    ASSUME used \in Counts, NEW t \in Threads, NEW j \in Jws, Submit(t, j)
    PROVE  used' \in Counts /\ (used'.overlaps = 0 => used.overlaps = 0 /\ Quiet)
<1> DEFINE n == IF Quiet THEN used.overlaps ELSE used.overlaps + 1
<1>1. used' = [used EXCEPT !.requests = @ + 1, !.overlaps = n]
  BY DEF Submit
<1>2. n \in Nat /\ (n = 0 => used.overlaps = 0 /\ Quiet)
  BY DEF Counts
<1> DEFINE w == [used EXCEPT !.requests = @ + 1]
<1>3. w \in Counts /\ w.overlaps = used.overlaps
  BY DEF Counts
<1>4. used' = [w EXCEPT !.overlaps = n]
  BY <1>1
<1> HIDE DEF n, w
<1> QED BY <1>2, <1>3, <1>4 DEF Counts

LEMMA RestartCounts ==
    ASSUME used \in Counts, Restart
    PROVE  used' \in Counts /\ used'.overlaps = used.overlaps
BY DEF Counts, Restart

LEMMA AuditTyped ==
    ASSUME TypeOK, NEW t \in Threads, req[t] \in Jws, NEW kind \in Kinds, Audited(t, kind)
    PROVE  audit' \in Seq([jws : Jws, kind : Kinds])
BY AppendProperties DEF TypeOK, Audited, Kinds

----------------------------------------------------------------------------
(* Types *)

LEMMA TypeNext ==
    ASSUME TypeOK, InRequest, [Next]_vars
    PROVE  TypeOK' /\ InRequest'
<1> USE DEF Steps
<1>1. CASE UNCHANGED vars
  BY <1>1 DEF vars, TypeOK, InRequest
<1>2. ASSUME NEW t \in Threads, NEW j \in Jws, Submit(t, j) PROVE TypeOK' /\ InRequest'
  BY <1>2, SubmitCounts DEF TypeOK, InRequest, Submit, Goto, Artefacts, Counts
<1>3. ASSUME NEW t \in Threads, Step(t) PROVE TypeOK' /\ InRequest'
  <2>0. pc[t] # "idle" => req[t] \in Jws
    BY DEF InRequest
  <2>1. CASE VerifyRefused(t)
    <3>1. req[t] \in Jws
      BY <2>0, <2>1 DEF VerifyRefused
    <3>2. audit' \in Seq([jws : Jws, kind : Kinds])
      BY <2>1, <3>1, AuditTyped, RefusesIs DEF VerifyRefused
    <3>3. answers' \subseteq Refusals /\ pc' = [pc EXCEPT ![t] = "idle"]
      BY <2>1, <3>1, AnswerTyped DEF VerifyRefused
    <3> QED BY <2>1, <3>2, <3>3 DEF VerifyRefused, TypeOK, InRequest, Kinds, Refusals
  <2>2. CASE RefusalAuditFails(t)
    <3>1. req[t] \in Jws
      BY <2>0, <2>2 DEF RefusalAuditFails
    <3>3. answers' \subseteq Refusals /\ pc' = [pc EXCEPT ![t] = "idle"]
      BY <2>2, <3>1, AnswerTyped DEF RefusalAuditFails
    <3> QED BY <2>2, <3>3, FaultCounts DEF RefusalAuditFails, TypeOK, InRequest, Refusals, Counts
  <2>3. CASE Verify(t)
    BY <2>0, <2>3 DEF Verify, Goto, TypeOK, InRequest
  <2>4. CASE OpenNonceCache(t)
    <3>1. Newest(CacheMax, cache) \in Seq(Nat)
      BY NewestIs, IntakeAssumption DEF TypeOK
    <3> QED BY <2>0, <2>4, <3>1 DEF OpenNonceCache, Goto, TypeOK, InRequest
  <2>5. CASE Replayed(t)
    <3>1. req[t] \in Jws
      BY <2>0, <2>5 DEF Replayed
    <3>2. audit' \in Seq([jws : Jws, kind : Kinds])
      BY <2>5, <3>1, AuditTyped DEF Replayed, Kinds
    <3>3. answers' \subseteq Refusals /\ pc' = [pc EXCEPT ![t] = "idle"]
      BY <2>5, <3>1, AnswerTyped DEF Replayed
    <3> QED BY <2>5, <3>2, <3>3 DEF Replayed, TypeOK, InRequest, Kinds, Refusals
  <2>6. CASE Claim(t)
    <3> DEFINE all == Append(seen[t], Nonce[req[t]])
    <3>1. Nonce[req[t]] \in Nat /\ seen[t] \in Seq(Nat) /\ claims \in Seq(Nat)
      BY <2>0, <2>6, IntakeAssumption DEF Claim, TypeOK
    <3>2. all \in Seq(Nat) /\ claims' \in Seq(Nat)
      BY <2>6, <3>1, AppendProperties DEF Claim
    <3>3. Newest(CacheMax, all) \in Seq(Nat) /\ Len(Newest(CacheMax, all)) <= CacheMax
      <4> HIDE DEF all
      <4> QED BY <3>2, NewestIs, IntakeAssumption, LenProperties
    <3> QED BY <2>0, <2>6, <3>2, <3>3 DEF Claim, Goto, TypeOK, InRequest
  <2>7. CASE ClaimFails(t)
    <3>1. req[t] \in Jws
      BY <2>0, <2>7 DEF ClaimFails
    <3>3. answers' \subseteq Refusals /\ pc' = [pc EXCEPT ![t] = "idle"]
      BY <2>7, <3>1, AnswerTyped DEF ClaimFails
    <3> QED BY <2>7, <3>3, FaultCounts DEF ClaimFails, TypeOK, InRequest, Refusals, Counts
  <2>8. CASE EmitGateReceipt(t)
    BY <2>0, <2>8, RangeAppend DEF EmitGateReceipt, Goto, TypeOK, InRequest
  <2>9. CASE ReceiptFails(t)
    <3>1. req[t] \in Jws
      BY <2>0, <2>9 DEF ReceiptFails
    <3>3. answers' \subseteq Refusals /\ pc' = [pc EXCEPT ![t] = "idle"]
      BY <2>9, <3>1, AnswerTyped DEF ReceiptFails
    <3> QED BY <2>9, <3>3, FaultCounts DEF ReceiptFails, TypeOK, InRequest, Refusals, Counts
  <2>10. CASE WritePolicy(t)
    BY <2>0, <2>10 DEF WritePolicy, Goto, TypeOK, InRequest, Artefacts
  <2>11. CASE ReloadRead(t)
    BY <2>0, <2>11, RulesTyped DEF ReloadRead, Goto, TypeOK, InRequest
  <2>12. CASE ReloadInstall(t)
    BY <2>0, <2>12 DEF ReloadInstall, Goto, TypeOK, InRequest
  <2>13. CASE ReloadFails(t)
    <3>1. req[t] \in Jws
      BY <2>0, <2>13 DEF ReloadFails
    <3>2. audit' \in Seq([jws : Jws, kind : Kinds])
      BY <2>13, <3>1, AuditTyped DEF ReloadFails, Kinds
    <3>3. answers' \subseteq Refusals /\ pc' = [pc EXCEPT ![t] = "idle"]
      BY <2>13, <3>1, AnswerTyped DEF ReloadFails
    <3> QED BY <2>13, <3>2, <3>3, FaultCounts DEF ReloadFails, TypeOK, InRequest, Kinds, Refusals, Counts
  <2>14. CASE AuditDeployed(t)
    <3>1. req[t] \in Jws
      BY <2>0, <2>14 DEF AuditDeployed
    <3>2. audit' \in Seq([jws : Jws, kind : Kinds])
      BY <2>14, <3>1, AuditTyped DEF AuditDeployed, Kinds
    <3>3. answers' \subseteq Refusals /\ pc' = [pc EXCEPT ![t] = "idle"]
      BY <2>14, <3>1, AnswerTyped DEF AuditDeployed
    <3> QED BY <2>14, <3>2, <3>3 DEF AuditDeployed, TypeOK, InRequest, Kinds, Refusals
  <2>15. CASE AuditFails(t)
    <3>1. req[t] \in Jws
      BY <2>0, <2>15 DEF AuditFails
    <3>3. answers' \subseteq Refusals /\ pc' = [pc EXCEPT ![t] = "idle"]
      BY <2>15, <3>1, AnswerTyped DEF AuditFails
    <3> QED BY <2>15, <3>3, FaultCounts DEF AuditFails, TypeOK, InRequest, Refusals, Counts
  <2>16. CASE WriteFails(t)
    <3>1. req[t] \in Jws
      BY <2>0, <2>16 DEF WriteFails
    <3>3. answers' \subseteq Refusals /\ pc' = [pc EXCEPT ![t] = "idle"]
      BY <2>16, <3>1, AnswerTyped DEF WriteFails
    <3> QED BY <2>16, <3>3, FaultCounts DEF WriteFails, TypeOK, InRequest, Refusals, Counts
  <2>17. CASE ReloadAuditFails(t)
    <3>1. req[t] \in Jws
      BY <2>0, <2>17 DEF ReloadAuditFails
    <3>3. answers' \subseteq Refusals /\ pc' = [pc EXCEPT ![t] = "idle"]
      BY <2>17, <3>1, AnswerTyped DEF ReloadAuditFails
    <3> QED BY <2>17, <3>3, FaultCounts DEF ReloadAuditFails, TypeOK, InRequest, Refusals, Counts
  <2> QED
    BY <1>3, <2>1, <2>2, <2>3, <2>4, <2>5, <2>6, <2>7, <2>8, <2>9, <2>10, <2>11, <2>12,
       <2>13, <2>14, <2>15, <2>16, <2>17 DEF Step
<1>4. CASE Restart
  BY <1>4, RulesTyped, RestartCounts DEF Restart, TypeOK, InRequest, Counts
<1> QED BY <1>1, <1>2, <1>3, <1>4 DEF Next

LEMMA TypeInit == Init => TypeOK /\ InRequest
<1> SUFFICES ASSUME Init PROVE TypeOK /\ InRequest
  OBVIOUS
<1>1. Len(<<>>) <= CacheMax
  BY IntakeAssumption
<1> QED BY <1>1, IntakeAssumption DEF Init, TypeOK, InRequest, Artefacts, Steps

LEMMA TypeAlways == Spec => [](TypeOK /\ InRequest)
BY TypeInit, TypeNext, PTL DEF Spec

(* The files, the threads and the answers always have their types
   (accept_deployment, NonceCache). *)
THEOREM TypeCorrect == Spec => []TypeOK
BY TypeAlways, PTL

----------------------------------------------------------------------------
(* What reaches the policy file *)

LEMMA VerifiedNext ==
    ASSUME TypeOK, InRequest, VerifiedInv, [Next]_vars
    PROVE  VerifiedInv'
<1> USE DEF VerifiedInv
<1>1. CASE UNCHANGED vars
  BY <1>1 DEF vars, Refuses
<1>2. ASSUME NEW t \in Threads, NEW j \in Jws, Submit(t, j) PROVE VerifiedInv'
  BY <1>2 DEF TypeOK, Submit, Goto, Refuses
<1>3. ASSUME NEW t \in Threads, Step(t) PROVE VerifiedInv'
  <2>1. CASE \/ VerifyRefused(t) \/ RefusalAuditFails(t) \/ Replayed(t) \/ ClaimFails(t)
             \/ ReceiptFails(t) \/ WriteFails(t) \/ ReloadFails(t) \/ ReloadAuditFails(t)
             \/ AuditDeployed(t) \/ AuditFails(t)
    <3>1. pc' = [pc EXCEPT ![t] = "idle"] /\ UNCHANGED <<policy, receipts, req>>
      BY <2>1 DEF VerifyRefused, RefusalAuditFails, Replayed, ClaimFails, ReceiptFails,
                  WriteFails, ReloadFails, ReloadAuditFails, AuditDeployed, AuditFails, Answer, Goto
    <3> QED BY <3>1 DEF TypeOK, Refuses
  <2>2. CASE Verify(t) \/ OpenNonceCache(t) \/ Claim(t) \/ ReloadRead(t) \/ ReloadInstall(t)
    <3>1. /\ UNCHANGED <<policy, receipts, req>>
          /\ \E step \in Steps : Goto(t, step)
          /\ pc'[t] # "write"
          /\ ~Refuses(req[t])
          /\ pc'[t] \in {"reload", "install", "audit"} => pc[t] \in {"reload", "install"}
      BY <2>2 DEF Verify, OpenNonceCache, Claim, ReloadRead, ReloadInstall, Goto, TypeOK, Steps
    <3> QED BY <3>1 DEF TypeOK, Goto, Refuses
  <2>3. CASE EmitGateReceipt(t)
    <3>1. req[t] \in Jws
      BY <2>3 DEF EmitGateReceipt, InRequest
    <3>2. Range(receipts) \subseteq Range(receipts') /\ req[t] \in Range(receipts')
      BY <2>3, <3>1, RangeAppend DEF EmitGateReceipt, TypeOK
    <3> QED BY <2>3, <3>2 DEF EmitGateReceipt, Goto, TypeOK, Refuses
  <2>4. CASE WritePolicy(t)
    BY <2>4 DEF WritePolicy, Goto, TypeOK, InRequest, Refuses
  <2> QED BY <1>3, <2>1, <2>2, <2>3, <2>4 DEF Step
<1>4. CASE Restart
  BY <1>4 DEF Restart, Refuses
<1> QED BY <1>1, <1>2, <1>3, <1>4 DEF Next

LEMMA VerifiedAlways == Spec => []VerifiedInv
<1>1. Init => VerifiedInv
  BY DEF Init, VerifiedInv
<1> QED BY <1>1, TypeAlways, VerifiedNext, PTL DEF Spec

(* Only what the pinned portal signed and the gate receipted reaches the policy
   file, whatever requests overlap and wherever the gate dies: verified first,
   receipted before it is written (accept_deployment). *)
THEOREM OnlyReceipted == Spec => []OnlyReceiptedPolicies
<1>1. VerifiedInv => OnlyReceiptedPolicies
  BY RefusesIs DEF VerifiedInv, OnlyReceiptedPolicies
<1> QED BY <1>1, VerifiedAlways, PTL

----------------------------------------------------------------------------
(* One request at a time *)

(* A cache loaded from a file that is the end of the claims is the same end. *)
LEMMA LoadedEnd ==
    ASSUME NEW c \in Seq(Nat), NEW s, EndOf(s, c)
    PROVE  EndOf(Newest(CacheMax, s), c)
<1> DEFINE r == Newest(CacheMax, s)
<1>1. s \in Seq(Nat) /\ Len(s) \in Nat /\ Len(c) \in Nat /\ CacheMax \in Nat \ {0}
  BY IntakeAssumption, LenProperties DEF EndOf
<1>2. /\ r \in Seq(Nat)
      /\ Len(r) = IF Len(s) > CacheMax THEN CacheMax ELSE Len(s)
      /\ \A i \in 1 .. Len(r) : r[i] = s[Len(s) - Len(r) + i]
  BY <1>1, NewestIs
<1> HIDE DEF r
<1>3. Len(r) = Len(s)
  BY <1>1, <1>2 DEF EndOf
<1>4. ASSUME NEW i \in 1 .. Len(r) PROVE r[i] = s[i]
  <2>1. Len(s) - Len(r) + i = i
    BY <1>1, <1>3
  <2> QED BY <1>2, <2>1
<1>5. EndOf(r, c)
  BY <1>1, <1>2, <1>3, <1>4 DEF EndOf
<1> QED BY <1>5 DEF r

(* A claim appended to the end of the claims, and cut, is the end again; and a
   nonce that is not in that end was claimed long ago or never. *)
LEMMA ClaimedEnd ==
    ASSUME NEW c \in Seq(Nat), NEW s, EndOf(s, c), NEW n \in Nat
    PROVE  /\ EndOf(Newest(CacheMax, Append(s, n)), Append(c, n))
           /\ n \notin Range(s) =>
                 \A i \in 1 .. Len(c) : c[i] = n => Len(c) + 1 - i > CacheMax
<1> DEFINE a == Append(s, n)
           d == Append(c, n)
           r == Newest(CacheMax, a)
<1>1. s \in Seq(Nat) /\ Len(s) \in Nat /\ Len(c) \in Nat /\ CacheMax \in Nat \ {0}
  BY IntakeAssumption, LenProperties DEF EndOf
<1>2. /\ a \in Seq(Nat) /\ Len(a) = Len(s) + 1 /\ a[Len(s) + 1] = n
      /\ \A i \in 1 .. Len(s) : a[i] = s[i]
  BY <1>1, AppendProperties
<1>3. /\ d \in Seq(Nat) /\ Len(d) = Len(c) + 1 /\ d[Len(c) + 1] = n
      /\ \A i \in 1 .. Len(c) : d[i] = c[i]
  BY AppendProperties
<1> HIDE DEF a, d
<1>4. /\ r \in Seq(Nat)
      /\ Len(r) = IF Len(a) > CacheMax THEN CacheMax ELSE Len(a)
      /\ \A i \in 1 .. Len(r) : r[i] = a[Len(a) - Len(r) + i]
  BY <1>1, <1>2, NewestIs
<1> HIDE DEF r
<1>5. Len(s) = IF Len(c) > CacheMax THEN CacheMax ELSE Len(c)
  BY DEF EndOf
<1>6. /\ Len(r) = IF Len(d) > CacheMax THEN CacheMax ELSE Len(d)
      /\ \A i \in 1 .. Len(r) :
            /\ Len(a) - Len(r) + i \in 1 .. Len(s) \/ Len(a) - Len(r) + i = Len(s) + 1
            /\ Len(d) - Len(r) + i = Len(c) - Len(s) + (Len(a) - Len(r) + i)
            /\ Len(a) - Len(r) + i \in 1 .. Len(s) => Len(d) - Len(r) + i \in 1 .. Len(c)
            /\ Len(a) - Len(r) + i = Len(s) + 1 => Len(d) - Len(r) + i = Len(c) + 1
      /\ \A i \in 1 .. Len(c) :
            \/ Len(c) + 1 - i > CacheMax
            \/ /\ i - (Len(c) - Len(s)) \in 1 .. Len(s)
               /\ Len(c) - Len(s) + (i - (Len(c) - Len(s))) = i
  <2> DEFINE x == Len(c)
             y == Len(s)
             z == Len(r)
             u == Len(a)
             v == Len(d)
  <2>1. /\ x \in Nat /\ y \in Nat /\ z \in Nat /\ u \in Nat /\ v \in Nat
        /\ CacheMax \in Nat \ {0}
    BY <1>1, <1>2, <1>3, <1>4, LenProperties
  <2>2. /\ y = IF x > CacheMax THEN CacheMax ELSE x
        /\ z = IF u > CacheMax THEN CacheMax ELSE u
        /\ u = y + 1 /\ v = x + 1
    BY <1>2, <1>3, <1>4, <1>5
  <2> HIDE DEF x, y, z, u, v
  <2>3. /\ z = IF v > CacheMax THEN CacheMax ELSE v
        /\ \A i \in 1 .. z :
              /\ u - z + i \in 1 .. y \/ u - z + i = y + 1
              /\ v - z + i = x - y + (u - z + i)
              /\ u - z + i \in 1 .. y => v - z + i \in 1 .. x
              /\ u - z + i = y + 1 => v - z + i = x + 1
        /\ \A i \in 1 .. x :
              x + 1 - i > CacheMax \/ (i - (x - y) \in 1 .. y /\ x - y + (i - (x - y)) = i)
    BY <2>1, <2>2
  <2> QED BY <2>3 DEF x, y, z, u, v
<1>7. ASSUME NEW i \in 1 .. Len(r) PROVE r[i] = d[Len(d) - Len(r) + i]
  <2> DEFINE j == Len(a) - Len(r) + i
             k == Len(d) - Len(r) + i
  <2>1. /\ j \in 1 .. Len(s) \/ j = Len(s) + 1
        /\ k = Len(c) - Len(s) + j
        /\ j \in 1 .. Len(s) => k \in 1 .. Len(c)
        /\ j = Len(s) + 1 => k = Len(c) + 1
    BY <1>6
  <2>2. r[i] = a[j]
    BY <1>4
  <2> HIDE DEF j, k
  <2>3. CASE j = Len(s) + 1
    <3>1. r[i] = d[k]
      BY <1>2, <1>3, <2>1, <2>2, <2>3
    <3> QED BY <3>1 DEF k
  <2>4. CASE j \in 1 .. Len(s)
    <3>1. a[j] = s[j] /\ s[j] = c[k]
      BY <1>2, <2>1, <2>4 DEF EndOf
    <3>2. d[k] = c[k]
      BY <1>3, <2>1, <2>4
    <3>3. r[i] = d[k]
      BY <2>2, <3>1, <3>2
    <3> QED BY <3>3 DEF k
  <2> QED BY <2>1, <2>3, <2>4
<1>8. EndOf(r, d)
  BY <1>3, <1>4, <1>6, <1>7 DEF EndOf
<1>9. ASSUME n \notin Range(s), NEW i \in 1 .. Len(c), c[i] = n
      PROVE  Len(c) + 1 - i > CacheMax
  <2> DEFINE j == i - (Len(c) - Len(s))
  <2>1. \/ Len(c) + 1 - i > CacheMax
        \/ j \in 1 .. Len(s) /\ Len(c) - Len(s) + j = i
    BY <1>6
  <2> HIDE DEF j
  <2>2. CASE j \in 1 .. Len(s) /\ Len(c) - Len(s) + j = i
    <3>1. s[j] = n
      BY <1>9, <2>2 DEF EndOf
    <3>2. s[j] \in Range(s)
      BY <1>1, <2>2, LenProperties DEF Range
    <3> QED BY <1>9, <3>1, <3>2
  <2> QED BY <2>1, <2>2
<1> QED BY <1>8, <1>9 DEF a, d, r

(* A request that goes on to a step of its own leaves the others idle. *)
LEMMA AloneGoes ==
    ASSUME TypeOK, Alone, NEW t \in Threads, pc[t] # "idle",
           NEW step, pc' = [pc EXCEPT ![t] = step]
    PROVE  /\ Alone'
           /\ \A u \in Threads : u # t => pc[u] = "idle" /\ pc'[u] = "idle"
           /\ pc'[t] = step
BY DEF TypeOK, Alone

LEMMA SerialStep ==
    ASSUME TypeOK, InRequest, SerialInv, NEW t \in Threads, Step(t)
    PROVE  SerialInv'
<1> USE DEF SerialInv
<1>0. /\ pc[t] # "idle" => req[t] \in Jws
      /\ EndOf(cache, claims) /\ cache \in Seq(Nat) /\ claims \in Seq(Nat)
  BY DEF InRequest, TypeOK
<1>1. CASE \/ VerifyRefused(t) \/ RefusalAuditFails(t) \/ Replayed(t) \/ ClaimFails(t)
           \/ ReceiptFails(t) \/ WriteFails(t) \/ AuditDeployed(t) \/ AuditFails(t)
  <2>1. /\ pc[t] \notin {"idle", "reload", "install"}
        /\ pc' = [pc EXCEPT ![t] = "idle"] /\ answers \subseteq answers'
        /\ UNCHANGED <<policy, live, cache, claims, req, seen, read>>
    BY <1>1 DEF VerifyRefused, RefusalAuditFails, Replayed, ClaimFails,
                ReceiptFails, WriteFails, AuditDeployed, AuditFails, Answer, Goto
  <2>2. Alone' /\ \A u \in Threads : pc'[u] = "idle" /\ pc[u] \notin {"reload", "install"}
    BY <2>1, AloneGoes
  <2>3. Served'
    BY <2>1, <2>2 DEF Served, Rules
  <2>9. EndOf(cache', claims') /\ ReplayWindow'
    BY <2>1 DEF ReplayWindow
  <2> QED BY <2>1, <2>2, <2>3, <2>9
<1>2. CASE Verify(t) \/ EmitGateReceipt(t)
  <2>1. /\ pc[t] \notin {"idle", "reload", "install"}
        /\ UNCHANGED <<policy, live, cache, claims, req, seen, read, answers>>
        /\ pc' = [pc EXCEPT ![t] = "nonce"] \/ pc' = [pc EXCEPT ![t] = "write"]
    BY <1>2 DEF Verify, EmitGateReceipt, Goto
  <2>2. /\ Alone' /\ pc'[t] \in {"nonce", "write"}
        /\ \A u \in Threads : u # t => pc[u] = "idle" /\ pc'[u] = "idle"
    BY <2>1, AloneGoes
  <2>3. Served'
    BY <2>1, <2>2 DEF Served, Rules
  <2>9. EndOf(cache', claims') /\ ReplayWindow'
    BY <2>1 DEF ReplayWindow
  <2> QED BY <2>1, <2>2, <2>3, <2>9
<1>3. CASE OpenNonceCache(t)
  <2>1. /\ pc[t] = "nonce" /\ pc' = [pc EXCEPT ![t] = "claim"]
        /\ seen' = [seen EXCEPT ![t] = Newest(CacheMax, cache)]
        /\ UNCHANGED <<policy, live, cache, claims, req, read, answers>>
    BY <1>3 DEF OpenNonceCache, Goto
  <2>2. /\ Alone' /\ pc'[t] = "claim"
        /\ \A u \in Threads : u # t => pc[u] = "idle" /\ pc'[u] = "idle"
    BY <2>1, AloneGoes
  <2>3. EndOf(seen'[t], claims')
    BY <1>0, <2>1, LoadedEnd DEF TypeOK
  <2>4. Served'
    BY <2>1, <2>2 DEF Served, Rules
  <2>5. EndOf(cache', claims') /\ ReplayWindow'
    BY <2>1 DEF ReplayWindow
  <2> QED BY <2>1, <2>2, <2>3, <2>4, <2>5
<1>4. CASE Claim(t)
  <2> DEFINE n == Nonce[req[t]]
  <2>1. /\ pc[t] = "claim" /\ pc' = [pc EXCEPT ![t] = "receipt"]
        /\ n \notin Range(seen[t])
        /\ cache' = Newest(CacheMax, Append(seen[t], n))
        /\ claims' = Append(claims, n)
        /\ UNCHANGED <<policy, live, req, seen, read, answers>>
    BY <1>4 DEF Claim, Goto
  <2>2. /\ Alone' /\ pc'[t] = "receipt"
        /\ \A u \in Threads : u # t => pc[u] = "idle" /\ pc'[u] = "idle"
    BY <2>1, AloneGoes
  <2>3. n \in Nat /\ EndOf(seen[t], claims)
    BY <1>0, <2>1, IntakeAssumption
  <2> HIDE DEF n
  <2>4. /\ EndOf(cache', claims')
        /\ \A i \in 1 .. Len(claims) : claims[i] = n => Len(claims) + 1 - i > CacheMax
    BY <1>0, <2>1, <2>3, ClaimedEnd
  <2>5. /\ DOMAIN claims = 1 .. Len(claims) /\ DOMAIN claims' = 1 .. Len(claims) + 1
        /\ \A i \in 1 .. Len(claims) : claims'[i] = claims[i]
        /\ claims'[Len(claims) + 1] = n /\ Len(claims) \in Nat
    BY <1>0, <2>1, <2>3, AppendProperties, LenProperties
  <2>6. ReplayWindow'
    <3> SUFFICES ASSUME NEW i \in DOMAIN claims', NEW k \in DOMAIN claims',
                        i < k, claims'[i] = claims'[k]
                 PROVE  k - i > CacheMax
      BY DEF ReplayWindow
    <3>1. i \in 1 .. Len(claims)
      BY <2>5
    <3>2. CASE k \in 1 .. Len(claims)
      BY <2>5, <3>1, <3>2 DEF ReplayWindow
    <3>3. CASE k = Len(claims) + 1
      BY <2>4, <2>5, <3>1, <3>3
    <3> QED BY <2>5, <3>2, <3>3
  <2>7. Served'
    BY <2>1, <2>2 DEF Served, Rules
  <2> QED BY <2>1, <2>2, <2>4, <2>6, <2>7
<1>5. CASE WritePolicy(t)
  <2>1. /\ pc[t] = "write" /\ pc' = [pc EXCEPT ![t] = "reload"]
        /\ policy' = req[t]
        /\ UNCHANGED <<live, cache, claims, req, seen, read, answers>>
    BY <1>5 DEF WritePolicy, Goto
  <2>2. /\ Alone' /\ pc'[t] = "reload"
        /\ \A u \in Threads : u # t => pc[u] = "idle" /\ pc'[u] = "idle"
    BY <2>1, AloneGoes
  <2>9. EndOf(cache', claims') /\ ReplayWindow'
    BY <2>1 DEF ReplayWindow
  <2> QED BY <2>1, <2>2, <2>9
<1>6. CASE ReloadRead(t)
  <2>1. /\ pc[t] = "reload" /\ pc' = [pc EXCEPT ![t] = "install"]
        /\ read' = [read EXCEPT ![t] = Rules(policy)]
        /\ UNCHANGED <<policy, live, cache, claims, req, seen, answers>>
    BY <1>6 DEF ReloadRead, Goto
  <2>2. /\ Alone' /\ pc'[t] = "install"
        /\ \A u \in Threads : u # t => pc[u] = "idle" /\ pc'[u] = "idle"
    BY <2>1, AloneGoes
  <2>3. read'[t] = Rules(policy')
    BY <2>1 DEF TypeOK, Rules
  <2>9. EndOf(cache', claims') /\ ReplayWindow'
    BY <2>1 DEF ReplayWindow
  <2> QED BY <2>1, <2>2, <2>3, <2>9
<1>7. CASE ReloadInstall(t)
  <2>1. /\ pc[t] = "install" /\ pc' = [pc EXCEPT ![t] = "audit"]
        /\ live' = read[t] /\ read[t] = Rules(policy)
        /\ UNCHANGED <<policy, cache, claims, req, seen, read, answers>>
    BY <1>7 DEF ReloadInstall, Goto
  <2>2. /\ Alone' /\ pc'[t] = "audit"
        /\ \A u \in Threads : u # t => pc[u] = "idle" /\ pc'[u] = "idle"
    BY <2>1, AloneGoes
  <2>3. Served'
    BY <2>1 DEF Served, Rules
  <2>9. EndOf(cache', claims') /\ ReplayWindow'
    BY <2>1 DEF ReplayWindow
  <2> QED BY <2>1, <2>2, <2>3, <2>9
<1>8. CASE ReloadFails(t) \/ ReloadAuditFails(t)
  <2>0. PICK status \in {"refused", "error"}, audited \in BOOLEAN : Answer(t, status, audited)
    BY <1>8 DEF ReloadFails, ReloadAuditFails
  <2> DEFINE a == [jws |-> req[t], status |-> status, audited |-> audited,
                   wrote |-> pc[t] \in {"reload", "install", "audit"}]
  <2>1. /\ pc[t] = "reload" /\ pc' = [pc EXCEPT ![t] = "idle"] /\ a \in answers'
        /\ policy = req[t]
        /\ UNCHANGED <<policy, live, cache, claims, req, seen, read>>
    BY <1>8, <2>0 DEF ReloadFails, ReloadAuditFails, Answer, Goto
  <2>2. /\ Alone' /\ pc'[t] = "idle"
        /\ \A u \in Threads : u # t => pc[u] = "idle" /\ pc'[u] = "idle"
    BY <2>1, AloneGoes
  <2>3. a.jws = policy' /\ a.status # "accepted" /\ a.wrote
    BY <2>0, <2>1
  <2>4. Served'
    <3> HIDE DEF a
    <3> QED BY <2>1, <2>3 DEF Served
  <2>9. EndOf(cache', claims') /\ ReplayWindow'
    BY <2>1 DEF ReplayWindow
  <2> QED BY <2>1, <2>2, <2>4, <2>9
<1> QED BY <1>1, <1>2, <1>3, <1>4, <1>5, <1>6, <1>7, <1>8 DEF Step

LEMMA InTurnNext ==
    ASSUME TypeOK, InRequest, InTurn, [Next]_vars
    PROVE  InTurn'
<1> SUFFICES ASSUME used'.overlaps = 0 PROVE SerialInv'
  BY DEF InTurn
<1>0. used \in Counts
  BY DEF TypeOK, Counts
<1>1. CASE UNCHANGED vars
  <2>1. SerialInv
    BY <1>1 DEF vars, InTurn
  <2>2. Served => Served'
    BY <1>1 DEF vars, Served, Rules
  <2>3. Alone' /\ EndOf(cache', claims') /\ ReplayWindow'
    BY <1>1, <2>1 DEF vars, SerialInv, Alone, ReplayWindow
  <2>4. UNCHANGED <<pc, seen, read, req, policy, claims>> /\ \A p : Rules(p)' = Rules(p')
    BY <1>1 DEF vars, Rules
  <2> QED BY <2>1, <2>2, <2>3, <2>4 DEF SerialInv, EndOf, Rules
<1>2. ASSUME NEW t \in Threads, NEW j \in Jws, Submit(t, j) PROVE SerialInv'
  <2>1. SerialInv /\ Quiet
    BY <1>0, <1>2, SubmitCounts DEF InTurn
  <2>2. /\ pc' = [pc EXCEPT ![t] = "verify"]
        /\ UNCHANGED <<policy, live, cache, seen, read, answers, claims>>
    BY <1>2 DEF Submit, Goto
  <2>3. pc'[t] = "verify" /\ \A u \in Threads : u # t => pc'[u] = "idle"
    BY <2>1, <2>2 DEF Quiet, TypeOK
  <2>4. Served'
    BY <2>1, <2>2 DEF SerialInv, Quiet, Served, Rules
  <2> QED BY <2>1, <2>2, <2>3, <2>4 DEF SerialInv, Alone, EndOf, ReplayWindow
<1>3. ASSUME NEW t \in Threads, Step(t) PROVE SerialInv'
  <2>1. used'.overlaps = used.overlaps
    BY <1>0, <1>3, FaultCounts
    DEF Step, VerifyRefused, RefusalAuditFails, Verify, OpenNonceCache, Replayed, Claim,
        ClaimFails, EmitGateReceipt, ReceiptFails, WritePolicy, WriteFails, ReloadRead,
        ReloadInstall, ReloadFails, ReloadAuditFails, AuditDeployed, AuditFails
  <2> QED BY <1>3, <2>1, SerialStep DEF InTurn
<1>4. CASE Restart
  <2>1. used'.overlaps = used.overlaps
    BY <1>0, <1>4, RestartCounts
  <2>2. SerialInv
    BY <2>1 DEF InTurn
  <2>3. /\ pc' = [t \in Threads |-> "idle"] /\ live' = Rules(policy)
        /\ UNCHANGED <<policy, cache, claims>>
    BY <1>4 DEF Restart
  <2>4. Served'
    BY <2>3 DEF Served, Rules
  <2> QED BY <2>2, <2>3, <2>4 DEF SerialInv, Alone, EndOf, ReplayWindow
<1> QED BY <1>1, <1>2, <1>3, <1>4 DEF Next

LEMMA InTurnInit == Init => InTurn
<1> SUFFICES ASSUME Init PROVE SerialInv
  BY DEF InTurn
<1>1. EndOf(cache, claims) /\ ReplayWindow
  BY IntakeAssumption DEF Init, EndOf, ReplayWindow
<1>2. live = Rules(policy)
  BY IntakeAssumption DEF Init, Rules
<1> QED BY <1>1, <1>2 DEF Init, SerialInv, Alone, Served

(* Whatever requests overlap and wherever the gate dies, only what was verified
   and receipted reaches the policy file; and until one request begins beside
   another no nonce comes back within the window, and the gate enforces its file
   or said that it could not (accept_deployment, NonceCache, reload_policies). *)
THEOREM IntakeStands == Spec => []IntakeHolds
<1>1. OnlyReceiptedPolicies /\ InTurn => IntakeHolds
  BY DEF InTurn, SerialInv, IntakeHolds, EnforcesTheFile, Quiet, Served
<1> QED BY <1>1, OnlyReceipted, TypeAlways, InTurnInit, InTurnNext, PTL DEF Spec
=============================================================================
