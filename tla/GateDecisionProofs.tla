------------------------- MODULE GateDecisionProofs -------------------------
(***************************************************************************)
(* What the gate's decision keeps for every number of calls, policies and  *)
(* rules: a call under a hold is refused, the seal has its receipt, with   *)
(* one operator the cited rule is the first match of a policy in force,    *)
(* and, one request at a time, index and token belong to one policy.       *)
(***************************************************************************)
EXTENDS GateDecision, FiniteSetTheorems, SequenceTheorems, TLAPS

----------------------------------------------------------------------------
(* Operators *)

(* Every set of natural numbers that is not empty has a least one. *)
LEMMA LeastNatural ==
  ASSUME NEW T \in SUBSET Nat, T # {}
  PROVE  \E m \in T : \A n \in T : m <= n
<1> DEFINE upTo(n) == 0 .. n
           F == {upTo(n) : n \in T}
<1>1. ASSUME NEW n \in Nat PROVE upTo(n) \in FiniteSubsetsOf(Nat)
  BY FS_Interval DEF FiniteSubsetsOf
<1>2. F \subseteq FiniteSubsetsOf(Nat) /\ F # {}
  BY <1>1
<1> HIDE DEF F
<1>3. PICK x \in F : \A y \in F : <<y, x>> \notin StrictSubsetOrdering(Nat)
  BY <1>2, FS_StrictSubsetOrderingWellFounded, WFMin
<1> USE DEF F
<1>4. PICK m \in T : x = upTo(m)
  OBVIOUS
<1>5. ASSUME NEW n \in T, n < m PROVE FALSE
  <2>1. upTo(n) \subseteq upTo(m) /\ m \in upTo(m) /\ m \notin upTo(n)
    BY <1>5
  <2>2. upTo(n) \in SUBSET Nat /\ upTo(m) \in SUBSET Nat
    BY <1>5
  <2>3. <<upTo(n), upTo(m)>> \in StrictSubsetOrdering(Nat)
    BY <2>1, <2>2 DEF StrictSubsetOrdering
  <2> QED BY <1>3, <1>4, <2>3
<1> QED BY <1>5

LEMMA FirstMatchIs ==
  ASSUME NEW rs \in Seq(RuleIds), NEW src
  PROVE  \/ /\ FirstMatch(rs, src) = None
            /\ \A i \in 1 .. Len(rs) : src \notin Matches[rs[i]]
         \/ \E i \in 1 .. Len(rs) :
              /\ FirstMatch(rs, src) = rs[i]
              /\ src \in Matches[rs[i]]
              /\ \A j \in 1 .. i - 1 : src \notin Matches[rs[j]]
<1> DEFINE I == {i \in 1 .. Len(rs) : src \in Matches[rs[i]]}
           k == IF I # {} THEN CHOOSE i \in I : \A j \in I : i <= j ELSE 0
<1>1. FirstMatch(rs, src) = IF k = 0 THEN None ELSE rs[k]
  BY DEF FirstMatch, SelectInSeq, Min
<1>2. CASE I = {}
  BY <1>1, <1>2
<1>3. CASE I # {}
  <2>1. I \in SUBSET Nat
    OBVIOUS
  <2>2. k \in I /\ \A j \in I : k <= j
    BY <1>3, <2>1, LeastNatural
  <2> HIDE DEF k
  <2> QED BY <1>1, <2>2
<1> QED BY <1>2, <1>3

(* A rule found in the first rules of a policy is the one found in the policy. *)
LEMMA FirstMatchOfPrefix ==
  ASSUME NEW rs \in Seq(RuleIds), NEW ps \in Seq(RuleIds), NEW src,
         Len(ps) <= Len(rs), \A i \in 1 .. Len(ps) : ps[i] = rs[i],
         FirstMatch(ps, src) # None
  PROVE  FirstMatch(rs, src) = FirstMatch(ps, src)
<1>1. PICK i \in 1 .. Len(ps) : /\ FirstMatch(ps, src) = ps[i]
                                /\ src \in Matches[ps[i]]
                                /\ \A j \in 1 .. i - 1 : src \notin Matches[ps[j]]
  BY FirstMatchIs
<1>2. PICK k \in 1 .. Len(rs) : /\ FirstMatch(rs, src) = rs[k]
                                /\ src \in Matches[rs[k]]
                                /\ \A j \in 1 .. k - 1 : src \notin Matches[rs[j]]
  BY <1>1, FirstMatchIs
<1>3. i \in Nat /\ k \in Nat /\ Len(ps) \in Nat /\ Len(rs) \in Nat
  OBVIOUS
<1>4. i = k
  BY <1>1, <1>2, <1>3
<1> QED BY <1>1, <1>2, <1>4

----------------------------------------------------------------------------
(* Steps *)

(* What every step of a call does: it ends, or goes on with what it knows. *)
Ends(t) ==
    /\ pc' = [pc EXCEPT ![t] = "idle"]
    /\ loc' = [loc EXCEPT ![t] = NoCall]
    /\ inForce' = [inForce EXCEPT ![t] = {}]

GoesOn(t, step, l) ==
    /\ pc' = [pc EXCEPT ![t] = step]
    /\ loc' = [loc EXCEPT ![t] = l]
    /\ inForce' = inForce
    /\ answers' = answers

Answered(t) ==
    /\ Ends(t)
    /\ pc[t] = "receipt"
    /\ answers' = answers \cup
         {[src |-> loc[t].src, arg |-> loc[t].arg, cited |-> loc[t].rule,
           under |-> loc[t].token.rule, held |-> loc[t].held, inForce |-> inForce[t]]}

Begun(t) ==
    /\ pc[t] = "idle"
    /\ \E src \in Sources, arg \in Args :
         loc' = [loc EXCEPT ![t] = [NoCall EXCEPT !.src = src, !.arg = arg, !.held = held]]
    /\ pc' = [pc EXCEPT ![t] = "contain"]
    /\ inForce' = [inForce EXCEPT ![t] = loaded]
    /\ answers' = answers

Passed(t) ==
    \E s \in {"tamper", "lookup", "match", "decide", "receipt"} :
      /\ \E tk \in {loc[t].token, Token(loc[t].rule)} :
           GoesOn(t, s, [loc[t] EXCEPT !.token = tk])
      /\ s = "tamper" => pc[t] = "contain" /\ ~held
      /\ s = "lookup" => pc[t] = "tamper"
      /\ s = "match" => pc[t] = "lookup"
      /\ s = "decide" => pc[t] = "fresh"
      /\ s = "receipt" => pc[t] = "decide"
      /\ s # "decide" => loc' = loc

Matched(t) ==
    /\ pc[t] = "match"
    /\ FirstMatch(rules, loc[t].src) # None
    /\ GoesOn(t, "token", [loc[t] EXCEPT !.rule = FirstMatch(rules, loc[t].src)])

Took(t) ==
    /\ pc[t] = "token"
    /\ token # None
    /\ GoesOn(t, "fresh", [loc[t] EXCEPT !.token = token])

LEMMA CallStepIs ==
  ASSUME TypeOK, NEW t \in Callers, CallStep(t)
  PROVE  /\ UNCHANGED <<file, seal, sealed, rules, held, op, loaded>>
         /\ token' \in {token, Token(loc[t].rule)}
         /\ token' # token => pc[t] = "fresh"
         /\ \/ Ends(t) /\ pc[t] # "idle" /\ answers' = answers
            \/ Answered(t) \/ Begun(t) \/ Passed(t) \/ Matched(t) \/ Took(t)
<1> USE DEF Ends, GoesOn, On, Goto, Deny, Answered, Begun, Passed, Matched, Took
<1>0. loc = [loc EXCEPT ![t] = loc[t]] /\ loc[t] = [loc[t] EXCEPT !.token = loc[t].token]
  BY DEF TypeOK
<1>1. ASSUME NEW src \in Sources, NEW arg \in Args, Call(t, src, arg)
      PROVE  /\ UNCHANGED <<file, seal, sealed, rules, held, op, loaded, token, answers>>
             /\ pc[t] = "idle"
             /\ loc' = [loc EXCEPT ![t] = [NoCall EXCEPT !.src = src, !.arg = arg,
                                                         !.held = held]]
             /\ pc' = [pc EXCEPT ![t] = "contain"]
             /\ inForce' = [inForce EXCEPT ![t] = loaded]
  BY <1>1 DEF Call, Begin, Idle
<1>2. CASE CheckContained(t)
  BY <1>0, <1>2 DEF CheckContained
<1>3. CASE CheckTampered(t)
  BY <1>0, <1>3 DEF CheckTampered
<1>4. CASE LookUp(t) \/ RefusedByAuthority(t)
  BY <1>0, <1>4 DEF LookUp, RefusedByAuthority
<1>5. CASE Match(t)
  BY <1>5 DEF Match, TypeOK
<1>6. CASE TakeToken(t)
  BY <1>6 DEF TakeToken, TypeOK
<1>7. CASE EnsureFresh(t)
  <2>1. CASE loc[t].token.live
    BY <1>0, <1>7, <2>1 DEF EnsureFresh
  <2>2. CASE ~loc[t].token.live
    BY <1>7, <2>2 DEF EnsureFresh, TypeOK
  <2> QED BY <2>1, <2>2
<1>8. CASE MintFails(t) \/ RefusedByRule(t)
  BY <1>8 DEF MintFails, RefusedByRule
<1>9. CASE Decide(t)
  BY <1>0, <1>9 DEF Decide
<1>10. CASE Receipt(t) \/ ReceiptFails(t)
  BY <1>10 DEF Receipt, ReceiptFails
<1> QED BY <1>1, <1>2, <1>3, <1>4, <1>5, <1>6, <1>7, <1>8, <1>9, <1>10 DEF CallStep

(* What every step of an operator thread leaves alone, and what it reads. *)
LEMMA OperatorStepIs ==
  ASSUME TypeOK, NEW o \in Operators, OperatorStep(o)
  PROVE  /\ UNCHANGED <<held, loc, answers>>
         /\ pc' = [pc EXCEPT ![o] = pc'[o]]
         /\ op' = [op EXCEPT ![o] = op'[o]]
         /\ \/ FillRule(o)
            \/ UNCHANGED inForce
         /\ \/ ClearIndex(o) \/ FillRule(o) \/ MintToken(o)
            \/ UNCHANGED <<rules, token, loaded>> /\ pc[o] \notin {"clear", "fill"}
<1>1. op = [op EXCEPT ![o] = op[o]] /\ pc = [pc EXCEPT ![o] = pc[o]]
  BY DEF TypeOK
<1>2. CASE (\E p \in Policies : Save(o, p)) \/ Reload(o) \/ ReadFile(o)
  BY <1>1, <1>2 DEF Save, Reload, ReadFile, Begin, Goto, Callers_Unchanged, TypeOK, Idle, Threads
<1>3. CASE ClearIndex(o) \/ MintToken(o)
  BY <1>1, <1>3 DEF ClearIndex, MintToken, Goto, Callers_Unchanged, TypeOK, Threads
<1>4. CASE FillRule(o)
  BY <1>1, <1>4 DEF FillRule, TypeOK
<1>5. CASE SealDigest(o) \/ SealReceipt(o) \/ SealRefused(o) \/ SealPersist(o)
  BY <1>1, <1>5 DEF SealDigest, SealReceipt, SealRefused, SealPersist, Goto,
                    Callers_Unchanged, TypeOK, Begin, Idle, Threads
<1> QED BY <1>2, <1>3, <1>4, <1>5 DEF OperatorStep

(* What the bounds count: a fault or a change of the files is one more, and a
   request that begins beside another is an overlap for good. *)
Counts == [calls : Nat, changes : Nat, faults : Nat, restarts : Nat, overlaps : Nat]

LEMMA UsesIs ==
  ASSUME used \in Counts, NEW bound \in {"calls", "changes", "faults", "restarts"}, NEW max,
         Uses(bound, max)
  PROVE  used' \in Counts /\ used'.overlaps = used.overlaps
BY DEF Uses, Counts

LEMMA BeginIs ==
  ASSUME used \in Counts, NEW t, NEW bound \in {"calls", "changes"}, NEW max,
         Begin(t, bound, max)
  PROVE  /\ used' \in Counts
         /\ used'.overlaps = 0 => used.overlaps = 0 /\ \A u \in Threads : Idle(u)
<1> DEFINE n == IF \A u \in Threads : Idle(u) THEN used.overlaps ELSE 1
<1>1. n \in Nat /\ (n = 0 => used.overlaps = 0 /\ \A u \in Threads : Idle(u))
  BY DEF Counts
<1>2. used' = [used EXCEPT ![bound] = @ + 1, !.overlaps = n]
  BY DEF Begin
<1> HIDE DEF n
<1>3. CASE bound = "calls"
  <2>1. used' = [calls |-> used.calls + 1, changes |-> used.changes, faults |-> used.faults,
                 restarts |-> used.restarts, overlaps |-> n]
    BY <1>2, <1>3 DEF Counts
  <2> QED BY <1>1, <2>1 DEF Counts
<1>4. CASE bound = "changes"
  <2>1. used' = [calls |-> used.calls, changes |-> used.changes + 1, faults |-> used.faults,
                 restarts |-> used.restarts, overlaps |-> n]
    BY <1>2, <1>4 DEF Counts
  <2> QED BY <1>1, <2>1 DEF Counts
<1> QED BY <1>3, <1>4

LEMMA CallCounts ==
  ASSUME used \in Counts, NEW t \in Callers, CallStep(t)
  PROVE  /\ used' \in Counts
         /\ used'.overlaps = 0 =>
              used.overlaps = 0 /\ (pc[t] = "idle" => \A u \in Threads : Idle(u))
<1>1. CASE \E src \in Sources, arg \in Args : Call(t, src, arg)
  <2>1. Begin(t, "calls", MaxCalls)
    BY <1>1 DEF Call
  <2> QED BY <2>1, BeginIs
<1>2. CASE MintFails(t) \/ ReceiptFails(t)
  <2>1. pc[t] # "idle"
    BY <1>2 DEF MintFails, ReceiptFails
  <2>2. used' = used \/ Uses("faults", MaxFaults)
    BY <1>2 DEF MintFails, ReceiptFails, Deny
  <2> QED BY <2>1, <2>2, UsesIs
<1>3. CASE \/ CheckContained(t) \/ CheckTampered(t) \/ RefusedByAuthority(t) \/ LookUp(t)
           \/ Match(t) \/ TakeToken(t) \/ EnsureFresh(t) \/ RefusedByRule(t) \/ Decide(t) \/ Receipt(t)
  <2>1. pc[t] # "idle" /\ used' = used
    BY <1>3 DEF CheckContained, CheckTampered, RefusedByAuthority, LookUp, Match, TakeToken,
                EnsureFresh, RefusedByRule, Decide, Receipt, On, Deny
  <2> QED BY <2>1
<1> QED BY <1>1, <1>2, <1>3 DEF CallStep

LEMMA OperatorCounts ==
  ASSUME used \in Counts, NEW o \in Operators, OperatorStep(o)
  PROVE  /\ used' \in Counts
         /\ used'.overlaps = 0 =>
              used.overlaps = 0 /\ (pc[o] = "idle" => \A u \in Threads : Idle(u))
<1>1. CASE (\E p \in Policies : Save(o, p)) \/ Reload(o) \/ SealDigest(o)
  <2>1. Begin(o, "changes", MaxChanges)
    BY <1>1 DEF Save, Reload, SealDigest
  <2> QED BY <2>1, BeginIs
<1>2. CASE SealRefused(o)
  <2>1. pc[o] # "idle" /\ Uses("faults", MaxFaults)
    BY <1>2 DEF SealRefused
  <2> QED BY <2>1, UsesIs
<1>3. CASE \/ ReadFile(o) \/ ClearIndex(o) \/ FillRule(o) \/ MintToken(o) \/ SealReceipt(o)
           \/ SealPersist(o)
  <2>1. pc[o] # "idle" /\ used' = used
    BY <1>3 DEF ReadFile, ClearIndex, FillRule, MintToken, SealReceipt, SealPersist
  <2> QED BY <2>1
<1> QED BY <1>1, <1>2, <1>3 DEF OperatorStep

LEMMA NextCounts ==
  ASSUME used \in Counts, [Next]_vars
  PROVE  used' \in Counts /\ (used'.overlaps = 0 => used.overlaps = 0)
<1>1. CASE (\E p \in Policies : Edit(p)) \/ Restart
  <2>1. Uses("changes", MaxChanges) \/ Uses("restarts", MaxRestarts)
    BY <1>1 DEF Edit, Restart
  <2> QED BY <2>1, UsesIs
<1>2. CASE UNCHANGED vars \/ Hold \/ Release \/ Expire
  BY <1>2 DEF vars, Hold, Release, Expire
<1> QED BY <1>1, <1>2, CallCounts, OperatorCounts DEF Next

LEMMA DataTypes ==
  /\ NoCall \in [src : Sources, arg : Args, held : BOOLEAN,
                 rule : RuleIds \cup {None}, token : Tokens]
  /\ NoPolicy \in [policy : Policies \cup {None}, n : Nat]
  /\ \A r \in RuleIds : Token(r) \in Tokens
  /\ \A p \in Policies : RulesOf[p] \in Seq(RuleIds) /\ TokenOf(RulesOf[p]) \in Tokens
  /\ \A rs \in Seq(RuleIds) : \A src : FirstMatch(rs, src) \in RuleIds \cup {None}
<1>1. \A r \in RuleIds : Token(r) \in Tokens
  BY DEF Token, Tokens
<1>2. ASSUME NEW rs \in Seq(RuleIds) PROVE TokenOf(rs) \in Tokens
  BY <1>1 DEF TokenOf, Tokens
<1>3. ASSUME NEW rs \in Seq(RuleIds), NEW src PROVE FirstMatch(rs, src) \in RuleIds \cup {None}
  BY FirstMatchIs
<1>4. NoCall \in [src : Sources, arg : Args, held : BOOLEAN,
                  rule : RuleIds \cup {None}, token : Tokens]
  BY GateAssumption DEF NoCall, Tokens
<1> QED BY <1>1, <1>2, <1>3, <1>4, GateAssumption DEF NoPolicy

LEMMA TypeInit == Init => TypeOK
<1> SUFFICES ASSUME Init PROVE TypeOK
  OBVIOUS
<1>1. /\ file \in Policies /\ seal \in Policies \cup {None} /\ sealed \subseteq Policies
      /\ rules \in Seq(RuleIds) /\ token \in Tokens /\ held \in BOOLEAN /\ loaded \subseteq Policies
  BY DataTypes, GateAssumption DEF Init
<1>2. /\ pc \in [Threads -> CallSteps \cup OperatorSteps]
      /\ \A t \in Callers : pc[t] \in CallSteps
      /\ \A o \in Operators : pc[o] \in OperatorSteps
  BY DEF Init, CallSteps, OperatorSteps, Threads
<1>3. loc \in [Callers -> [src : Sources, arg : Args, held : BOOLEAN,
                         rule : RuleIds \cup {None}, token : Tokens]]
  BY DataTypes DEF Init
<1>4. op \in [Operators -> [policy : Policies \cup {None}, n : Nat]]
  BY DataTypes DEF Init
<1>5. inForce \in [Callers -> SUBSET Policies]
  BY DEF Init
<1>6. used \in [calls : Nat, changes : Nat, faults : Nat, restarts : Nat, overlaps : Nat]
  BY DEF Init
<1> QED BY <1>1, <1>2, <1>3, <1>4, <1>5, <1>6 DEF TypeOK

(* The rules an operator thread has yet to index. *)
LEMMA PendingIs ==
  ASSUME NEW o \in Operators, TypeOK, op[o].policy \in Policies
  PROVE  LET rs == RulesOf[op[o].policy]
             n  == op[o].n
         IN  /\ n \in Nat /\ rs \in Seq(RuleIds)
             /\ Pending(o) # <<>> <=> n < Len(rs)
             /\ Pending(o) # <<>> => /\ Head(Pending(o)) = rs[n + 1]
                                     /\ Head(Pending(o)) \in RuleIds
<1> DEFINE rs == RulesOf[op[o].policy]
           n  == op[o].n
<1>1. n \in Nat /\ rs \in Seq(RuleIds) /\ Len(rs) \in Nat
  BY GateAssumption DEF TypeOK
<1>2. Pending(o) = SubSeq(rs, n + 1, Len(rs))
  BY DEF Pending
<1> HIDE DEF rs, n
<1>3. \A i \in n + 1 .. Len(rs) : rs[i] \in RuleIds
  BY <1>1
<1>4. /\ Pending(o) \in Seq(RuleIds)
      /\ Len(Pending(o)) = IF n + 1 <= Len(rs) THEN Len(rs) - n ELSE 0
      /\ \A i \in 1 .. Len(rs) - n : Pending(o)[i] = rs[n + i]
  BY <1>1, <1>2, <1>3, SubSeqProperties
<1>5. Pending(o) # <<>> <=> Len(Pending(o)) # 0
  BY <1>4
<1>6. Pending(o) # <<>> <=> n < Len(rs)
  BY <1>1, <1>4, <1>5
<1>7. Pending(o) # <<>> => Head(Pending(o)) = Pending(o)[1]
  BY <1>4
<1>8. Pending(o) # <<>> => Head(Pending(o)) = rs[n + 1] /\ n + 1 \in n + 1 .. Len(rs)
  BY <1>1, <1>4, <1>6, <1>7
<1>9. Pending(o) # <<>> => Head(Pending(o)) \in RuleIds
  BY <1>3, <1>8
<1> QED BY <1>1, <1>6, <1>8, <1>9 DEF rs, n

(* A thread in the middle of a request holds what it has read. *)
InRequest ==
    /\ \A o \in Operators : pc[o] \in {"clear", "fill", "seal", "persist"} =>
          op[o].policy \in Policies
    /\ \A t \in Callers : pc[t] \in {"token", "fresh", "decide", "receipt"} =>
          loc[t].rule \in RuleIds

LEMMA TypeNext == TypeOK /\ InRequest /\ [Next]_vars => TypeOK' /\ InRequest'
<1> SUFFICES ASSUME TypeOK, InRequest, [Next]_vars PROVE TypeOK' /\ InRequest'
  OBVIOUS
<1> DEFINE Known == [src : Sources, arg : Args, held : BOOLEAN,
                     rule : RuleIds \cup {None}, token : Tokens]
<1>0. /\ NoCall \in Known
      /\ NoPolicy \in [policy : Policies \cup {None}, n : Nat]
      /\ \A r \in RuleIds : Token(r) \in Tokens
      /\ \A p \in Policies : RulesOf[p] \in Seq(RuleIds) /\ TokenOf(RulesOf[p]) \in Tokens
      /\ \A rs \in Seq(RuleIds) : \A src : FirstMatch(rs, src) \in RuleIds \cup {None}
  BY DataTypes
<1>u. used' \in [calls : Nat, changes : Nat, faults : Nat, restarts : Nat, overlaps : Nat]
  BY NextCounts DEF TypeOK, Counts
<1>1. ASSUME NEW t \in Callers, CallStep(t) PROVE TypeOK' /\ InRequest'
  <2>1. /\ t \in Threads /\ t \notin Operators
        /\ UNCHANGED <<file, seal, sealed, rules, held, op, loaded>>
    BY <1>1, CallStepIs, GateAssumption DEF Threads
  <2>2. token' \in Tokens
    <3>1. token' \in {token, Token(loc[t].rule)} /\ (token' # token => pc[t] = "fresh")
      BY <1>1, CallStepIs
    <3>2. pc[t] = "fresh" => loc[t].rule \in RuleIds
      BY DEF InRequest
    <3>3. token \in Tokens
      BY DEF TypeOK
    <3> QED BY <1>0, <3>1, <3>2, <3>3
  <2>3. ASSUME NEW l \in Known, NEW s \in CallSteps, NEW f \in SUBSET Policies,
               pc' = [pc EXCEPT ![t] = s], loc' = [loc EXCEPT ![t] = l],
               inForce' = [inForce EXCEPT ![t] = f],
               s \in {"token", "fresh", "decide", "receipt"} => l.rule \in RuleIds
        PROVE  TypeOK' /\ InRequest'
    BY <1>u, <2>1, <2>2, <2>3 DEF TypeOK, InRequest, Threads
  <2>4. loc[t] \in Known /\ inForce[t] \subseteq Policies
        /\ inForce = [inForce EXCEPT ![t] = inForce[t]]
    BY DEF TypeOK
  <2> HIDE DEF Known
  <2>5. CASE Ends(t)
    <3>1. "idle" \in CallSteps /\ {} \in SUBSET Policies
      BY DEF CallSteps
    <3> QED BY <1>0, <2>3, <2>5, <3>1 DEF Ends
  <2>6. ASSUME NEW src \in Sources, NEW arg \in Args,
               loc' = [loc EXCEPT ![t] = [NoCall EXCEPT !.src = src, !.arg = arg, !.held = held]],
               pc' = [pc EXCEPT ![t] = "contain"],
               inForce' = [inForce EXCEPT ![t] = loaded]
        PROVE  TypeOK' /\ InRequest'
    <3> DEFINE l == [NoCall EXCEPT !.src = src, !.arg = arg, !.held = held]
    <3>1. l \in Known
      BY <1>0 DEF TypeOK, Known
    <3>2. "contain" \in CallSteps /\ loaded \in SUBSET Policies
      BY DEF CallSteps, TypeOK
    <3> HIDE DEF l
    <3> QED BY <2>3, <2>6, <3>1, <3>2 DEF l
  <2>7. ASSUME NEW s \in {"tamper", "lookup", "match", "decide", "receipt"},
               NEW tk \in {loc[t].token, Token(loc[t].rule)},
               GoesOn(t, s, [loc[t] EXCEPT !.token = tk]),
               s = "decide" => pc[t] = "fresh", s = "receipt" => pc[t] = "decide",
               s # "decide" => loc' = loc
        PROVE  TypeOK' /\ InRequest'
    <3>1. s \in {"decide", "receipt"} => loc[t].rule \in RuleIds
      BY <2>7 DEF InRequest
    <3>2. CASE s = "decide"
      <4> DEFINE l == [loc[t] EXCEPT !.token = tk]
      <4>1. l \in Known /\ l.rule = loc[t].rule
        BY <1>0, <2>4, <2>7, <3>1, <3>2 DEF Known
      <4>2. loc' = [loc EXCEPT ![t] = l] /\ pc' = [pc EXCEPT ![t] = s] /\ inForce' = inForce
            /\ s \in CallSteps
        BY <2>7 DEF GoesOn, CallSteps
      <4> HIDE DEF l
      <4> QED BY <2>3, <2>4, <3>1, <3>2, <4>1, <4>2
    <3>3. CASE s # "decide"
      <4>1. loc' = [loc EXCEPT ![t] = loc[t]] /\ pc' = [pc EXCEPT ![t] = s] /\ inForce' = inForce
            /\ s \in CallSteps
        BY <2>7, <3>3 DEF TypeOK, GoesOn, CallSteps
      <4> QED BY <2>3, <2>4, <2>7, <3>1, <4>1
    <3> QED BY <3>2, <3>3
  <2>8. ASSUME FirstMatch(rules, loc[t].src) # None,
               GoesOn(t, "token", [loc[t] EXCEPT !.rule = FirstMatch(rules, loc[t].src)])
        PROVE  TypeOK' /\ InRequest'
    <3> DEFINE r == FirstMatch(rules, loc[t].src)
    <3>1. r \in RuleIds
      BY <1>0, <2>8 DEF TypeOK
    <3> DEFINE l == [loc[t] EXCEPT !.rule = r]
    <3>2. l \in Known /\ l.rule = r
      BY <2>4, <3>1 DEF Known
    <3>3. loc' = [loc EXCEPT ![t] = l] /\ pc' = [pc EXCEPT ![t] = "token"] /\ inForce' = inForce
          /\ "token" \in CallSteps
      BY <2>8 DEF GoesOn, CallSteps
    <3> HIDE DEF l, r
    <3> QED BY <2>3, <2>4, <3>1, <3>2, <3>3
  <2>9. ASSUME pc[t] = "token", GoesOn(t, "fresh", [loc[t] EXCEPT !.token = token])
        PROVE  TypeOK' /\ InRequest'
    <3> DEFINE l == [loc[t] EXCEPT !.token = token]
    <3>1. l \in Known /\ l.rule \in RuleIds
      BY <2>4, <2>9 DEF TypeOK, InRequest, Known
    <3>2. loc' = [loc EXCEPT ![t] = l] /\ pc' = [pc EXCEPT ![t] = "fresh"] /\ inForce' = inForce
          /\ "fresh" \in CallSteps
      BY <2>9 DEF GoesOn, CallSteps
    <3> HIDE DEF l
    <3> QED BY <2>3, <2>4, <3>1, <3>2
  <2>10. CASE Begun(t)
    BY <2>6, <2>10 DEF Begun
  <2>11. CASE Passed(t)
    BY <2>7, <2>11 DEF Passed
  <2>12. CASE Matched(t) \/ Took(t)
    BY <2>8, <2>9, <2>12 DEF Matched, Took
  <2> QED BY <1>1, <2>5, <2>10, <2>11, <2>12, CallStepIs DEF Answered
<1>2. ASSUME NEW o \in Operators, OperatorStep(o) PROVE TypeOK' /\ InRequest'
  <2>1. /\ o \in Threads /\ o \notin Callers
        /\ UNCHANGED <<held, loc>>
    BY <1>2, OperatorStepIs, GateAssumption DEF Threads
  <2>2. ASSUME NEW s \in OperatorSteps, NEW h \in [policy : Policies \cup {None}, n : Nat],
               pc' = [pc EXCEPT ![o] = s], op' = [op EXCEPT ![o] = h],
               s \in {"clear", "fill", "seal", "persist"} => h.policy \in Policies,
               file' \in Policies, seal' \in Policies \cup {None}, sealed' \subseteq Policies,
               rules' \in Seq(RuleIds), token' \in Tokens, loaded' \subseteq Policies,
               inForce' \in [Callers -> SUBSET Policies]
        PROVE  TypeOK' /\ InRequest'
    BY <1>u, <2>1, <2>2 DEF TypeOK, InRequest, Threads
  <2>3. op = [op EXCEPT ![o] = op[o]] /\ pc = [pc EXCEPT ![o] = pc[o]]
        /\ op[o] \in [policy : Policies \cup {None}, n : Nat]
    BY <2>1 DEF TypeOK
  <2>4. CASE (\E p \in Policies : Save(o, p)) \/ Reload(o)
    BY <2>2, <2>3, <2>4 DEF Save, Reload, Goto, Callers_Unchanged, TypeOK, OperatorSteps
  <2>5. CASE ReadFile(o)
    <3>1. /\ [policy |-> file, n |-> 0] \in [policy : Policies \cup {None}, n : Nat]
          /\ [policy |-> file, n |-> 0].policy \in Policies
      BY DEF TypeOK
    <3> QED BY <2>2, <2>5, <3>1 DEF ReadFile, Goto, Callers_Unchanged, TypeOK, OperatorSteps
  <2>6. CASE ClearIndex(o)
    BY <2>2, <2>3, <2>6 DEF ClearIndex, Goto, Callers_Unchanged, TypeOK, OperatorSteps, InRequest,
                            Tokens
  <2>7. CASE FillRule(o)
    <3>1. op[o].policy \in Policies /\ Head(Pending(o)) \in RuleIds
      BY <2>7, PendingIs DEF FillRule, InRequest
    <3> DEFINE h == [op[o] EXCEPT !.n = op[o].n + 1]
    <3>2. h \in [policy : Policies \cup {None}, n : Nat] /\ h.policy \in Policies
      BY <2>3, <3>1
    <3>3. op' = [op EXCEPT ![o] = h] /\ pc' = [pc EXCEPT ![o] = "fill"]
      BY <2>3, <2>7 DEF FillRule, TypeOK
    <3> HIDE DEF h
    <3>4. rules' \in Seq(RuleIds) /\ loaded' \subseteq Policies
          /\ inForce' \in [Callers -> SUBSET Policies]
      BY <2>7, <3>1 DEF FillRule, TypeOK
    <3> QED BY <2>2, <2>7, <3>2, <3>3, <3>4 DEF FillRule, TypeOK, OperatorSteps
  <2>8. CASE MintToken(o)
    <3>1. op[o].policy \in Policies
      BY <2>8 DEF MintToken, InRequest
    <3> QED BY <1>0, <2>2, <2>8, <3>1 DEF MintToken, Goto, Callers_Unchanged, TypeOK, OperatorSteps
  <2>9. CASE SealDigest(o)
    <3>1. /\ [policy |-> file, n |-> 0] \in [policy : Policies \cup {None}, n : Nat]
          /\ [policy |-> file, n |-> 0].policy \in Policies
      BY DEF TypeOK
    <3> QED BY <2>2, <2>9, <3>1 DEF SealDigest, Goto, Callers_Unchanged, TypeOK, OperatorSteps
  <2>10. CASE SealReceipt(o)
    BY <2>2, <2>3, <2>10 DEF SealReceipt, Goto, Callers_Unchanged, TypeOK, OperatorSteps, InRequest
  <2>11. CASE SealRefused(o) \/ SealPersist(o)
    BY <1>0, <2>2, <2>11 DEF SealRefused, SealPersist, Goto, Callers_Unchanged, TypeOK,
                            OperatorSteps, InRequest
  <2> QED BY <1>2, <2>4, <2>5, <2>6, <2>7, <2>8, <2>9, <2>10, <2>11 DEF OperatorStep
<1>3. CASE \/ UNCHANGED vars \/ Hold
           \/ \E p \in Policies : Edit(p)
  BY <1>3, <1>u DEF vars, Edit, Hold, Callers_Unchanged, TypeOK, InRequest
<1>4. CASE Release
  <2>1. /\ loc' \in [Callers -> Known]
        /\ \A t \in Callers : loc'[t].rule = loc[t].rule
    BY <1>4 DEF Release, TypeOK
  <2> QED BY <1>4, <1>u, <2>1 DEF Release, TypeOK, InRequest
<1>5. CASE Expire
  <2>1. ASSUME NEW tk \in Tokens
        PROVE  (IF tk = None THEN None ELSE [tk EXCEPT !.live = FALSE]) \in Tokens
    BY <2>1 DEF Tokens
  <2>2. \A t \in Callers : loc[t] \in Known
    BY DEF TypeOK
  <2>3. /\ loc' \in [Callers -> Known]
        /\ \A t \in Callers : loc'[t].rule = loc[t].rule
    BY <1>5, <2>1, <2>2 DEF Expire, TypeOK
  <2>4. token' \in Tokens
    BY <1>5, <2>1 DEF Expire, TypeOK
  <2> QED BY <1>5, <1>u, <2>3, <2>4 DEF Expire, TypeOK, InRequest
<1>6. CASE Restart
  BY <1>0, <1>6, <1>u DEF Restart, TypeOK, InRequest, CallSteps, OperatorSteps, Threads
<1> QED BY <1>1, <1>2, <1>3, <1>4, <1>5, <1>6 DEF Next

LEMMA TypeAlways == Spec => [](TypeOK /\ InRequest)
<1>1. Init => InRequest
  BY DEF Init, InRequest, Threads
<1> QED BY <1>1, TypeInit, TypeNext, PTL DEF Spec

(* What the gate and its threads hold always has its type (check_tool_call,
   reload_policies, seal). *)
THEOREM TypeCorrect == Spec => []TypeOK
  BY TypeAlways, PTL

----------------------------------------------------------------------------
(* Containment.  A call that began under a hold which is still on has not gone
   past its first check. *)

HeldInv ==
    /\ \A t \in Callers : /\ loc[t].held => held
                          /\ pc[t] \notin {"idle", "contain"} => ~loc[t].held
    /\ HeldIsDenied

LEMMA HeldNext == TypeOK /\ HeldInv /\ [Next]_vars => HeldInv'
<1> SUFFICES ASSUME TypeOK, HeldInv, [Next]_vars PROVE HeldInv'
  OBVIOUS
<1>0. NoCall.held = FALSE
  BY DEF NoCall
<1>1. ASSUME NEW t \in Callers, CallStep(t) PROVE HeldInv'
  <2>1. held' = held /\ t \in Threads
    BY <1>1, CallStepIs DEF Threads
  <2>2. ASSUME NEW l, NEW s, loc' = [loc EXCEPT ![t] = l], pc' = [pc EXCEPT ![t] = s],
               l.held => held, s \notin {"idle", "contain"} => ~l.held, HeldIsDenied'
        PROVE  HeldInv'
    BY <2>1, <2>2 DEF HeldInv, TypeOK
  <2>3. HeldIsDenied /\ loc[t] = [loc[t] EXCEPT !.held = loc[t].held]
    BY DEF HeldInv, TypeOK
  <2>4. CASE Ends(t) /\ answers' = answers
    BY <1>0, <2>2, <2>3, <2>4 DEF Ends, HeldIsDenied
  <2>5. CASE Answered(t)
    <3>1. ~loc[t].held
      BY <2>5 DEF Answered, HeldInv
    <3>2. HeldIsDenied'
      BY <2>3, <2>5, <3>1 DEF Answered, HeldIsDenied
    <3> QED BY <1>0, <2>2, <2>5, <3>2 DEF Answered, Ends
  <2>6. CASE Begun(t)
    <3>1. PICK src \in Sources, arg \in Args :
            loc' = [loc EXCEPT ![t] = [NoCall EXCEPT !.src = src, !.arg = arg, !.held = held]]
      BY <2>6 DEF Begun
    <3> DEFINE l == [NoCall EXCEPT !.src = src, !.arg = arg, !.held = held]
    <3>2. l.held = held
      BY DEF NoCall
    <3>3. loc' = [loc EXCEPT ![t] = l] /\ pc' = [pc EXCEPT ![t] = "contain"] /\ HeldIsDenied'
      BY <2>3, <2>6, <3>1 DEF Begun, HeldIsDenied
    <3> HIDE DEF l
    <3> QED BY <2>2, <3>2, <3>3
  <2>7. ASSUME NEW s, NEW l, GoesOn(t, s, l), l.held = loc[t].held,
               (s = "tamper" /\ ~held) \/ pc[t] \notin {"idle", "contain"}
        PROVE  HeldInv'
    BY <2>2, <2>3, <2>7 DEF GoesOn, HeldIsDenied, HeldInv
  <2>8. \A r, tk : /\ [loc[t] EXCEPT !.rule = r].held = loc[t].held
                   /\ [loc[t] EXCEPT !.token = tk].held = loc[t].held
    BY DEF TypeOK
  <2>9. CASE Passed(t)
    BY <2>7, <2>8, <2>9 DEF Passed
  <2>10. CASE Matched(t) \/ Took(t)
    BY <2>7, <2>8, <2>10 DEF Matched, Took
  <2> QED BY <1>1, <2>4, <2>5, <2>6, <2>9, <2>10, CallStepIs
<1>2. ASSUME NEW o \in Operators, OperatorStep(o) PROVE HeldInv'
  <2>1. /\ o \notin Callers /\ UNCHANGED <<held, loc, answers>>
        /\ \E s : pc' = [pc EXCEPT ![o] = s]
    BY <1>2, OperatorStepIs, GateAssumption
  <2>2. \A t \in Callers : pc'[t] = pc[t]
    BY <2>1 DEF TypeOK, Threads
  <2> QED BY <2>1, <2>2 DEF HeldInv, HeldIsDenied
<1>3. CASE UNCHANGED vars \/ \E p \in Policies : Edit(p)
  BY <1>3 DEF vars, Edit, Callers_Unchanged, HeldInv, HeldIsDenied
<1>4. CASE Hold
  BY <1>4 DEF Hold, HeldInv, HeldIsDenied
<1>5. CASE Release
  <2>1. \A t \in Callers : loc'[t].held = FALSE
    BY <1>5 DEF Release, TypeOK
  <2> QED BY <1>5, <2>1 DEF Release, HeldInv, HeldIsDenied
<1>6. CASE Expire
  <2>1. \A t \in Callers : loc'[t].held = loc[t].held
    BY <1>6 DEF Expire, TypeOK
  <2> QED BY <1>6, <2>1 DEF Expire, HeldInv, HeldIsDenied
<1>7. CASE Restart
  <2>1. \A t \in Callers : loc'[t].held = FALSE /\ pc'[t] = "idle"
    BY <1>0, <1>7 DEF Restart, Threads
  <2> QED BY <1>7, <2>1 DEF Restart, HeldInv, HeldIsDenied
<1> QED BY <1>1, <1>2, <1>3, <1>4, <1>5, <1>6, <1>7 DEF Next

(* No call that begins under a quarantine or suspension still on when it ends is
   allowed, however many calls run (_trace_quarantine_refusal,
   _lease_suspension_refusal: consulted before anything else). *)
THEOREM HeldCallsAreDenied == Spec => []HeldIsDenied
<1>1. Init => HeldInv
  BY DEF Init, HeldInv, HeldIsDenied, NoCall, Threads
<1>2. HeldInv => HeldIsDenied
  BY DEF HeldInv
<1> QED BY <1>1, <1>2, TypeAlways, HeldNext, PTL DEF Spec

----------------------------------------------------------------------------
(* The seal.  What an operator thread is about to persist has its receipt. *)

SealInv ==
    /\ \A o \in Operators : pc[o] = "persist" => op[o].policy \in sealed
    /\ SealIsReceipted

LEMMA SealNext == TypeOK /\ SealInv /\ [Next]_vars => SealInv'
<1> SUFFICES ASSUME TypeOK, SealInv, [Next]_vars PROVE SealInv'
  OBVIOUS
<1>1. ASSUME NEW t \in Callers, CallStep(t) PROVE SealInv'
  <2>1. /\ UNCHANGED <<seal, sealed, op>> /\ t \notin Operators
        /\ \E s : pc' = [pc EXCEPT ![t] = s]
    BY <1>1, CallStepIs, GateAssumption DEF Ends, GoesOn, Answered, Begun, Passed, Matched, Took
  <2>2. \A o \in Operators : pc'[o] = pc[o]
    BY <2>1 DEF TypeOK, Threads
  <2> QED BY <2>1, <2>2 DEF SealInv, SealIsReceipted
<1>2. ASSUME NEW o \in Operators, OperatorStep(o) PROVE SealInv'
  <2>1. \A q \in Operators : q # o => pc'[q] = pc[q] /\ op'[q] = op[q]
    <3>1. (\E s : pc' = [pc EXCEPT ![o] = s]) /\ (\E h : op' = [op EXCEPT ![o] = h])
      BY <1>2, OperatorStepIs
    <3> QED BY <3>1 DEF TypeOK, Threads
  <2>2. o \in Threads
    BY DEF Threads
  <2>3. CASE SealReceipt(o)
    BY <2>1, <2>2, <2>3 DEF SealReceipt, Goto, SealInv, SealIsReceipted, TypeOK
  <2>4. CASE SealPersist(o)
    BY <2>1, <2>2, <2>4 DEF SealPersist, Goto, SealInv, SealIsReceipted, TypeOK
  <2>5. CASE ~SealReceipt(o) /\ ~SealPersist(o)
    <3>1. UNCHANGED <<seal, sealed>> /\ pc'[o] # "persist"
      BY <1>2, <2>2, <2>5 DEF OperatorStep, Save, Reload, ReadFile, ClearIndex, FillRule,
           MintToken, SealDigest, SealRefused, Goto, TypeOK
    <3> QED BY <2>1, <3>1 DEF SealInv, SealIsReceipted
  <2> QED BY <2>3, <2>4, <2>5
<1>3. CASE \/ UNCHANGED vars \/ Hold \/ Release \/ Expire
           \/ \E p \in Policies : Edit(p)
  BY <1>3 DEF vars, Edit, Hold, Release, Expire, SealInv, SealIsReceipted
<1>4. CASE Restart
  BY <1>4 DEF Restart, SealInv, SealIsReceipted, Threads
<1> QED BY <1>1, <1>2, <1>3, <1>4 DEF Next

(* The seal never pins a policy without a receipt, whoever edits the file while
   it is sealed (PolicyBytesVerifier.seal). *)
THEOREM SealsAreReceipted == Spec => []SealIsReceipted
<1>1. Init => SealInv
  BY DEF Init, SealInv, SealIsReceipted, Threads
<1>2. SealInv => SealIsReceipted
  BY DEF SealInv
<1> QED BY <1>1, <1>2, TypeAlways, SealNext, PTL DEF Spec

----------------------------------------------------------------------------
(* The rule that is cited. *)

(* With one operator at a time the index holds the first rules of one policy, and a
   call keeps every policy whose rules it may have read. *)
Leads(rs, p) ==
    /\ Len(rs) <= Len(RulesOf[p])
    /\ \A i \in 1 .. Len(rs) : rs[i] = RulesOf[p][i]

Filling ==
    \A o \in Operators :
        /\ pc[o] = "clear" => op[o].n = 0
        /\ pc[o] = "fill" =>
              /\ Len(rules) = op[o].n
              /\ Leads(rules, op[o].policy)
              /\ op[o].n > 0 => op[o].policy \in loaded

Following ==
    \A t \in Callers :
        /\ ~Idle(t) => loaded \subseteq inForce[t]
        /\ pc[t] \in {"token", "fresh", "decide", "receipt"} =>
              \E p \in inForce[t] : FirstMatch(RulesOf[p], loc[t].src) = loc[t].rule

ForceInv ==
    /\ Filling
    /\ rules # <<>> => \E p \in loaded : Leads(rules, p)
    /\ Following
    /\ FirstMatchInForce

LEMMA ForceInit == Init => ForceInv
<1> SUFFICES ASSUME Init PROVE ForceInv
  OBVIOUS
<1>1. Leads(rules, First) /\ First \in loaded
  BY DEF Init, Leads
<1>2. (\A t \in Threads : pc[t] = "idle") /\ answers = {}
  BY DEF Init
<1> QED BY <1>1, <1>2 DEF ForceInv, Filling, Following, FirstMatchInForce, Idle, Threads

(* A rule found in the index is the one found in a policy it comes from. *)
LEMMA FoundInForce ==
  ASSUME TypeOK, rules # <<>> => \E p \in loaded : Leads(rules, p),
         NEW src, FirstMatch(rules, src) # None
  PROVE  \E p \in loaded : FirstMatch(RulesOf[p], src) = FirstMatch(rules, src)
<1>1. rules \in Seq(RuleIds) /\ loaded \subseteq Policies
  BY DEF TypeOK
<1>2. rules # <<>>
  BY <1>1, FirstMatchIs
<1>3. PICK p \in loaded : Leads(rules, p)
  BY <1>2
<1>4. RulesOf[p] \in Seq(RuleIds)
  BY <1>1, GateAssumption
<1> QED BY <1>1, <1>3, <1>4, FirstMatchOfPrefix DEF Leads

LEMMA ForceCall ==
  ASSUME TypeOK, ForceInv, NEW t \in Callers, CallStep(t)
  PROVE  ForceInv'
<1>0. t \in Threads /\ t \notin Operators /\ UNCHANGED <<rules, op, loaded>>
  BY CallStepIs, GateAssumption DEF Threads
<1>1. \E s : pc' = [pc EXCEPT ![t] = s]
  BY CallStepIs DEF Ends, GoesOn, Answered, Begun, Passed, Matched, Took
<1>2. \A o \in Operators : pc'[o] = pc[o]
  BY <1>0, <1>1 DEF TypeOK, Threads
<1>3. Filling' /\ (rules' # <<>> => \E p \in loaded' : Leads(rules', p))
  BY <1>0, <1>2 DEF ForceInv, Filling, Leads
<1>4. ASSUME NEW l, NEW s, NEW f,
             loc' = [loc EXCEPT ![t] = l], pc' = [pc EXCEPT ![t] = s],
             inForce' = [inForce EXCEPT ![t] = f],
             s # "idle" => loaded \subseteq f,
             s \in {"token", "fresh", "decide", "receipt"} =>
               \E p \in f : FirstMatch(RulesOf[p], l.src) = l.rule
      PROVE  Following'
  <2>1. ASSUME NEW c \in Callers, c # t
        PROVE  c \in Threads /\ pc'[c] = pc[c] /\ loc'[c] = loc[c] /\ inForce'[c] = inForce[c]
    BY <1>4, <2>1 DEF TypeOK, Threads
  <2>2. pc'[t] = s /\ loc'[t] = l /\ inForce'[t] = f
    BY <1>0, <1>4 DEF TypeOK
  <2> QED BY <1>0, <1>4, <2>1, <2>2 DEF ForceInv, Following, Idle
<1>5. inForce = [inForce EXCEPT ![t] = inForce[t]]
  BY DEF TypeOK
<1>6. Following'
  <2>1. CASE Ends(t)
    BY <1>4, <2>1 DEF Ends
  <2>2. CASE Begun(t)
    <3>1. PICK l : loc' = [loc EXCEPT ![t] = l]
      BY <2>2 DEF Begun
    <3> QED BY <1>4, <2>2, <3>1 DEF Begun
  <2>3. CASE Passed(t)
    <3>1. PICK s \in {"tamper", "lookup", "match", "decide", "receipt"} :
          \E tk \in {loc[t].token, Token(loc[t].rule)} :
             /\ GoesOn(t, s, [loc[t] EXCEPT !.token = tk])
             /\ s \in {"decide", "receipt"} => pc[t] \in {"fresh", "decide"}
             /\ pc[t] # "idle"
      BY <2>3 DEF Passed
    <3>1a. PICK tk \in {loc[t].token, Token(loc[t].rule)} :
             GoesOn(t, s, [loc[t] EXCEPT !.token = tk])
      BY <3>1
    <3> DEFINE l == [loc[t] EXCEPT !.token = tk]
    <3>2. l.src = loc[t].src /\ l.rule = loc[t].rule
      BY DEF TypeOK
    <3>3. loc' = [loc EXCEPT ![t] = l] /\ pc' = [pc EXCEPT ![t] = s] /\ inForce' = inForce
      BY <3>1a DEF GoesOn
    <3> HIDE DEF l
    <3>4. /\ loaded \subseteq inForce[t]
          /\ s \in {"decide", "receipt"} =>
               \E p \in inForce[t] : FirstMatch(RulesOf[p], l.src) = l.rule
      BY <3>1, <3>2 DEF ForceInv, Following, Idle
    <3> QED BY <1>4, <1>5, <3>3, <3>4
  <2>4. CASE Matched(t)
    <3> DEFINE l == [loc[t] EXCEPT !.rule = FirstMatch(rules, loc[t].src)]
    <3>1. l.src = loc[t].src /\ l.rule = FirstMatch(rules, loc[t].src)
      BY DEF TypeOK
    <3>2. loc' = [loc EXCEPT ![t] = l] /\ pc' = [pc EXCEPT ![t] = "token"] /\ inForce' = inForce
      BY <2>4 DEF Matched, GoesOn
    <3> HIDE DEF l
    <3>3. \E p \in loaded : FirstMatch(RulesOf[p], l.src) = l.rule
      BY <2>4, <3>1, FoundInForce DEF Matched, ForceInv
    <3>4. loaded \subseteq inForce[t]
      BY <2>4 DEF Matched, ForceInv, Following, Idle
    <3> QED BY <1>4, <1>5, <3>2, <3>3, <3>4
  <2>5. CASE Took(t)
    <3> DEFINE l == [loc[t] EXCEPT !.token = token]
    <3>1. l.src = loc[t].src /\ l.rule = loc[t].rule
      BY DEF TypeOK
    <3>2. loc' = [loc EXCEPT ![t] = l] /\ pc' = [pc EXCEPT ![t] = "fresh"] /\ inForce' = inForce
      BY <2>5 DEF Took, GoesOn
    <3> HIDE DEF l
    <3>3. /\ loaded \subseteq inForce[t]
          /\ \E p \in inForce[t] : FirstMatch(RulesOf[p], l.src) = l.rule
      BY <2>5, <3>1 DEF Took, ForceInv, Following, Idle
    <3> QED BY <1>4, <1>5, <3>2, <3>3
  <2> QED BY <2>1, <2>2, <2>3, <2>4, <2>5, CallStepIs DEF Answered
<1>7. FirstMatchInForce'
  <2>1. CASE answers' = answers
    BY <2>1 DEF ForceInv, FirstMatchInForce
  <2>2. CASE Answered(t)
    <3>1. \E p \in inForce[t] : FirstMatch(RulesOf[p], loc[t].src) = loc[t].rule
      BY <2>2 DEF Answered, ForceInv, Following
    <3> QED BY <2>2, <3>1 DEF Answered, ForceInv, FirstMatchInForce
  <2> QED BY <2>1, <2>2, CallStepIs DEF Begun, Passed, Matched, Took, GoesOn
<1> QED BY <1>3, <1>6, <1>7 DEF ForceInv

LEMMA ForceOperator ==
  ASSUME TypeOK, InRequest, ForceInv, NEW o \in Operators, OperatorStep(o),
         \A q \in Operators : q = o
  PROVE  ForceInv'
<1>0. o \in Threads /\ o \notin Callers /\ UNCHANGED <<held, loc, answers>>
  BY OperatorStepIs, GateAssumption DEF Threads
<1>1. \E s : pc' = [pc EXCEPT ![o] = s]
  BY OperatorStepIs
<1>2. \A t \in Callers : t \in Threads /\ pc'[t] = pc[t]
  BY <1>0, <1>1 DEF TypeOK, Threads
<1>3. FirstMatchInForce'
  BY <1>0 DEF ForceInv, FirstMatchInForce
<1>4. CASE UNCHANGED <<rules, loaded, inForce>> /\ pc'[o] # "fill"
           /\ (pc'[o] = "clear" => op'[o].n = 0)
  <2>1. Filling'
    BY <1>4 DEF Filling
  <2>2. Following'
    BY <1>0, <1>2, <1>4 DEF ForceInv, Following, Idle
  <2> QED BY <1>3, <1>4, <2>1, <2>2 DEF ForceInv, Leads
<1>5. CASE ClearIndex(o)
  <2>1. rules' = <<>> /\ loaded' = {} /\ inForce' = inForce /\ op' = op /\ pc'[o] = "fill"
    BY <1>0, <1>5 DEF ClearIndex, Goto, Callers_Unchanged, TypeOK
  <2>2. op[o].n = 0 /\ RulesOf[op[o].policy] \in Seq(RuleIds)
    BY <1>5, GateAssumption DEF ClearIndex, ForceInv, Filling, InRequest
  <2>3. Filling'
    BY <2>1, <2>2 DEF Filling, Leads
  <2>4. Following'
    BY <1>0, <1>2, <2>1 DEF ForceInv, Following, Idle
  <2> QED BY <1>3, <2>1, <2>3, <2>4 DEF ForceInv
<1>6. CASE FillRule(o)
  <2> DEFINE rs == RulesOf[op[o].policy]
             n == op[o].n
  <2>1. /\ op[o].policy \in Policies /\ n \in Nat /\ rs \in Seq(RuleIds)
        /\ n < Len(rs) /\ Head(Pending(o)) = rs[n + 1] /\ rs[n + 1] \in RuleIds
    BY <1>6, PendingIs DEF FillRule, InRequest
  <2>2. rules \in Seq(RuleIds) /\ Len(rules) = n /\ \A i \in 1 .. n : rules[i] = rs[i]
    BY <1>6 DEF FillRule, ForceInv, Filling, Leads, TypeOK
  <2>3. /\ rules' = Append(rules, rs[n + 1])
        /\ loaded' = loaded \cup {op[o].policy}
        /\ inForce' = [t \in Callers |-> IF Idle(t) THEN {} ELSE inForce[t] \cup {op[o].policy}]
    BY <1>6, <2>1 DEF FillRule
  <2>4. op'[o].n = n + 1 /\ op'[o].policy = op[o].policy
    BY <1>6 DEF FillRule, TypeOK
  <2> HIDE DEF rs, n
  <2>5. Len(rules') = n + 1 /\ Len(rs) \in Nat /\ \A i \in 1 .. n + 1 : rules'[i] = rs[i]
    BY <2>1, <2>2, <2>3
  <2>6. Leads(rules', op[o].policy)
    BY <2>1, <2>5 DEF Leads, rs
  <2>7. Filling'
    <3>1. pc'[o] = "fill"
      BY <1>6 DEF FillRule
    <3>2. op'[o].policy \in loaded'
      BY <2>3, <2>4
    <3> QED BY <2>4, <2>5, <2>6, <3>1, <3>2 DEF Filling
  <2>8. Following'
    BY <1>0, <1>2, <2>3 DEF ForceInv, Following, Idle
  <2> QED BY <1>3, <2>3, <2>6, <2>7, <2>8 DEF ForceInv
<1>7. CASE MintToken(o)
  <2>1. pc'[o] = "idle" /\ UNCHANGED <<rules, loaded, inForce>>
    BY <1>0, <1>7 DEF MintToken, Goto, Callers_Unchanged, TypeOK
  <2> QED BY <1>4, <2>1
<1>8. CASE ReadFile(o)
  <2>1. pc'[o] = "clear" /\ op'[o].n = 0 /\ UNCHANGED <<rules, loaded, inForce>>
    BY <1>0, <1>8 DEF ReadFile, Goto, Callers_Unchanged, TypeOK
  <2> QED BY <1>4, <2>1
<1>9. CASE \/ (\E p \in Policies : Save(o, p)) \/ Reload(o)
           \/ SealDigest(o) \/ SealReceipt(o) \/ SealRefused(o) \/ SealPersist(o)
  <2>1. pc'[o] \notin {"clear", "fill"} /\ UNCHANGED <<rules, loaded, inForce>>
    BY <1>0, <1>9 DEF Save, Reload, SealDigest, SealReceipt, SealRefused, SealPersist, Goto,
                      Callers_Unchanged, TypeOK
  <2> QED BY <1>4, <2>1
<1> QED BY <1>5, <1>6, <1>7, <1>8, <1>9 DEF OperatorStep

LEMMA ForceNext ==
  ASSUME \A o, q \in Operators : o = q
  PROVE  TypeOK /\ InRequest /\ ForceInv /\ [Next]_vars => ForceInv'
<1> SUFFICES ASSUME TypeOK, InRequest, ForceInv, [Next]_vars PROVE ForceInv'
  OBVIOUS
<1>1. CASE \E t \in Callers : CallStep(t)
  BY <1>1, ForceCall
<1>2. CASE \E o \in Operators : OperatorStep(o)
  BY <1>2, ForceOperator
<1>3. CASE UNCHANGED vars \/ Hold \/ \E p \in Policies : Edit(p)
  BY <1>3 DEF vars, Edit, Hold, Callers_Unchanged, ForceInv, Filling, Following, FirstMatchInForce,
              Idle, Leads
<1>4. ASSUME UNCHANGED <<rules, pc, op, loaded, inForce, answers>>,
             \A t \in Callers : loc'[t].src = loc[t].src /\ loc'[t].rule = loc[t].rule
      PROVE  ForceInv'
  BY <1>4 DEF ForceInv, Filling, Following, FirstMatchInForce, Idle, Leads
<1>5. CASE Release
  <2>1. \A t \in Callers : loc'[t].src = loc[t].src /\ loc'[t].rule = loc[t].rule
    BY <1>5 DEF Release, TypeOK
  <2> QED BY <1>4, <1>5, <2>1 DEF Release
<1>6. CASE Expire
  <2>1. \A t \in Callers : loc'[t].src = loc[t].src /\ loc'[t].rule = loc[t].rule
    BY <1>6 DEF Expire, TypeOK
  <2> QED BY <1>4, <1>6, <2>1 DEF Expire
<1>7. CASE Restart
  <2>1. /\ \A t \in Threads : pc'[t] = "idle"
        /\ rules' = RulesOf[file] /\ loaded' = {file} /\ answers' = answers
    BY <1>7 DEF Restart
  <2>2. Leads(rules', file)
    BY <2>1, GateAssumption DEF Leads, TypeOK
  <2> QED BY <2>1, <2>2 DEF ForceInv, Filling, Following, FirstMatchInForce, Idle, Threads
<1> QED BY <1>1, <1>2, <1>3, <1>5, <1>6, <1>7 DEF Next

(* With one operator at a time the gate holds: the rule an allowed call cites is
   the first match in a policy in force during the call, whatever reload
   overlaps it, besides what holds for any number of operators.  Two overlapping
   reloads break it (_index_rules, _find_rule). *)
THEOREM GateIsSound ==
  ASSUME \A o, q \in Operators : o = q
  PROVE  Spec => []GateHolds
<1>1. ForceInv => FirstMatchInForce
  BY DEF ForceInv
<1>2. FirstMatchInForce /\ HeldIsDenied /\ SealIsReceipted => GateHolds
  BY DEF GateHolds
<1> QED BY <1>1, <1>2, TypeAlways, ForceInit, ForceNext, HeldCallsAreDenied, SealsAreReceipted,
           PTL DEF Spec

----------------------------------------------------------------------------
(* One request at a time. *)

Alone == \A t, u \in Threads : ~Idle(t) /\ ~Idle(u) => t = u

Reloading ==
    \A o \in Operators :
        /\ pc[o] = "clear" => op[o].n = 0
        /\ pc[o] = "fill" =>
              /\ token = None
              /\ Len(rules) = op[o].n
              /\ Leads(rules, op[o].policy)
              /\ op[o].n > 0 => op[o].policy \in loaded

Whole ==
    (\A o \in Operators : pc[o] # "fill") =>
        \E p \in Policies :
            /\ rules = RulesOf[p]
            /\ IF rules = <<>> THEN token = None
               ELSE p \in loaded /\ token # None /\ token.rule \in Range(rules)

Checked ==
    \A t \in Callers :
        /\ ~Idle(t) => loaded \subseteq inForce[t]
        /\ pc[t] \in {"token", "fresh", "decide", "receipt"} => loc[t].rule \in Range(rules)
        /\ pc[t] \in {"fresh", "decide", "receipt"} =>
              loc[t].token # None /\ loc[t].token.rule \in Range(rules)

Serial == Alone /\ Reloading /\ Whole /\ Checked /\ CheckedInForce

(* Until the first overlap. *)
SerialInv == used.overlaps = 0 => Serial

LEMMA TokenIs ==
  ASSUME NEW r \in RuleIds
  PROVE  Token(r) # None /\ Token(r).rule = r
<1>1. Token(r) \in [rule : RuleIds, live : BOOLEAN]
  BY DEF Token
<1> QED BY <1>1, GateAssumption DEF Token

LEMMA SerialInit == Init => SerialInv
<1> SUFFICES ASSUME Init PROVE Serial
  BY DEF SerialInv
<1>1. /\ \A t \in Threads : Idle(t) /\ pc[t] = "idle"
      /\ answers = {} /\ rules = RulesOf[First] /\ First \in Policies /\ First \in loaded
      /\ token = TokenOf(rules) /\ rules \in Seq(RuleIds)
  BY GateAssumption DEF Init, Idle
<1>2. rules # <<>> => rules[1] \in RuleIds /\ rules[1] \in Range(rules)
  BY <1>1 DEF Range
<1>3. rules # <<>> => token # None /\ token.rule \in Range(rules)
  BY <1>1, <1>2, TokenIs DEF TokenOf
<1>4. Whole
  BY <1>1, <1>3 DEF Whole, TokenOf
<1> QED BY <1>1, <1>4 DEF Serial, Alone, Reloading, Checked, CheckedInForce, Threads

LEMMA SerialCall ==
  ASSUME TypeOK, InRequest, Serial, used'.overlaps = 0, NEW t \in Callers, CallStep(t)
  PROVE  Serial'
<1>0. /\ t \in Threads /\ t \notin Operators /\ UNCHANGED <<rules, op, loaded>>
      /\ rules \in Seq(RuleIds)
  BY CallStepIs, GateAssumption DEF Threads, TypeOK
<1>1. \E s : pc' = [pc EXCEPT ![t] = s]
  BY CallStepIs DEF Ends, GoesOn, Answered, Begun, Passed, Matched, Took
<1>2. \A u \in Threads : u # t => pc'[u] = pc[u] /\ pc[u] = "idle"
  <2>1. pc[t] = "idle" => \A u \in Threads : pc[u] = "idle"
    BY CallCounts DEF TypeOK, Counts, Idle
  <2>2. \A u \in Threads : u # t => pc[u] = "idle"
    BY <1>0, <2>1 DEF Serial, Alone, Idle
  <2> QED BY <1>1, <2>2 DEF TypeOK
<1>3. Alone'
  BY <1>2 DEF Alone, Idle, Threads
<1>4. \A o \in Operators : pc[o] = "idle" /\ pc'[o] = "idle"
  BY <1>0, <1>2 DEF Threads
<1>5. Reloading'
  BY <1>4 DEF Reloading
<1>6. PICK p \in Policies :
        /\ rules = RulesOf[p]
        /\ IF rules = <<>> THEN token = None
           ELSE p \in loaded /\ token # None /\ token.rule \in Range(rules)
  BY <1>4 DEF Serial, Whole
<1>7. pc[t] \in {"token", "fresh", "decide", "receipt"} =>
         /\ loc[t].rule \in Range(rules) /\ rules # <<>>
         /\ Token(loc[t].rule) # None /\ Token(loc[t].rule).rule = loc[t].rule
  <2>1. \A r \in Range(rules) : rules # <<>>
    BY <1>0 DEF Range
  <2> QED BY <2>1, TokenIs DEF Serial, Checked, InRequest
<1>8. Whole'
  <2>1. IF rules = <<>> THEN token' = None ELSE token' # None /\ token'.rule \in Range(rules)
    BY <1>6, <1>7, CallStepIs
  <2> QED BY <1>0, <1>6, <2>1 DEF Whole
<1>9. ASSUME NEW l, NEW s, NEW f,
             loc' = [loc EXCEPT ![t] = l], pc' = [pc EXCEPT ![t] = s],
             inForce' = [inForce EXCEPT ![t] = f],
             s # "idle" => loaded \subseteq f,
             s \in {"token", "fresh", "decide", "receipt"} => l.rule \in Range(rules),
             s \in {"fresh", "decide", "receipt"} =>
               l.token # None /\ l.token.rule \in Range(rules)
      PROVE  Checked'
  <2>1. pc'[t] = s /\ loc'[t] = l /\ inForce'[t] = f
    BY <1>0, <1>9 DEF TypeOK
  <2> QED BY <1>0, <1>2, <1>9, <2>1 DEF Checked, Idle, Threads
<1>10. inForce = [inForce EXCEPT ![t] = inForce[t]]
       /\ (pc[t] # "idle" => loaded \subseteq inForce[t])
  BY DEF TypeOK, Serial, Checked, Idle
<1>11. Checked'
  <2>1. CASE Ends(t)
    BY <1>9, <2>1 DEF Ends
  <2>2. CASE Begun(t)
    <3>1. PICK l : loc' = [loc EXCEPT ![t] = l]
      BY <2>2 DEF Begun
    <3> QED BY <1>9, <2>2, <3>1 DEF Begun
  <2>3. CASE Passed(t)
    <3>1. PICK s \in {"tamper", "lookup", "match", "decide", "receipt"},
               tk \in {loc[t].token, Token(loc[t].rule)} :
             /\ GoesOn(t, s, [loc[t] EXCEPT !.token = tk])
             /\ s = "decide" => pc[t] = "fresh"
             /\ s = "receipt" => pc[t] = "decide" /\ loc' = loc
             /\ pc[t] # "idle"
      BY <2>3 DEF Passed
    <3>2. CASE s = "receipt"
      <4>1. loc' = [loc EXCEPT ![t] = loc[t]] /\ pc' = [pc EXCEPT ![t] = s] /\ inForce' = inForce
        BY <3>1, <3>2 DEF GoesOn, TypeOK
      <4>2. /\ loc[t].rule \in Range(rules)
            /\ loc[t].token # None /\ loc[t].token.rule \in Range(rules)
        BY <3>1, <3>2 DEF Serial, Checked
      <4> QED BY <1>9, <1>10, <3>1, <4>1, <4>2
    <3>3. CASE s # "receipt"
      <4> DEFINE l == [loc[t] EXCEPT !.token = tk]
      <4>1. l.rule = loc[t].rule /\ l.token = tk
        BY DEF TypeOK
      <4>2. loc' = [loc EXCEPT ![t] = l] /\ pc' = [pc EXCEPT ![t] = s] /\ inForce' = inForce
        BY <3>1 DEF GoesOn
      <4> HIDE DEF l
      <4>3. s = "decide" => /\ l.rule \in Range(rules)
                            /\ l.token # None /\ l.token.rule \in Range(rules)
        BY <1>7, <3>1, <4>1 DEF Serial, Checked
      <4> QED BY <1>9, <1>10, <3>1, <3>3, <4>2, <4>3
    <3> QED BY <3>2, <3>3
  <2>4. CASE Matched(t)
    <3> DEFINE l == [loc[t] EXCEPT !.rule = FirstMatch(rules, loc[t].src)]
    <3>1. l.rule = FirstMatch(rules, loc[t].src)
      BY DEF TypeOK
    <3>2. loc' = [loc EXCEPT ![t] = l] /\ pc' = [pc EXCEPT ![t] = "token"] /\ inForce' = inForce
      BY <2>4 DEF Matched, GoesOn
    <3> HIDE DEF l
    <3>3. l.rule \in Range(rules)
      BY <1>0, <2>4, <3>1, FirstMatchIs DEF Matched, Range
    <3> QED BY <1>9, <1>10, <2>4, <3>2, <3>3 DEF Matched
  <2>5. CASE Took(t)
    <3> DEFINE l == [loc[t] EXCEPT !.token = token]
    <3>1. l.rule = loc[t].rule /\ l.token = token
      BY DEF TypeOK
    <3>2. loc' = [loc EXCEPT ![t] = l] /\ pc' = [pc EXCEPT ![t] = "fresh"] /\ inForce' = inForce
      BY <2>5 DEF Took, GoesOn
    <3> HIDE DEF l
    <3>3. l.rule \in Range(rules) /\ l.token # None /\ l.token.rule \in Range(rules)
      BY <1>6, <1>7, <2>5, <3>1 DEF Took
    <3> QED BY <1>9, <1>10, <2>5, <3>2, <3>3 DEF Took
  <2> QED BY <2>1, <2>2, <2>3, <2>4, <2>5, CallStepIs DEF Answered
<1>12. CheckedInForce'
  <2>1. CASE answers' = answers
    BY <2>1 DEF Serial, CheckedInForce
  <2>2. CASE Answered(t)
    <3>1. loc[t].token.rule \in Range(RulesOf[p]) /\ p \in inForce[t]
      BY <1>6, <1>7, <1>10, <2>2 DEF Answered, Serial, Checked
    <3> QED BY <2>2, <3>1 DEF Answered, Serial, CheckedInForce
  <2> QED BY <2>1, <2>2, CallStepIs DEF Begun, Passed, Matched, Took, GoesOn
<1> QED BY <1>3, <1>5, <1>8, <1>11, <1>12 DEF Serial

LEMMA SerialOperator ==
  ASSUME TypeOK, InRequest, Serial, used'.overlaps = 0, NEW o \in Operators, OperatorStep(o)
  PROVE  Serial'
<1>0. o \in Threads /\ o \notin Callers /\ UNCHANGED answers
  BY OperatorStepIs, GateAssumption DEF Threads
<1>1. /\ \E s : pc' = [pc EXCEPT ![o] = s]
      /\ \E h : op' = [op EXCEPT ![o] = h]
  BY OperatorStepIs
<1>2. \A u \in Threads : u # o => pc'[u] = pc[u] /\ pc[u] = "idle"
  <2>1. pc[o] = "idle" => \A u \in Threads : pc[u] = "idle"
    BY OperatorCounts DEF TypeOK, Counts, Idle
  <2>2. \A u \in Threads : u # o => pc[u] = "idle"
    BY <1>0, <2>1 DEF Serial, Alone, Idle
  <2> QED BY <1>1, <2>2 DEF TypeOK
<1>3. Alone' /\ Checked' /\ CheckedInForce'
  BY <1>0, <1>2 DEF Alone, Idle, Checked, Serial, CheckedInForce, Threads
<1>4. CASE /\ UNCHANGED <<rules, token, loaded>>
           /\ pc[o] \notin {"clear", "fill"} /\ pc'[o] # "fill"
           /\ pc'[o] = "clear" => op'[o].n = 0
  <2>1. \A q \in Operators : pc[q] # "fill" /\ pc'[q] # "fill"
    BY <1>2, <1>4 DEF Threads
  <2>2. Reloading'
    BY <1>2, <1>4, <2>1 DEF Reloading, Threads
  <2>3. Whole'
    BY <1>4, <2>1 DEF Serial, Whole
  <2> QED BY <1>3, <2>2, <2>3 DEF Serial
<1>5. CASE ClearIndex(o)
  <2>1. rules' = <<>> /\ loaded' = {} /\ token' = None /\ op' = op /\ pc'[o] = "fill"
    BY <1>0, <1>5 DEF ClearIndex, Goto, TypeOK
  <2>2. op[o].n = 0 /\ RulesOf[op[o].policy] \in Seq(RuleIds)
    BY <1>5, GateAssumption DEF ClearIndex, Serial, Reloading, InRequest
  <2>3. Reloading'
    BY <1>2, <2>1, <2>2 DEF Reloading, Leads, Threads
  <2>4. Whole'
    BY <2>1 DEF Whole
  <2> QED BY <1>3, <2>3, <2>4 DEF Serial
<1>6. CASE FillRule(o)
  <2> DEFINE rs == RulesOf[op[o].policy]
             n == op[o].n
  <2>1. /\ op[o].policy \in Policies /\ n \in Nat /\ rs \in Seq(RuleIds)
        /\ n < Len(rs) /\ Head(Pending(o)) = rs[n + 1] /\ rs[n + 1] \in RuleIds
    BY <1>6, PendingIs DEF FillRule, InRequest
  <2>2. /\ rules \in Seq(RuleIds) /\ Len(rules) = n /\ \A i \in 1 .. n : rules[i] = rs[i]
        /\ token = None
    BY <1>6 DEF FillRule, Serial, Reloading, Leads, TypeOK
  <2>3. /\ rules' = Append(rules, rs[n + 1])
        /\ loaded' = loaded \cup {op[o].policy} /\ token' = token /\ pc' = pc /\ pc[o] = "fill"
    BY <1>6, <2>1 DEF FillRule
  <2>4. op'[o].n = n + 1 /\ op'[o].policy = op[o].policy
    BY <1>6 DEF FillRule, TypeOK
  <2> HIDE DEF rs, n
  <2>5. Len(rules') = n + 1 /\ Len(rs) \in Nat /\ \A i \in 1 .. n + 1 : rules'[i] = rs[i]
    BY <2>1, <2>2, <2>3
  <2>6. Leads(rules', op[o].policy)
    BY <2>1, <2>5 DEF Leads, rs
  <2>7. Reloading'
    BY <1>2, <2>2, <2>3, <2>4, <2>5, <2>6 DEF Reloading, Threads
  <2>8. Whole'
    BY <2>3 DEF Whole
  <2> QED BY <1>3, <2>7, <2>8 DEF Serial
<1>7. CASE MintToken(o)
  <2> DEFINE p == op[o].policy
             rs == RulesOf[p]
             n == op[o].n
  <2>1. /\ p \in Policies /\ n \in Nat /\ rs \in Seq(RuleIds) /\ ~(n < Len(rs))
    BY <1>7, PendingIs DEF MintToken, InRequest
  <2>2. /\ rules \in Seq(RuleIds) /\ Len(rules) = n /\ n <= Len(rs)
        /\ \A i \in 1 .. Len(rules) : rules[i] = rs[i]
        /\ token = None /\ (n > 0 => p \in loaded)
    BY <1>7 DEF MintToken, Serial, Reloading, Leads, TypeOK
  <2>3. /\ UNCHANGED <<rules, loaded>> /\ pc'[o] = "idle" /\ token' = TokenOf(rs)
    BY <1>0, <1>7, <2>2 DEF MintToken, Goto, TypeOK
  <2> HIDE DEF rs, n, p
  <2>4. Len(rules) = Len(rs)
    BY <2>1, <2>2
  <2>5. rules = rs
    BY <2>1, <2>2, <2>4
  <2>6. rs # <<>> => /\ Len(rs) > 0 /\ rs[1] \in RuleIds /\ rs[1] \in Range(rs)
    BY <2>1 DEF Range
  <2>7. IF rules' = <<>> THEN token' = None
        ELSE p \in loaded' /\ token' # None /\ token'.rule \in Range(rules')
    BY <2>2, <2>3, <2>4, <2>5, <2>6, TokenIs DEF TokenOf
  <2>8. Whole'
    BY <2>1, <2>3, <2>5, <2>7 DEF Whole, rs
  <2>9. Reloading'
    BY <1>2, <2>3 DEF Reloading, Threads
  <2> QED BY <1>3, <2>8, <2>9 DEF Serial
<1>8. CASE ReadFile(o)
  <2>1. /\ pc[o] = "read" /\ pc'[o] = "clear" /\ op'[o].n = 0 /\ UNCHANGED <<rules, token, loaded>>
    BY <1>0, <1>8 DEF ReadFile, Goto, TypeOK
  <2> QED BY <1>4, <2>1
<1>9. CASE \/ (\E p \in Policies : Save(o, p)) \/ Reload(o)
           \/ SealDigest(o) \/ SealReceipt(o) \/ SealRefused(o) \/ SealPersist(o)
  <2>1. /\ pc[o] \notin {"clear", "fill"} /\ pc'[o] \notin {"clear", "fill"}
        /\ UNCHANGED <<rules, token, loaded>>
    BY <1>0, <1>9 DEF Save, Reload, SealDigest, SealReceipt, SealRefused, SealPersist, Begin,
                      Goto, Idle, TypeOK
  <2> QED BY <1>4, <2>1
<1> QED BY <1>5, <1>6, <1>7, <1>8, <1>9 DEF OperatorStep

LEMMA SerialNext ==
  TypeOK /\ InRequest /\ SerialInv /\ [Next]_vars => SerialInv'
<1> SUFFICES ASSUME TypeOK, InRequest, SerialInv, [Next]_vars, used'.overlaps = 0 PROVE Serial'
  BY DEF SerialInv
<1>0. Serial
  BY NextCounts DEF TypeOK, Counts, SerialInv
<1>1. CASE \E t \in Callers : CallStep(t)
  BY <1>0, <1>1, SerialCall
<1>2. CASE \E o \in Operators : OperatorStep(o)
  BY <1>0, <1>2, SerialOperator
<1>3. ASSUME UNCHANGED <<rules, pc, op, loaded, inForce, answers>>,
             \/ token' = token
             \/ token # None /\ token' # None /\ token'.rule = token.rule,
             \A t \in Callers : /\ loc'[t].rule = loc[t].rule
                                /\ \/ loc'[t].token = loc[t].token
                                   \/ /\ loc'[t].token # None
                                      /\ loc'[t].token.rule = loc[t].token.rule
      PROVE  Serial'
  <2>1. Alone' /\ CheckedInForce'
    BY <1>0, <1>3 DEF Serial, Alone, CheckedInForce, Idle
  <2>2. Reloading'
    BY <1>0, <1>3 DEF Serial, Reloading, Leads
  <2>3. Whole'
    BY <1>0, <1>3 DEF Serial, Whole
  <2>4. Checked'
    BY <1>0, <1>3 DEF Serial, Checked, Idle
  <2> QED BY <2>1, <2>2, <2>3, <2>4 DEF Serial
<1>4. CASE UNCHANGED vars \/ Hold \/ \E p \in Policies : Edit(p)
  BY <1>3, <1>4 DEF vars, Edit, Hold, Callers_Unchanged
<1>5. CASE Release
  <2>1. \A t \in Callers : loc'[t].token = loc[t].token /\ loc'[t].rule = loc[t].rule
    BY <1>5 DEF Release, TypeOK
  <2> QED BY <1>3, <1>5, <2>1 DEF Release
<1>6. CASE Expire
  <2>1. ASSUME NEW tk \in Tokens, tk # None
        PROVE  /\ [tk EXCEPT !.live = FALSE] # None
               /\ [tk EXCEPT !.live = FALSE].rule = tk.rule
    <3>1. tk \in [rule : RuleIds, live : BOOLEAN]
      BY <2>1 DEF Tokens
    <3>2. [tk EXCEPT !.live = FALSE] \in [rule : RuleIds, live : BOOLEAN]
      BY <3>1
    <3> QED BY <3>1, <3>2, GateAssumption
  <2>2. token # None /\ token' # None /\ token'.rule = token.rule
    BY <1>6, <2>1 DEF Expire, TypeOK
  <2>3. ASSUME NEW t \in Callers
        PROVE  /\ loc'[t].rule = loc[t].rule
               /\ \/ loc'[t].token = loc[t].token
                  \/ loc'[t].token # None /\ loc'[t].token.rule = loc[t].token.rule
    <3>1. /\ loc[t].token \in Tokens /\ loc'[t].rule = loc[t].rule
          /\ loc'[t].token = IF loc[t].token = None THEN None
                             ELSE [loc[t].token EXCEPT !.live = FALSE]
      BY <1>6 DEF Expire, TypeOK
    <3>2. loc[t].token # None => /\ [loc[t].token EXCEPT !.live = FALSE] # None
                                 /\ [loc[t].token EXCEPT !.live = FALSE].rule = loc[t].token.rule
      BY <2>1, <3>1
    <3> QED BY <3>1, <3>2
  <2> QED BY <1>3, <1>6, <2>2, <2>3 DEF Expire
<1>7. CASE Restart
  <2>1. /\ \A t \in Threads : pc'[t] = "idle"
        /\ rules' = RulesOf[file] /\ loaded' = {file} /\ answers' = answers
        /\ token' = TokenOf(rules') /\ file \in Policies /\ RulesOf[file] \in Seq(RuleIds)
    BY <1>7, GateAssumption DEF Restart, TypeOK
  <2>2. rules' # <<>> => rules'[1] \in RuleIds /\ rules'[1] \in Range(rules')
    BY <2>1 DEF Range
  <2>3. rules' # <<>> => token' # None /\ token'.rule \in Range(rules')
    BY <2>1, <2>2, TokenIs DEF TokenOf
  <2>4. Whole'
    BY <2>1, <2>3 DEF Whole, TokenOf
  <2> QED BY <1>0, <2>1, <2>4 DEF Serial, Alone, Reloading, Checked, CheckedInForce, Idle, Threads
<1> QED BY <1>1, <1>2, <1>4, <1>5, <1>6, <1>7 DEF Next

(* Until a request begins beside another, the index is whole between requests,
   and no call is checked under a policy replaced before it began (_index_rules,
   _ensure_fresh_token), edits of the file and restarts included. *)
THEOREM SerialRequestsHold == Spec => []SerialHolds
<1>1. TypeOK /\ SerialInv => SerialHolds
  BY DEF SerialInv, Serial, SerialHolds, Whole, IndexCoherent, Idle, Threads
<1> QED BY <1>1, TypeAlways, SerialInit, SerialNext, PTL DEF Spec
=============================================================================
