-------------------------- MODULE CapabilityProofs --------------------------
(***************************************************************************)
(* The chain check of the gate, for chains of every length: whoever signed *)
(* the links, a call the gate allows is one every token of the chain would *)
(* allow alone.  And the verifiers that stand apart from the gate come to  *)
(* its conclusions.                                                        *)
(***************************************************************************)
EXTENDS Verifiers, FiniteSetTheorems, SequenceTheorems, TLAPS

----------------------------------------------------------------------------
(* Operators *)

(* A set of numbers from 1 to n that is not empty has a greatest one. *)
LEMMA GreatestUpTo ==
  ASSUME NEW n \in Nat, NEW T \in SUBSET (1 .. n), T # {}
  PROVE  \E m \in T : \A k \in T : k <= m
<1> DEFINE from(k) == k .. n
           F == {from(k) : k \in T}
<1>1. ASSUME NEW k \in T PROVE from(k) \in FiniteSubsetsOf(Nat)
  <2>1. k \in Int /\ n \in Int
    OBVIOUS
  <2>2. IsFiniteSet(from(k))
    BY <2>1, FS_Interval
  <2>3. from(k) \subseteq Nat
    OBVIOUS
  <2> QED BY <2>2, <2>3 DEF FiniteSubsetsOf
<1>2. F \subseteq FiniteSubsetsOf(Nat) /\ F # {}
  BY <1>1
<1> HIDE DEF F
<1>3. PICK x \in F : \A y \in F : <<y, x>> \notin StrictSubsetOrdering(Nat)
  BY <1>2, FS_StrictSubsetOrderingWellFounded, WFMin
<1> USE DEF F
<1>4. PICK m \in T : x = from(m)
  OBVIOUS
<1>5. ASSUME NEW k \in T, m < k PROVE FALSE
  <2>1. from(k) \subseteq from(m) /\ m \in from(m) /\ m \notin from(k)
    BY <1>5
  <2>2. from(k) \in SUBSET Nat /\ from(m) \in SUBSET Nat
    BY <1>5
  <2>3. <<from(k), from(m)>> \in StrictSubsetOrdering(Nat)
    BY <2>1, <2>2 DEF StrictSubsetOrdering
  <2> QED BY <1>3, <1>4, <2>3
<1> QED BY <1>5

(* What appending does to a sequence. *)
LEMMA AppendIs ==
  ASSUME NEW s, s \in Seq(Range(s)), NEW t
  PROVE  /\ Append(s, t) \in Seq(Range(Append(s, t)))
         /\ Len(s) \in Nat /\ DOMAIN s = 1 .. Len(s)
         /\ Len(Append(s, t)) = Len(s) + 1
         /\ DOMAIN Append(s, t) = 1 .. Len(s) + 1
         /\ \A i \in DOMAIN s : Append(s, t)[i] = s[i]
         /\ Append(s, t)[Len(s) + 1] = t
<1> DEFINE S == Range(s) \cup {t}
<1>1. s \in Seq(S) /\ t \in S
  BY SeqMonotonic
<1>2. /\ Append(s, t) \in Seq(S)
      /\ Len(Append(s, t)) = Len(s) + 1
      /\ \A i \in 1 .. Len(s) : Append(s, t)[i] = s[i]
      /\ Append(s, t)[Len(s) + 1] = t
  BY <1>1, AppendProperties
<1>3. Append(s, t) \in Seq(Range(Append(s, t)))
  BY <1>2, RangeOfSeq, SeqOfRange
<1>4. Len(s) \in Nat /\ DOMAIN s = 1 .. Len(s)
  BY LenProperties
<1>5. DOMAIN Append(s, t) = 1 .. Len(s) + 1
  BY <1>2, LenProperties
<1> QED BY <1>2, <1>3, <1>4, <1>5

(* To lead is transitive. *)
LEMMA LeadsOn ==
  ASSUME NEW r, NEW s, NEW t, Leads(r, s), Leads(s, t)
  PROVE  Leads(r, t)
BY DEF Leads

(* Merging numeric bounds gives numeric bounds. *)
LEMMA MergeKeepsNumbers ==
  ASSUME NEW p, NEW e, NumericBounds(p), NumericBounds(e)
  PROVE  NumericBounds(MergeNarrowing(p, e))
<1> DEFINE m == MergeNarrowing(p, e)
<1>1. m.max = Merged(p.max, e.max, Lower) /\ m.min = Merged(p.min, e.min, Higher)
  BY DEF MergeNarrowing
<1>2. \A x \in DOMAIN p.max : p.max[x] \in Int
  BY DEF NumericBounds
<1>3. \A x \in DOMAIN e.max : e.max[x] \in Int
  BY DEF NumericBounds
<1>4. \A x \in DOMAIN p.min : p.min[x] \in Int
  BY DEF NumericBounds
<1>5. \A x \in DOMAIN e.min : e.min[x] \in Int
  BY DEF NumericBounds
<1>6. \A x \in DOMAIN m.max : m.max[x] \in Int
  BY <1>1, <1>2, <1>3 DEF Merged, Lower
<1>7. \A x \in DOMAIN m.min : m.min[x] \in Int
  BY <1>1, <1>4, <1>5 DEF Merged, Higher
<1> HIDE DEF m
<1>8. NumericBounds(m)
  BY <1>6, <1>7 DEF NumericBounds
<1> QED BY <1>8 DEF m

(* A merged list has every element of the parent's. *)
LEMMA ListsGrow ==
  ASSUME NEW p, NEW e
  PROVE  Listed(p) \subseteq Listed(MergedLists(p, e))
<1>1. CASE e = {}
  BY <1>1 DEF MergedLists
<1>2. CASE e # {}
  <2>1. MergedLists(p, e) = {Once(Listed(p) \cup Listed(e))}
    BY <1>2 DEF MergedLists
  <2>2. \A S : DOMAIN Once(S) = S
    BY DEF Once
  <2>3. Listed(MergedLists(p, e)) = Listed(p) \cup Listed(e)
    BY <2>1, <2>2 DEF Listed
  <2> QED BY <2>3
<1> QED BY <1>1, <1>2

(* A merged list without duplicates does not change when it is merged again. *)
LEMMA ListsMergeAgain ==
  ASSUME NEW p, NEW e,
         \A l \in MergedLists(p, e) : MergedLists(p, e) = {Once(DOMAIN l)}
  PROVE  MergedLists(p, MergedLists(p, e)) = MergedLists(p, e)
<1> DEFINE m == MergedLists(p, e)
<1>1. Listed(p) \subseteq Listed(m)
  BY ListsGrow
<1>2. CASE m = {}
  <2>1. e = {}
    BY <1>2 DEF MergedLists
  <2>2. p = {}
    BY <1>2, <2>1 DEF MergedLists
  <2> QED BY <1>2, <2>2 DEF MergedLists
<1>3. CASE m # {}
  <2>1. PICK l \in m : m = {Once(DOMAIN l)}
    BY <1>3
  <2> HIDE DEF m
  <2>2. Listed(m) = DOMAIN l
    BY <2>1 DEF Listed, Once
  <2>3. MergedLists(p, m) = {Once(Listed(p) \cup Listed(m))}
    BY <1>3 DEF MergedLists
  <2>4. Listed(p) \cup Listed(m) = DOMAIN l
    BY <1>1, <2>2
  <2>5. MergedLists(p, m) = m
    BY <2>1, <2>3, <2>4
  <2> QED BY <2>5 DEF m
<1> QED BY <1>2, <1>3

(* What merging accepts, the parent's constraints accept: the merge only ever
   narrows (_merge_narrowing against _check_constraints). *)
LEMMA MergeNarrows ==
  ASSUME NEW p, NEW e, NEW args,
         PrefixesMerge(p, e), NumericBounds(p), NumericBounds(e),
         Plain(MergeNarrowing(p, e)),
         \A x \in DOMAIN args.lists : args.lists[x] \subseteq Int \cup {Word},
         CheckConstraints(MergeNarrowing(p, e), args)
  PROVE  CheckConstraints(p, args) /\ Plain(p)
<1> DEFINE m == MergeNarrowing(p, e)
<1>1. /\ m.forbidden = Merged(p.forbidden, Deduplicated(e.forbidden), UnionValues)
      /\ m.allowed = Merged(p.allowed, Deduplicated(e.allowed), IntersectValues)
      /\ m.starts = Merged(p.starts, e.starts, Later)
      /\ m.max = Merged(p.max, e.max, Lower)
      /\ m.min = Merged(p.min, e.min, Higher)
      /\ m.required = MergedLists(p.required, e.required)
      /\ m.combos = MergedLists(p.combos, e.combos)
  BY DEF MergeNarrowing
<1>2. CheckConstraints(m, args) /\ Plain(m)
  OBVIOUS
<1> HIDE DEF m
<1>3. \A x \in DOMAIN p.forbidden \cap Present(args) :
         Scalars(args, x) \cap DOMAIN p.forbidden[x] = {}
  <2>1. \A x \in DOMAIN p.forbidden :
           x \in DOMAIN m.forbidden /\ DOMAIN p.forbidden[x] \subseteq DOMAIN m.forbidden[x]
    <3>1. SUFFICES ASSUME NEW x \in DOMAIN p.forbidden
                   PROVE  x \in DOMAIN m.forbidden /\ DOMAIN p.forbidden[x] \subseteq DOMAIN m.forbidden[x]
      OBVIOUS
    <3>2. x \in DOMAIN m.forbidden
      BY <1>1 DEF Merged
    <3>3. \/ m.forbidden[x] = p.forbidden[x]
          \/ m.forbidden[x] = UnionValues(p.forbidden[x], Deduplicated(e.forbidden)[x])
      BY <1>1 DEF Merged
    <3> QED BY <3>2, <3>3 DEF UnionValues, Once
  <2>2. \A x \in DOMAIN m.forbidden \cap Present(args) :
           Scalars(args, x) \cap DOMAIN m.forbidden[x] = {}
    BY <1>2 DEF CheckConstraints
  <2> QED BY <2>1, <2>2
<1>4. \A x \in DOMAIN p.allowed : HasNumbers(args, x) /\ Scalars(args, x) \subseteq DOMAIN p.allowed[x]
  <2>1. \A x \in DOMAIN p.allowed :
           x \in DOMAIN m.allowed /\ DOMAIN m.allowed[x] \subseteq DOMAIN p.allowed[x]
    <3>1. SUFFICES ASSUME NEW x \in DOMAIN p.allowed
                   PROVE  x \in DOMAIN m.allowed /\ DOMAIN m.allowed[x] \subseteq DOMAIN p.allowed[x]
      OBVIOUS
    <3>2. x \in DOMAIN m.allowed
      BY <1>1 DEF Merged
    <3>3. \/ m.allowed[x] = p.allowed[x]
          \/ m.allowed[x] = IntersectValues(p.allowed[x], Deduplicated(e.allowed)[x])
      BY <1>1 DEF Merged
    <3> QED BY <3>2, <3>3 DEF IntersectValues, Once
  <2>2. \A x \in DOMAIN m.allowed :
           HasNumbers(args, x) /\ Scalars(args, x) \subseteq DOMAIN m.allowed[x]
    BY <1>2 DEF CheckConstraints
  <2> QED BY <2>1, <2>2
<1>5. \A x \in DOMAIN p.starts : x \in DOMAIN m.starts /\ Begins(m.starts[x], p.starts[x])
  <2>1. SUFFICES ASSUME NEW x \in DOMAIN p.starts
                 PROVE  x \in DOMAIN m.starts /\ Begins(m.starts[x], p.starts[x])
    OBVIOUS
  <2>2. x \in DOMAIN m.starts
    BY <1>1 DEF Merged
  <2>3. CASE x \in DOMAIN e.starts
    <3>1. m.starts[x] = e.starts[x]
      BY <1>1, <2>3 DEF Merged, Later
    <3> QED BY <2>2, <2>3, <3>1 DEF PrefixesMerge
  <2>4. CASE x \notin DOMAIN e.starts
    <3>1. m.starts[x] = p.starts[x]
      BY <1>1, <2>4 DEF Merged
    <3> QED BY <2>2, <3>1 DEF Begins, Leads
  <2> QED BY <2>3, <2>4
<1>6. Plain(p)
  <2>1. SUFFICES ASSUME NEW x \in DOMAIN p.starts, p.starts[x].file, Up \in Range(p.starts[x].path)
                 PROVE  FALSE
    BY DEF Plain
  <2>2. m.starts[x].file /\ Leads(p.starts[x].path, m.starts[x].path)
    BY <1>5, <2>1 DEF Begins
  <2>3. Up \in Range(m.starts[x].path)
    BY <2>1, <2>2 DEF Leads, Range
  <2> QED BY <1>2, <1>5, <2>2, <2>3 DEF Plain
<1>7. \A x \in DOMAIN p.starts : x \in DOMAIN args.texts /\ StartsWith(args.texts[x], p.starts[x])
  <2>1. SUFFICES ASSUME NEW x \in DOMAIN p.starts
                 PROVE  x \in DOMAIN args.texts /\ StartsWith(args.texts[x], p.starts[x])
    OBVIOUS
  <2> DEFINE t == args.texts[x]
             a == p.starts[x]
             b == m.starts[x]
  <2>2. b.file = a.file /\ Leads(a.path, b.path)
    BY <1>5 DEF Begins
  <2>3. x \in DOMAIN args.texts /\ StartsWith(t, b)
    BY <1>2, <1>5 DEF CheckConstraints
  <2>4. a.file => Canonical(a.path) = a.path
    BY <1>6 DEF Plain, Canonical
  <2>5. b.file => Canonical(b.path) = b.path
    BY <1>2, <1>5 DEF Plain, Canonical
  <2> HIDE DEF a, b, t
  <2>6. StartsWith(t, a)
    <3>1. CASE t.file /\ a.file
      <4>1. Leads(b.path, Canonical(t.path))
        BY <2>2, <2>3, <2>5, <3>1 DEF StartsWith
      <4>2. Leads(a.path, Canonical(t.path))
        BY <2>2, <4>1, LeadsOn
      <4> QED BY <2>4, <3>1, <4>2 DEF StartsWith
    <3>2. CASE ~(t.file /\ a.file)
      <4>1. t.file = b.file /\ Leads(b.path, t.path)
        BY <2>2, <2>3, <3>2 DEF StartsWith, Begins
      <4>2. Leads(a.path, t.path)
        BY <2>2, <4>1, LeadsOn
      <4> QED BY <2>2, <3>2, <4>1, <4>2 DEF StartsWith, Begins
    <3> QED BY <3>1, <3>2
  <2> QED BY <2>3, <2>6 DEF a, t
<1>8. ASSUME NEW x, HasNumbers(args, x) PROVE Scalars(args, x) \subseteq Int
  BY <1>8 DEF HasNumbers, Scalars, Present
<1>9. \A x \in DOMAIN p.max : HasNumbers(args, x) /\ \A v \in Scalars(args, x) : v <= p.max[x]
  <2>1. SUFFICES ASSUME NEW x \in DOMAIN p.max
                 PROVE  HasNumbers(args, x) /\ \A v \in Scalars(args, x) : v <= p.max[x]
    OBVIOUS
  <2>2. p.max[x] \in Int /\ (x \in DOMAIN e.max => e.max[x] \in Int)
    BY DEF NumericBounds
  <2>3. /\ x \in DOMAIN m.max
        /\ \/ m.max[x] = p.max[x]
           \/ x \in DOMAIN e.max /\ m.max[x] = Lower(p.max[x], e.max[x])
    BY <1>1 DEF Merged
  <2>4. m.max[x] \in Int /\ m.max[x] <= p.max[x]
    BY <2>2, <2>3 DEF Lower
  <2>5. HasNumbers(args, x) /\ \A v \in Scalars(args, x) : v <= m.max[x]
    BY <1>2, <2>3 DEF CheckConstraints
  <2>6. SUFFICES ASSUME NEW v \in Scalars(args, x) PROVE v <= p.max[x]
    BY <2>5
  <2>7. v \in Int /\ v <= m.max[x]
    BY <1>8, <2>5
  <2> QED BY <2>2, <2>4, <2>7
<1>10. \A x \in DOMAIN p.min : HasNumbers(args, x) /\ \A v \in Scalars(args, x) : v >= p.min[x]
  <2>1. SUFFICES ASSUME NEW x \in DOMAIN p.min
                 PROVE  HasNumbers(args, x) /\ \A v \in Scalars(args, x) : v >= p.min[x]
    OBVIOUS
  <2>2. p.min[x] \in Int /\ (x \in DOMAIN e.min => e.min[x] \in Int)
    BY DEF NumericBounds
  <2>3. /\ x \in DOMAIN m.min
        /\ \/ m.min[x] = p.min[x]
           \/ x \in DOMAIN e.min /\ m.min[x] = Higher(p.min[x], e.min[x])
    BY <1>1 DEF Merged
  <2>4. m.min[x] \in Int /\ m.min[x] >= p.min[x]
    BY <2>2, <2>3 DEF Higher
  <2>5. HasNumbers(args, x) /\ \A v \in Scalars(args, x) : v >= m.min[x]
    BY <1>2, <2>3 DEF CheckConstraints
  <2>6. SUFFICES ASSUME NEW v \in Scalars(args, x) PROVE v >= p.min[x]
    BY <2>5
  <2>7. v \in Int /\ v >= m.min[x]
    BY <1>8, <2>5
  <2> QED BY <2>2, <2>4, <2>7
<1>11. /\ Listed(p.required) \subseteq Present(args)
       /\ \A combo \in Listed(p.combos) : ~(DOMAIN combo \subseteq Present(args))
  <2>1. Listed(p.required) \subseteq Listed(m.required) /\ Listed(p.combos) \subseteq Listed(m.combos)
    BY <1>1, ListsGrow
  <2>2. /\ Listed(m.required) \subseteq Present(args)
        /\ \A combo \in Listed(m.combos) : ~(DOMAIN combo \subseteq Present(args))
    BY <1>2 DEF CheckConstraints
  <2> QED BY <2>1, <2>2
<1> QED BY <1>3, <1>4, <1>6, <1>7, <1>9, <1>10, <1>11 DEF CheckConstraints

(* What merging leaves as it is has nothing listed twice. *)
LEMMA MergedOnce ==
  ASSUME NEW p, NEW c, MergeNarrowing(p, c) = c
  PROVE  NoDuplicates(c)
<1>1. /\ c.forbidden = Merged(p.forbidden, Deduplicated(c.forbidden), UnionValues)
      /\ c.allowed = Merged(p.allowed, Deduplicated(c.allowed), IntersectValues)
      /\ c.required = MergedLists(p.required, c.required)
      /\ c.combos = MergedLists(p.combos, c.combos)
  BY DEF MergeNarrowing
<1>2. \A S : DOMAIN Once(S) = S
  BY DEF Once
<1>3. ASSUME NEW x \in DOMAIN c.forbidden PROVE c.forbidden[x] = Once(DOMAIN c.forbidden[x])
  <2> DEFINE g == Deduplicated(c.forbidden)
  <2>1. DOMAIN g = DOMAIN c.forbidden /\ g[x] = Once(DOMAIN c.forbidden[x])
    BY DEF Deduplicated
  <2> HIDE DEF g
  <2>2. \/ c.forbidden[x] = g[x]
        \/ c.forbidden[x] = UnionValues(p.forbidden[x], g[x])
    BY <1>1, <2>1 DEF Merged, g
  <2> QED BY <1>2, <2>1, <2>2 DEF UnionValues
<1>4. ASSUME NEW x \in DOMAIN c.allowed PROVE c.allowed[x] = Once(DOMAIN c.allowed[x])
  <2> DEFINE g == Deduplicated(c.allowed)
  <2>1. DOMAIN g = DOMAIN c.allowed /\ g[x] = Once(DOMAIN c.allowed[x])
    BY DEF Deduplicated
  <2> HIDE DEF g
  <2>2. \/ c.allowed[x] = g[x]
        \/ c.allowed[x] = IntersectValues(p.allowed[x], g[x])
    BY <1>1, <2>1 DEF Merged, g
  <2> QED BY <1>2, <2>1, <2>2 DEF IntersectValues
<1>5. ASSUME NEW q, NEW e, e = MergedLists(q, e), NEW l \in e PROVE e = {Once(DOMAIN l)}
  <2>1. \E S : e = {Once(S)}
    BY <1>5 DEF MergedLists
  <2> QED BY <1>2, <2>1
<1> QED BY <1>1, <1>3, <1>4, <1>5 DEF NoDuplicates

(* Merging once more changes nothing, when nothing is listed twice: what
   attenuate signs, _attenuation_violation accepts. *)
LEMMA MergeAgain ==
  ASSUME NEW p, NEW e, PrefixesMerge(p, e), NumericBounds(p), NumericBounds(e),
         NoDuplicates(MergeNarrowing(p, e))
  PROVE  LET m == MergeNarrowing(p, e) IN PrefixesMerge(p, m) /\ MergeNarrowing(p, m) = m
<1> DEFINE m == MergeNarrowing(p, e)
<1>1. /\ m.forbidden = Merged(p.forbidden, Deduplicated(e.forbidden), UnionValues)
      /\ m.allowed = Merged(p.allowed, Deduplicated(e.allowed), IntersectValues)
      /\ m.starts = Merged(p.starts, e.starts, Later)
      /\ m.max = Merged(p.max, e.max, Lower)
      /\ m.min = Merged(p.min, e.min, Higher)
      /\ m.required = MergedLists(p.required, e.required)
      /\ m.combos = MergedLists(p.combos, e.combos)
  BY DEF MergeNarrowing
<1>2. m = [forbidden |-> m.forbidden, allowed |-> m.allowed, starts |-> m.starts, max |-> m.max,
           min |-> m.min, required |-> m.required, combos |-> m.combos]
  BY DEF MergeNarrowing
<1>a. NoDuplicates(m)
  OBVIOUS
<1> HIDE DEF m
<1>3. Merged(p.forbidden, Deduplicated(m.forbidden), UnionValues) = m.forbidden
  <2> DEFINE f == p.forbidden
             g == e.forbidden
             h == m.forbidden
  <2>1. \A x \in DOMAIN f \ DOMAIN g : f[x] = Once(DOMAIN f[x])
    <3>1. ASSUME NEW x \in DOMAIN f, x \notin DOMAIN g PROVE h[x] = f[x] /\ x \in DOMAIN h
      BY <1>1, <3>1 DEF Merged, Deduplicated
    <3>2. \A x \in DOMAIN h : h[x] = Once(DOMAIN h[x])
      BY <1>a DEF NoDuplicates
    <3> QED BY <3>1, <3>2
  <2>2. h = [x \in DOMAIN f \cup DOMAIN g |->
               IF x \notin DOMAIN g THEN f[x]
               ELSE IF x \notin DOMAIN f THEN Once(DOMAIN g[x]) ELSE Once(DOMAIN f[x] \cup DOMAIN g[x])]
    BY <1>1 DEF Merged, Deduplicated, UnionValues, Once
  <2> HIDE DEF f, g, h
  <2>3. Merged(f, Deduplicated(h), UnionValues) =
          [x \in DOMAIN f \cup DOMAIN h |->
               IF x \notin DOMAIN f THEN Once(DOMAIN h[x]) ELSE Once(DOMAIN f[x] \cup DOMAIN h[x])]
    BY <2>2 DEF Merged, Deduplicated, UnionValues, Once
  <2>4. DOMAIN h = DOMAIN f \cup DOMAIN g
    BY <2>2
  <2>5. ASSUME NEW x \in DOMAIN h
        PROVE  h[x] = IF x \notin DOMAIN f THEN Once(DOMAIN h[x]) ELSE Once(DOMAIN f[x] \cup DOMAIN h[x])
    <3>1. \A S : DOMAIN Once(S) = S
      BY DEF Once
    <3>2. CASE x \notin DOMAIN g
      <4>1. x \in DOMAIN f /\ h[x] = f[x]
        BY <2>2, <2>4, <3>2
      <4>2. DOMAIN f[x] \cup DOMAIN h[x] = DOMAIN f[x]
        BY <4>1
      <4>3. f[x] = Once(DOMAIN f[x])
        BY <2>1, <3>2, <4>1
      <4> QED BY <4>1, <4>2, <4>3
    <3>3. CASE x \notin DOMAIN f
      <4>1. h[x] = Once(DOMAIN g[x])
        BY <2>2, <2>4, <3>3
      <4> QED BY <3>1, <3>3, <4>1
    <3>4. CASE x \in DOMAIN f /\ x \in DOMAIN g
      <4>1. h[x] = Once(DOMAIN f[x] \cup DOMAIN g[x])
        BY <2>2, <3>4
      <4>2. DOMAIN h[x] = DOMAIN f[x] \cup DOMAIN g[x]
        BY <3>1, <4>1
      <4>3. DOMAIN f[x] \cup DOMAIN h[x] = DOMAIN f[x] \cup DOMAIN g[x]
        BY <4>2
      <4> QED BY <3>4, <4>1, <4>3
    <3> QED BY <3>2, <3>3, <3>4
  <2>6. h = [x \in DOMAIN h |-> h[x]] /\ DOMAIN f \cup DOMAIN h = DOMAIN h
    BY <2>2
  <2>7. Merged(f, Deduplicated(h), UnionValues) = h
    BY <2>3, <2>5, <2>6
  <2> QED BY <2>7 DEF f, h
<1>4. Merged(p.allowed, Deduplicated(m.allowed), IntersectValues) = m.allowed
  <2> DEFINE f == p.allowed
             g == e.allowed
             h == m.allowed
  <2>1. \A x \in DOMAIN f \ DOMAIN g : f[x] = Once(DOMAIN f[x])
    <3>1. ASSUME NEW x \in DOMAIN f, x \notin DOMAIN g PROVE h[x] = f[x] /\ x \in DOMAIN h
      BY <1>1, <3>1 DEF Merged, Deduplicated
    <3>2. \A x \in DOMAIN h : h[x] = Once(DOMAIN h[x])
      BY <1>a DEF NoDuplicates
    <3> QED BY <3>1, <3>2
  <2>2. h = [x \in DOMAIN f \cup DOMAIN g |->
               IF x \notin DOMAIN g THEN f[x]
               ELSE IF x \notin DOMAIN f THEN Once(DOMAIN g[x]) ELSE Once(DOMAIN f[x] \cap DOMAIN g[x])]
    BY <1>1 DEF Merged, Deduplicated, IntersectValues, Once
  <2> HIDE DEF f, g, h
  <2>3. Merged(f, Deduplicated(h), IntersectValues) =
          [x \in DOMAIN f \cup DOMAIN h |->
               IF x \notin DOMAIN f THEN Once(DOMAIN h[x]) ELSE Once(DOMAIN f[x] \cap DOMAIN h[x])]
    BY <2>2 DEF Merged, Deduplicated, IntersectValues, Once
  <2>4. DOMAIN h = DOMAIN f \cup DOMAIN g
    BY <2>2
  <2>5. ASSUME NEW x \in DOMAIN h
        PROVE  h[x] = IF x \notin DOMAIN f THEN Once(DOMAIN h[x]) ELSE Once(DOMAIN f[x] \cap DOMAIN h[x])
    <3>1. \A S : DOMAIN Once(S) = S
      BY DEF Once
    <3>2. CASE x \notin DOMAIN g
      <4>1. x \in DOMAIN f /\ h[x] = f[x]
        BY <2>2, <2>4, <3>2
      <4>2. DOMAIN f[x] \cap DOMAIN h[x] = DOMAIN f[x]
        BY <4>1
      <4>3. f[x] = Once(DOMAIN f[x])
        BY <2>1, <3>2, <4>1
      <4> QED BY <4>1, <4>2, <4>3
    <3>3. CASE x \notin DOMAIN f
      <4>1. h[x] = Once(DOMAIN g[x])
        BY <2>2, <2>4, <3>3
      <4> QED BY <3>1, <3>3, <4>1
    <3>4. CASE x \in DOMAIN f /\ x \in DOMAIN g
      <4>1. h[x] = Once(DOMAIN f[x] \cap DOMAIN g[x])
        BY <2>2, <3>4
      <4>2. DOMAIN h[x] = DOMAIN f[x] \cap DOMAIN g[x]
        BY <3>1, <4>1
      <4>3. DOMAIN f[x] \cap DOMAIN h[x] = DOMAIN f[x] \cap DOMAIN g[x]
        BY <4>2
      <4> QED BY <3>4, <4>1, <4>3
    <3> QED BY <3>2, <3>3, <3>4
  <2>6. h = [x \in DOMAIN h |-> h[x]] /\ DOMAIN f \cup DOMAIN h = DOMAIN h
    BY <2>2
  <2>7. Merged(f, Deduplicated(h), IntersectValues) = h
    BY <2>3, <2>5, <2>6
  <2> QED BY <2>7 DEF f, h
<1>5. Merged(p.starts, m.starts, Later) = m.starts
  BY <1>1 DEF Merged, Later
<1>6. Merged(p.max, m.max, Lower) = m.max
  <2>1. \A x \in DOMAIN p.max : p.max[x] \in Int
    BY DEF NumericBounds
  <2>2. \A x \in DOMAIN e.max : e.max[x] \in Int
    BY DEF NumericBounds
  <2> QED BY <1>1, <2>1, <2>2 DEF Merged, Lower
<1>7. Merged(p.min, m.min, Higher) = m.min
  <2>1. \A x \in DOMAIN p.min : p.min[x] \in Int
    BY DEF NumericBounds
  <2>2. \A x \in DOMAIN e.min : e.min[x] \in Int
    BY DEF NumericBounds
  <2> QED BY <1>1, <2>1, <2>2 DEF Merged, Higher
<1>8. MergedLists(p.required, m.required) = m.required /\ MergedLists(p.combos, m.combos) = m.combos
  BY <1>1, <1>a, ListsMergeAgain DEF NoDuplicates
<1>9. MergeNarrowing(p, m) = m
  BY <1>2, <1>3, <1>4, <1>5, <1>6, <1>7, <1>8 DEF MergeNarrowing
<1>10. PrefixesMerge(p, m)
  <2>1. SUFFICES ASSUME NEW x \in DOMAIN p.starts PROVE Begins(m.starts[x], p.starts[x])
    BY DEF PrefixesMerge
  <2>2. CASE x \in DOMAIN e.starts
    BY <1>1, <2>2 DEF Merged, Later, PrefixesMerge
  <2>3. CASE x \notin DOMAIN e.starts
    <3>1. m.starts[x] = p.starts[x]
      BY <1>1, <2>3 DEF Merged
    <3> QED BY <3>1 DEF Begins, Leads
  <2> QED BY <2>2, <2>3
<1> QED BY <1>9, <1>10 DEF m

----------------------------------------------------------------------------
(* The inductive invariant.  Links are pairs of a child and its parent. *)

(* Each part of the parent's intent has one in the child's that is inside it. *)
IntentKept(c, p) ==
    \A m \in p.intent : \E n \in c.intent :
        /\ m.tools # None /\ n.tools # None => n.tools \subseteq m.tools
        /\ n.cons # {} => \A l \in m.cons : \E k \in n.cons :
              Plain(k) => \A call \in Calls : CheckConstraints(k, call.args) => CheckConstraints(l, call.args)

(* A link that attenuate made. *)
LinkMade(c, p) ==
    /\ NoDuplicates(c.cons) => AttenuationHolds(c, p)
    /\ c.tool = p.tool
    /\ p.actingFor # None => c.actingFor = p.actingFor
    /\ IntentKept(c, p)

(* How a token came to be, and the policy it is bound to. *)
TokenMade(t) ==
    /\ t.made = "mint" => t.parent = 0
    /\ t.policy = IF t.made = "attenuate" THEN {} ELSE {Proofs[q].about : q \in {t.proof} \ {None}}

TokenTyped(t, i) ==
    /\ t.made \in {"mint", "attenuate", "elsewhere"}
    /\ t.parent \in 0 .. (i - 1)
    /\ t.line \subseteq 1 .. (i - 1)
    /\ {t.nbf, t.exp} \subseteq Int
    /\ NumericBounds(t.cons) /\ NumericIntents(t.intent)

LineIn(s, q) == IF q = 0 THEN {} ELSE s[q].line \cup {q}

(* The line of a token holds its parent's line and its parent, and nothing a
   token of the line does not descend from. *)
LineKept(s, i) ==
    /\ s[i].line = LineIn(s, s[i].parent)
    /\ \A u \in s[i].line : \E c \in s[i].line \cup {i} : s[c].parent = u
    /\ \A c \in s[i].line : s[c].line \subseteq s[i].line

Well(s) ==
    /\ s \in Seq(Range(s))
    /\ \A i \in DOMAIN s :
          /\ TokenTyped(s[i], i)
          /\ TokenMade(s[i])
          /\ LineKept(s, i)
          /\ s[i].made = "attenuate" => s[i].parent # 0 /\ LinkMade(s[i], s[s[i].parent])

IInv ==
    /\ Well(toks)
    /\ registered \subseteq Ids
    /\ revoked \subseteq Ids
    /\ now \in 0 .. MaxTime

(* Well-made chains stay so when a well-made token joins them. *)
LEMMA WellGrows ==
  ASSUME NEW s, Well(s), NEW t,
         TokenTyped(t, Len(s) + 1), TokenMade(t), t.line = LineIn(s, t.parent),
         t.made = "attenuate" => t.parent # 0 /\ LinkMade(t, s[t.parent])
  PROVE  Well(Append(s, t))
<1> DEFINE r == Append(s, t)
           n == Len(s) + 1
<1>1. s \in Seq(Range(s))
  BY DEF Well
<1>2. /\ r \in Seq(Range(r))
      /\ Len(s) \in Nat /\ DOMAIN s = 1 .. Len(s)
      /\ DOMAIN r = 1 .. n
      /\ \A i \in DOMAIN s : r[i] = s[i]
      /\ r[n] = t
  BY <1>1, AppendIs
<1> HIDE DEF r, n
<1>3. n = Len(s) + 1
  BY DEF n
<1>4. DOMAIN r = DOMAIN s \cup {n} /\ n \notin DOMAIN s
  BY <1>2, <1>3
<1>5. t.parent = 0 \/ t.parent \in DOMAIN s
  BY <1>2, <1>3 DEF TokenTyped
<1>6. ASSUME NEW i \in DOMAIN s
      PROVE  /\ i \in Nat /\ s[i].line \subseteq DOMAIN s
             /\ s[i].parent = 0 \/ s[i].parent \in DOMAIN s
  BY <1>2 DEF Well, TokenTyped
<1>7. ASSUME NEW i \in DOMAIN s
      PROVE  /\ TokenTyped(r[i], i) /\ TokenMade(r[i]) /\ LineKept(r, i)
             /\ r[i].made = "attenuate" => r[i].parent # 0 /\ LinkMade(r[i], r[r[i].parent])
  <2>1. TokenTyped(s[i], i) /\ TokenMade(s[i]) /\ LineKept(s, i)
    BY DEF Well
  <2>2. s[i].made = "attenuate" => s[i].parent # 0 /\ LinkMade(s[i], s[s[i].parent])
    BY DEF Well
  <2>3. r[i] = s[i]
    BY <1>2
  <2>4. LineIn(r, s[i].parent) = LineIn(s, s[i].parent)
    BY <1>2, <1>6 DEF LineIn
  <2>5. LineKept(r, i)
    BY <1>2, <1>6, <2>1, <2>3, <2>4 DEF LineKept
  <2>6. s[i].parent # 0 => r[s[i].parent] = s[s[i].parent]
    BY <1>2, <1>6
  <2> QED BY <2>1, <2>2, <2>3, <2>5, <2>6
<1>8. /\ TokenTyped(r[n], n) /\ TokenMade(r[n]) /\ LineKept(r, n)
      /\ r[n].made = "attenuate" => r[n].parent # 0 /\ LinkMade(r[n], r[r[n].parent])
  <2>1. LineIn(r, t.parent) = LineIn(s, t.parent)
    BY <1>2, <1>5 DEF LineIn
  <2>2. t.parent # 0 => r[t.parent] = s[t.parent]
    BY <1>2, <1>5
  <2>3. LineKept(r, n)
    <3>1. CASE t.parent = 0
      BY <1>2, <2>1, <3>1 DEF LineKept, LineIn
    <3>2. CASE t.parent # 0
      <4> DEFINE q == t.parent
      <4>1. q \in DOMAIN s /\ t.line = s[q].line \cup {q}
        BY <1>5, <3>2 DEF LineIn
      <4>2. /\ \A u \in s[q].line : \E c \in s[q].line \cup {q} : s[c].parent = u
            /\ \A c \in s[q].line : s[c].line \subseteq s[q].line
        BY <4>1 DEF Well, LineKept
      <4>3. \A c \in s[q].line \cup {q} : r[c] = s[c]
        BY <1>2, <1>6, <4>1
      <4>4. ASSUME NEW u \in t.line PROVE \E c \in t.line \cup {n} : r[c].parent = u
        BY <1>2, <4>1, <4>2, <4>3, <4>4
      <4>5. ASSUME NEW c \in t.line PROVE r[c].line \subseteq t.line
        BY <4>1, <4>2, <4>3
      <4> QED BY <1>2, <2>1, <4>4, <4>5 DEF LineKept
    <3> QED BY <3>1, <3>2
  <2> QED BY <1>2, <1>3, <2>2, <2>3
<1> QED BY <1>2, <1>4, <1>7, <1>8 DEF Well, r

(* What attenuate signs is a link of its kind: the narrowing checks of
   attenuate, _narrow_agent_id, _narrow_acting_for and _narrow_intent suffice
   for the verifier's. *)
LEMMA AttenuateLinks ==
  ASSUME NEW p, NEW a, NEW c,
         NumericBounds(p.cons), NumericBounds(a.extra),
         NumericIntents(p.intent), NumericIntents(a.intent),
         Covers(p.agent, c.agent), c.tool = p.tool,
         PrefixesMerge(p.cons, a.extra), c.cons = MergeNarrowing(p.cons, a.extra),
         p.actingFor = None \/ a.actingFor \in {None, p.actingFor},
         c.actingFor = ChildActingFor(p, a),
         IntentNarrows(p, a), c.intent = ChildIntent(p, a),
         c.exp <= p.exp, c.nbf >= p.nbf
  PROVE  LinkMade(c, p)
<1>1. NoDuplicates(c.cons) => AttenuationHolds(c, p)
  BY MergeAgain DEF AttenuationHolds
<1>2. p.actingFor # None => c.actingFor = p.actingFor
  BY DEF ChildActingFor
<1>3. IntentKept(c, p)
  <2>1. CASE a.intent = {}
    <3>1. c.intent = p.intent
      BY <2>1 DEF ChildIntent
    <3> QED BY <3>1 DEF IntentKept
  <2>2. CASE a.intent # {}
    <3> DEFINE above == UNION {m.cons : m \in p.intent}
    <3>1. SUFFICES ASSUME NEW m \in p.intent
                   PROVE  \E n \in c.intent :
                             /\ m.tools # None /\ n.tools # None => n.tools \subseteq m.tools
                             /\ n.cons # {} => \A l \in m.cons : \E k \in n.cons :
                                   Plain(k) => \A call \in Calls :
                                      CheckConstraints(k, call.args) => CheckConstraints(l, call.args)
      BY DEF IntentKept
    <3>2. PICK b \in a.intent : TRUE
      BY <2>2
    <3> DEFINE n == Narrowed(b, above)
    <3>3. n \in c.intent
      BY <2>2, <3>2 DEF ChildIntent
    <3>4. m.tools # None /\ n.tools # None => n.tools \subseteq m.tools
      BY <3>2 DEF IntentNarrows, Narrowed
    <3>5. ASSUME n.cons # {}, NEW l \in m.cons
          PROVE  \E k \in n.cons : Plain(k) => \A call \in Calls :
                    CheckConstraints(k, call.args) => CheckConstraints(l, call.args)
      <4>1. l \in above
        OBVIOUS
      <4> HIDE DEF above
      <4>2. n.cons = {MergeNarrowing(x, k) : x \in above, k \in b.cons}
        BY <4>1 DEF Narrowed
      <4>3. PICK k \in b.cons : TRUE
        BY <3>5, <4>2
      <4>4. MergeNarrowing(l, k) \in n.cons
        BY <4>1, <4>2, <4>3
      <4>5. PrefixesMerge(l, k)
        BY <3>2, <4>3 DEF IntentNarrows
      <4>6. NumericBounds(l) /\ NumericBounds(k)
        BY <3>2, <4>3 DEF NumericIntents
      <4>7. ASSUME Plain(MergeNarrowing(l, k)), NEW call \in Calls,
                   CheckConstraints(MergeNarrowing(l, k), call.args)
            PROVE  CheckConstraints(l, call.args)
        <5>1. \A x \in DOMAIN call.args.lists : call.args.lists[x] \subseteq Int \cup {Word}
          BY CapabilityAssumption
        <5> QED BY <4>5, <4>6, <4>7, <5>1, MergeNarrows
      <4> QED BY <4>4, <4>7
    <3> HIDE DEF n
    <3> QED BY <3>3, <3>4, <3>5
  <2> QED BY <2>1, <2>2
<1> QED BY <1>1, <1>2, <1>3 DEF LinkMade

(* The intents attenuate makes have numeric bounds. *)
LEMMA ChildIntentNumeric ==
  ASSUME NEW p, NEW a, NumericIntents(p.intent), NumericIntents(a.intent)
  PROVE  NumericIntents(ChildIntent(p, a))
<1> DEFINE above == UNION {m.cons : m \in p.intent}
<1>1. \A l \in above : NumericBounds(l)
  BY DEF NumericIntents
<1>2. \A n \in a.intent : \A k \in n.cons : NumericBounds(k)
  BY DEF NumericIntents
<1>3. CASE a.intent = {}
  BY <1>3 DEF ChildIntent
<1>4. CASE a.intent # {}
  <2>1. ASSUME NEW n \in a.intent,
               NEW c \in Narrowed(n, above).cons
        PROVE  NumericBounds(c)
    <3>1. CASE above = {}
      BY <1>2, <2>1, <3>1 DEF Narrowed
    <3>2. CASE above # {}
      <4>1. PICK l \in above, k \in n.cons : c = MergeNarrowing(l, k)
        BY <2>1, <3>2 DEF Narrowed
      <4> QED BY <1>1, <1>2, <4>1, MergeKeepsNumbers
    <3> QED BY <3>1, <3>2
  <2>2. ChildIntent(p, a) = {Narrowed(n, above) : n \in a.intent}
    BY <1>4 DEF ChildIntent
  <2> HIDE DEF above
  <2> QED BY <2>1, <2>2 DEF NumericIntents
<1> QED BY <1>3, <1>4

----------------------------------------------------------------------------
(* The steps *)

LEMMA InitWell == Init => IInv
<1> SUFFICES ASSUME Init PROVE IInv
  OBVIOUS
<1>1. toks = <<>> /\ Range(toks) = {}
  BY DEF Init, Range
<1>2. toks \in Seq(Range(toks)) /\ DOMAIN toks = {}
  BY <1>1
<1>3. Well(toks)
  BY <1>2 DEF Well
<1> QED BY <1>3, CapabilityAssumption DEF Init, IInv, Ids

(* When a well-made token joins them, the ids only grow. *)
LEMMA JoinWell ==
  ASSUME NEW s, NEW t, Well(s), Well(Append(s, t))
  PROVE  DOMAIN s \subseteq DOMAIN Append(s, t)
BY AppendIs DEF Well

LEMMA NextWell == IInv /\ [Next]_vars => IInv'
<1> SUFFICES ASSUME IInv, [Next]_vars PROVE IInv'
  OBVIOUS
<1> USE DEF Ids
<1>1. /\ Well(toks) /\ registered \subseteq DOMAIN toks /\ revoked \subseteq DOMAIN toks
      /\ now \in 0 .. MaxTime /\ MaxTime \in Nat /\ now \in Int
      /\ Len(toks) \in Nat /\ DOMAIN toks = 1 .. Len(toks)
  BY CapabilityAssumption, LenProperties DEF IInv, Well
<1>2. ASSUME NEW g \in Grants PROVE g.ttl \in Int /\ g.delay \in Int /\ NumericBounds(g.cons) /\ NumericIntents(g.intent)
  BY CapabilityAssumption
<1>3. CASE \E g \in Grants : Mint(g)
  <2>1. PICK g \in Grants : Mint(g)
    BY <1>3
  <2> DEFINE t == [made |-> "mint", parent |-> 0, line |-> {}, trusted |-> g.trusted,
                   agent |-> g.agent, tool |-> g.tool, cons |-> g.cons,
                   nbf |-> now + g.delay, exp |-> now + g.ttl, actingFor |-> g.actingFor,
                   intent |-> g.intent, proof |-> g.proof,
                   policy |-> {Proofs[q].about : q \in {g.proof} \ {None}}]
  <2>2. TokenTyped(t, Len(toks) + 1)
    BY <1>1, <1>2 DEF TokenTyped
  <2>3. TokenMade(t)
    BY DEF TokenMade
  <2>4. t.line = LineIn(toks, t.parent) /\ t.made # "attenuate"
    BY DEF LineIn
  <2>5. toks' = Append(toks, t) /\ UNCHANGED <<registered, revoked, now>>
    BY <2>1 DEF Mint
  <2> HIDE DEF t
  <2>6. Well(Append(toks, t))
    BY <1>1, <2>2, <2>3, <2>4, WellGrows
  <2> QED BY <1>1, <2>5, <2>6, JoinWell DEF IInv
<1>4. CASE \E i \in Ids, g \in Grants : SignedElsewhere(i, g)
  <2>1. PICK i \in Ids, g \in Grants : SignedElsewhere(i, g)
    BY <1>4
  <2> DEFINE t == [made |-> "elsewhere", parent |-> i, line |-> Line(i), trusted |-> g.trusted,
                   agent |-> g.agent, tool |-> g.tool, cons |-> g.cons,
                   nbf |-> now + g.delay, exp |-> now + g.ttl, actingFor |-> g.actingFor,
                   intent |-> g.intent, proof |-> g.proof,
                   policy |-> {Proofs[q].about : q \in {g.proof} \ {None}}]
  <2>2. i \in 1 .. Len(toks) /\ toks[i].line \subseteq 1 .. (i - 1)
    BY <1>1 DEF Well, TokenTyped
  <2>3. Line(i) \subseteq 1 .. Len(toks) /\ Line(i) = LineIn(toks, i)
    BY <2>2 DEF Line, LineIn
  <2>4. TokenTyped(t, Len(toks) + 1)
    BY <1>1, <1>2, <2>2, <2>3 DEF TokenTyped
  <2>5. TokenMade(t)
    BY DEF TokenMade
  <2>6. t.line = LineIn(toks, t.parent) /\ t.made # "attenuate"
    BY <2>3
  <2>7. toks' = Append(toks, t) /\ UNCHANGED <<registered, revoked, now>>
    BY <2>1 DEF SignedElsewhere
  <2> HIDE DEF t
  <2>8. Well(Append(toks, t))
    BY <1>1, <2>4, <2>5, <2>6, WellGrows
  <2> QED BY <1>1, <2>7, <2>8, JoinWell DEF IInv
<1>5. CASE \E i \in Ids, a \in Asks : Attenuate(i, a)
  <2>1. PICK i \in Ids, a \in Asks : Attenuate(i, a)
    BY <1>5
  <2> DEFINE p == toks[i]
             t == [made |-> "attenuate", parent |-> i, line |-> Line(i), trusted |-> TRUE,
                   agent |-> ChildAgent(p, a), tool |-> p.tool,
                   cons |-> MergeNarrowing(p.cons, a.extra),
                   nbf |-> ChildNotBefore(p), exp |-> ChildExpiry(p, a),
                   actingFor |-> ChildActingFor(p, a), intent |-> ChildIntent(p, a),
                   proof |-> p.proof, policy |-> ChildPolicy(p)]
  <2>2. i \in 1 .. Len(toks) /\ TokenTyped(p, i)
    BY <1>1 DEF Well
  <2>3. p.nbf \in Int /\ p.exp \in Int /\ NumericBounds(p.cons) /\ NumericIntents(p.intent)
    BY <2>2 DEF TokenTyped
  <2>4. (a.ttl = None \/ a.ttl \in Int) /\ NumericBounds(a.extra) /\ NumericIntents(a.intent)
    BY CapabilityAssumption
  <2>5. Line(i) \subseteq 1 .. Len(toks) /\ Line(i) = LineIn(toks, i)
    BY <2>2 DEF Line, LineIn, TokenTyped
  <2>6. /\ Covers(p.agent, ChildAgent(p, a))
        /\ PrefixesMerge(p.cons, a.extra)
        /\ p.actingFor = None \/ a.actingFor \in {None, p.actingFor}
        /\ IntentNarrows(p, a)
        /\ ChildExpiry(p, a) <= p.exp
    BY <2>1 DEF Attenuate
  <2>7. /\ ChildExpiry(p, a) \in Int
        /\ ChildNotBefore(p) \in Int /\ ChildNotBefore(p) >= p.nbf
    BY <1>1, <2>3, <2>4 DEF ChildExpiry, ChildNotBefore, Higher
  <2>8. NumericBounds(MergeNarrowing(p.cons, a.extra)) /\ NumericIntents(ChildIntent(p, a))
    BY <2>3, <2>4, MergeKeepsNumbers, ChildIntentNumeric
  <2>9. toks' = Append(toks, t) /\ UNCHANGED <<registered, revoked, now>>
    BY <2>1 DEF Attenuate
  <2>10. /\ t.made = "attenuate" /\ t.parent = i /\ t.line = Line(i) /\ t.policy = {}
         /\ t.agent = ChildAgent(p, a) /\ t.tool = p.tool
         /\ t.cons = MergeNarrowing(p.cons, a.extra)
         /\ t.nbf = ChildNotBefore(p) /\ t.exp = ChildExpiry(p, a)
         /\ t.actingFor = ChildActingFor(p, a) /\ t.intent = ChildIntent(p, a)
    BY DEF ChildPolicy
  <2> HIDE DEF t, p
  <2>11. TokenTyped(t, Len(toks) + 1)
    BY <1>1, <2>2, <2>5, <2>7, <2>8, <2>10 DEF TokenTyped
  <2>12. TokenMade(t)
    BY <2>10 DEF TokenMade
  <2>13. LinkMade(t, p)
    BY <2>3, <2>4, <2>6, <2>7, <2>10, AttenuateLinks
  <2>14. t.parent # 0 /\ LinkMade(t, toks[t.parent])
    BY <2>2, <2>10, <2>13 DEF p
  <2>15. Well(Append(toks, t))
    BY <1>1, <2>5, <2>10, <2>11, <2>12, <2>14, WellGrows
  <2> QED BY <1>1, <2>9, <2>15, JoinWell DEF IInv
<1>6. CASE \E i \in Ids : Register(i) \/ Revoke(i)
  BY <1>1, <1>6 DEF Register, Revoke, IInv
<1>7. CASE Tick
  BY <1>1, <1>7 DEF Tick, IInv
<1>8. CASE UNCHANGED vars
  BY <1>1, <1>8 DEF vars, IInv
<1> QED BY <1>3, <1>4, <1>5, <1>6, <1>7, <1>8 DEF Next

LEMMA AlwaysWell == Spec => []IInv
BY InitWell, NextWell, PTL DEF Spec

----------------------------------------------------------------------------
(* The properties *)

LEMMA WellIsTyped == IInv => TypeOK
BY DEF IInv, Well, TokenTyped, TypeOK, Ids

(* The parent of a token of a line is on the line. *)
LEMMA ParentOnLine ==
  ASSUME NEW s, Well(s), NEW i \in DOMAIN s, NEW c \in s[i].line \cup {i}, s[c].parent # 0
  PROVE  s[c].parent \in s[i].line /\ c \in DOMAIN s /\ s[c].parent \in DOMAIN s /\ i \in Nat
<1>1. s \in Seq(Range(s)) /\ TokenTyped(s[i], i) /\ LineKept(s, i)
  BY DEF Well
<1>2. Len(s) \in Nat /\ DOMAIN s = 1 .. Len(s)
  BY <1>1, AppendIs
<1>3. c \in DOMAIN s
  BY <1>1, <1>2 DEF TokenTyped
<1>4. TokenTyped(s[c], c) /\ LineKept(s, c)
  BY <1>3 DEF Well
<1>5. s[c].parent \in s[c].line
  BY <1>4 DEF LineKept, LineIn
<1>6. s[c].line \subseteq s[i].line
  BY <1>1 DEF LineKept
<1> QED BY <1>1, <1>2, <1>3, <1>4, <1>5, <1>6 DEF TokenTyped

(* What holds of a token, and along every link of its line from the child to
   the parent, holds of the whole line. *)
LEMMA Climb ==
  ASSUME NEW s, Well(s), NEW i \in DOMAIN s, NEW G, i \in G,
         \A c \in (s[i].line \cup {i}) \cap G : s[c].parent # 0 => s[c].parent \in G
  PROVE  s[i].line \subseteq G
<1> DEFINE B == s[i].line \ G
<1>1. TokenTyped(s[i], i) /\ LineKept(s, i) /\ s \in Seq(Range(s))
  BY DEF Well
<1>2. i \in Nat /\ DOMAIN s \subseteq Nat
  BY <1>1, AppendIs
<1>3. B \in SUBSET (1 .. i)
  BY <1>1, <1>2 DEF TokenTyped
<1>4. SUFFICES ASSUME B # {} PROVE FALSE
  OBVIOUS
<1>5. PICK u \in B : \A k \in B : k <= u
  BY <1>2, <1>3, <1>4, GreatestUpTo
<1>6. PICK c \in s[i].line \cup {i} : s[c].parent = u
  BY <1>1, <1>5 DEF LineKept
<1>7. u \in 1 .. i /\ u # 0
  BY <1>3, <1>5
<1>8. c \in DOMAIN s
  BY <1>6, <1>7, ParentOnLine
<1>9. u < c
  <2>1. TokenTyped(s[c], c) /\ c \in Nat
    BY <1>2, <1>8 DEF Well
  <2> QED BY <1>6, <2>1 DEF TokenTyped
<1>10. c \in G
  BY <1>2, <1>3, <1>5, <1>6, <1>7, <1>8, <1>9
<1> QED BY <1>5, <1>6, <1>7, <1>10

(* Every token issued, of every chain, has its type. *)
THEOREM TypeCorrect == Spec => []TypeOK
BY AlwaysWell, WellIsTyped, PTL

(* The chain check of the gate never lets a chain allow what one of its tokens
   would refuse, however long it is and whoever signed its links (check,
   _verify_ancestor_chain, _attenuation_violation). *)
THEOREM ChainsNeverBroaden == Spec => []NeverBroader
<1>1. IInv => NeverBroader
  <2> SUFFICES ASSUME IInv, NEW i \in Ids, toks[i].parent # 0, Plain(toks[i].cons),
                      NEW call \in GateAllows(i)
               PROVE  \A u \in toks[i].line :
                          /\ toks[u].trusted /\ u \notin revoked
                          /\ toks[u].nbf <= now /\ now < toks[u].exp
                          /\ toks[u].tool = call.tool
                          /\ call.agent # None => Covers(toks[u].agent, call.agent)
                          /\ CheckConstraints(toks[u].cons, call.args)
    BY DEF NeverBroader
  <2> USE DEF Ids
  <2>1. Well(toks) /\ now \in Int
    BY CapabilityAssumption DEF IInv
  <2>2. /\ Identified(toks[i], i) /\ ChainVerifies(i)
        /\ call \in Calls /\ Bound(toks[i], call)
    BY DEF GateAllows
  <2> DEFINE G == {v \in Ids :
                     /\ toks[v].trusted /\ v \notin revoked
                     /\ toks[v].nbf <= now /\ now < toks[v].exp
                     /\ toks[v].tool = call.tool
                     /\ call.agent # None => Covers(toks[v].agent, call.agent)
                     /\ CheckConstraints(toks[v].cons, call.args)
                     /\ Plain(toks[v].cons)}
  <2>3. i \in G
    BY <2>2 DEF Identified, Bound
  <2>4. ASSUME NEW c \in (toks[i].line \cup {i}) \cap G, toks[c].parent # 0
        PROVE  toks[c].parent \in G
    <3> DEFINE u == toks[c].parent
               p == toks[u]
               k == toks[c]
    <3>1. c \in Ids /\ u \in Ids
      BY <2>1, <2>4, ParentOnLine
    <3>2. p.trusted /\ u \notin revoked /\ AttenuationHolds(k, p)
      BY <2>2, <2>4 DEF ChainVerifies
    <3>3. /\ k.tool = call.tool
          /\ k.nbf <= now /\ now < k.exp
          /\ call.agent # None => Covers(k.agent, call.agent)
          /\ CheckConstraints(k.cons, call.args)
          /\ Plain(k.cons)
      BY <2>4
    <3>4. /\ p.nbf \in Int /\ p.exp \in Int /\ NumericBounds(p.cons)
          /\ k.nbf \in Int /\ k.exp \in Int /\ NumericBounds(k.cons)
      BY <2>1, <3>1 DEF Well, TokenTyped
    <3> HIDE DEF k, p, u
    <3>5. /\ k.tool = p.tool /\ Covers(p.agent, k.agent)
          /\ k.exp <= p.exp /\ k.nbf >= p.nbf
          /\ PrefixesMerge(p.cons, k.cons) /\ MergeNarrowing(p.cons, k.cons) = k.cons
      BY <3>2 DEF AttenuationHolds
    <3>6. p.nbf <= now /\ now < p.exp
      BY <2>1, <3>3, <3>4, <3>5
    <3>7. call.agent # None => Covers(p.agent, call.agent)
      BY <3>3, <3>5, LeadsOn DEF Covers
    <3>8. CheckConstraints(p.cons, call.args) /\ Plain(p.cons)
      <4>1. \A x \in DOMAIN call.args.lists : call.args.lists[x] \subseteq Int \cup {Word}
        BY <2>2, CapabilityAssumption
      <4> QED BY <3>3, <3>4, <3>5, <4>1, MergeNarrows
    <3>9. u \in G
      BY <3>1, <3>2, <3>3, <3>5, <3>6, <3>7, <3>8 DEF p
    <3> QED BY <3>9 DEF u
  <2>5. toks[i].line \subseteq G
    <3> HIDE DEF G
    <3> QED BY <2>1, <2>3, <2>4, Climb
  <2> QED BY <2>5
<1> QED BY <1>1, AlwaysWell, PTL

(* However often a token is attenuated, the chain check of the gate accepts
   what attenuate signs, but for lists with duplicates (attenuate against
   _attenuation_violation). *)
LEMMA HonestVerifies == IInv => AttenuatedVerifies
<1> SUFFICES ASSUME IInv, NEW i \in Ids, Attenuated(i),
                    \A u \in toks[i].line : u \in registered \ revoked /\ toks[u].trusted
             PROVE  ChainVerifies(i) <=>
                      \A c \in toks[i].line \cup {i} : toks[c].parent # 0 => NoDuplicates(toks[c].cons)
  BY DEF AttenuatedVerifies
<1> USE DEF Ids
<1>1. Well(toks)
  BY DEF IInv
<1>2. ASSUME NEW c \in toks[i].line \cup {i}, toks[c].parent # 0
      PROVE  /\ toks[c].parent \in registered
             /\ toks[toks[c].parent].trusted
             /\ toks[c].parent \notin revoked
             /\ AttenuationHolds(toks[c], toks[toks[c].parent]) <=> NoDuplicates(toks[c].cons)
  <2>1. toks[c].parent \in toks[i].line /\ c \in Ids
    BY <1>1, <1>2, ParentOnLine
  <2>2. toks[c].made = "attenuate"
    <3>1. toks[c].made # "elsewhere"
      BY DEF Attenuated
    <3>2. TokenTyped(toks[c], c) /\ TokenMade(toks[c])
      BY <1>1, <2>1 DEF Well
    <3> QED BY <1>2, <3>1, <3>2 DEF TokenTyped, TokenMade
  <2>3. LinkMade(toks[c], toks[toks[c].parent])
    BY <1>1, <2>1, <2>2 DEF Well
  <2>4. AttenuationHolds(toks[c], toks[toks[c].parent]) => NoDuplicates(toks[c].cons)
    BY MergedOnce DEF AttenuationHolds
  <2> QED BY <2>1, <2>3, <2>4 DEF LinkMade
<1> QED BY <1>2 DEF ChainVerifies

(* Along attenuations the paired user and the intents of the ancestors hold of
   every call the gate allows (_narrow_acting_for, _narrow_intent). *)
LEMMA HonestKeepsPurpose == IInv => PurposeKept
<1> SUFFICES ASSUME IInv, NEW i \in Ids, toks[i].parent # 0, Attenuated(i),
                    \A c \in toks[i].line \cup {i} :
                       toks[c].parent # 0 => WholeIntent(toks[c], toks[toks[c].parent]),
                    NEW call \in GateAllows(i)
             PROVE  \A u \in toks[i].line :
                       /\ toks[u].actingFor # None => call.actingFor = toks[u].actingFor
                       /\ InIntent(toks[u], call)
  BY DEF PurposeKept
<1> USE DEF Ids
<1>1. Well(toks)
  BY DEF IInv
<1>2. call \in Calls /\ Bound(toks[i], call) /\ InIntent(toks[i], call)
  BY DEF GateAllows
<1> DEFINE G == {v \in Ids : /\ toks[v].actingFor # None => call.actingFor = toks[v].actingFor
                             /\ InIntent(toks[v], call)}
<1>3. i \in G
  BY <1>2 DEF Bound
<1>4. ASSUME NEW c \in (toks[i].line \cup {i}) \cap G, toks[c].parent # 0
      PROVE  toks[c].parent \in G
  <2> DEFINE u == toks[c].parent
             p == toks[u]
             k == toks[c]
  <2>1. c \in Ids /\ u \in Ids
    BY <1>1, <1>4, ParentOnLine
  <2>2. k.made = "attenuate"
    <3>1. k.made # "elsewhere"
      BY DEF Attenuated
    <3>2. TokenTyped(k, c) /\ TokenMade(k)
      BY <1>1, <2>1 DEF Well
    <3> QED BY <1>4, <3>1, <3>2 DEF TokenTyped, TokenMade
  <2>3. LinkMade(k, p)
    BY <1>1, <2>1, <2>2 DEF Well
  <2>4. WholeIntent(k, p)
    BY <1>4
  <2>5. (k.actingFor # None => call.actingFor = k.actingFor) /\ InIntent(k, call)
    BY <1>4
  <2> HIDE DEF k, p, u
  <2>6. p.actingFor # None => call.actingFor = p.actingFor
    BY <2>3, <2>5 DEF LinkMade
  <2>7. ASSUME NEW m \in p.intent
        PROVE  (m.tools # None => p.tool \in m.tools) /\ \A l \in m.cons : CheckConstraints(l, call.args)
    <3>1. PICK n \in k.intent :
             /\ m.tools # None /\ n.tools # None => n.tools \subseteq m.tools
             /\ n.cons # {} => \A l \in m.cons : \E x \in n.cons :
                   Plain(x) => \A cl \in Calls : CheckConstraints(x, cl.args) => CheckConstraints(l, cl.args)
      BY <2>3 DEF LinkMade, IntentKept
    <3>2. /\ m.tools # None => n.tools # None
          /\ m.cons # {} => n.cons # {} /\ \A x \in n.cons : Plain(x)
      BY <2>4 DEF WholeIntent
    <3>3. (n.tools # None => k.tool \in n.tools) /\ \A x \in n.cons : CheckConstraints(x, call.args)
      BY <2>5 DEF InIntent
    <3>4. k.tool = p.tool
      BY <2>3 DEF LinkMade
    <3>5. m.tools # None => p.tool \in m.tools
      BY <3>1, <3>2, <3>3, <3>4
    <3>6. ASSUME NEW l \in m.cons PROVE CheckConstraints(l, call.args)
      BY <1>2, <3>1, <3>2, <3>3
    <3> QED BY <3>5, <3>6
  <2>8. InIntent(p, call)
    BY <2>7 DEF InIntent
  <2>9. u \in G
    BY <2>1, <2>6, <2>8 DEF p
  <2> QED BY <2>9 DEF u
<1>5. toks[i].line \subseteq G
  <2> HIDE DEF G
  <2> QED BY <1>1, <1>3, <1>4, Climb
<1> QED BY <1>5

(* A strict gate allows only what is under constraints a trusted proof is
   about (_check_proof_binding). *)
LEMMA StrictIsProven == IInv => StrictMeansProven
<1> SUFFICES ASSUME IInv, config.proofs = "strict", NEW i \in Ids, GateAllows(i) # {}
             PROVE  /\ toks[i].made # "attenuate"
                    /\ \E p \in Known : /\ Proofs[p].status = "PROVEN"
                                        /\ Proofs[p].about = toks[i].cons
  BY DEF StrictMeansProven
<1> DEFINE t == toks[i]
<1>1. ProofBinds(t)
  BY DEF GateAllows
<1>2. TokenMade(t)
  BY DEF IInv, Well, Ids
<1> HIDE DEF t
<1>3. /\ t.proof # None /\ t.proof \in Known
      /\ Proofs[t.proof].status = "PROVEN"
      /\ t.policy = {t.cons}
  BY <1>1 DEF ProofBinds
<1>4. t.made # "attenuate"
  BY <1>2, <1>3 DEF TokenMade
<1>5. {t.cons} = {Proofs[q].about : q \in {t.proof} \ {None}}
  BY <1>2, <1>3, <1>4 DEF TokenMade
<1>6. Proofs[t.proof].about = t.cons
  BY <1>3, <1>5
<1> QED BY <1>3, <1>4, <1>6 DEF t

(* What attenuate promises: its tokens verify, keep the user and the intent of
   every ancestor, and are nothing a strict gate serves. *)
THEOREM AttenuationIsKept == Spec => []AttenuationKeeps
<1>1. IInv => AttenuationKeeps
  BY HonestVerifies, HonestKeepsPurpose, StrictIsProven DEF AttenuationKeeps
<1> QED BY <1>1, AlwaysWell, PTL

----------------------------------------------------------------------------
(* The verifiers that stand apart *)

(* Merging keeps the shape of constraints. *)
LEMMA MergeKeepsShape ==
  ASSUME NEW p, NEW e, Shaped(p), Shaped(e)
  PROVE  Shaped(MergeNarrowing(p, e))
<1> DEFINE m == MergeNarrowing(p, e)
<1>1. /\ m.starts = Merged(p.starts, e.starts, Later)
      /\ m.allowed = Merged(p.allowed, Deduplicated(e.allowed), IntersectValues)
  BY DEF MergeNarrowing
<1> HIDE DEF m
<1>2. ASSUME NEW x \in DOMAIN m.starts PROVE Text(m.starts[x])
  <2>1. \/ x \in DOMAIN p.starts /\ m.starts[x] = p.starts[x]
        \/ x \in DOMAIN e.starts /\ m.starts[x] = e.starts[x]
    BY <1>1, <1>2 DEF Merged, Later
  <2> QED BY <2>1 DEF Shaped
<1>3. ASSUME NEW x \in DOMAIN m.allowed PROVE Word \notin DOMAIN m.allowed[x]
  <2>1. \A y \in DOMAIN e.allowed : DOMAIN Deduplicated(e.allowed)[y] = DOMAIN e.allowed[y]
    BY DEF Deduplicated, Once
  <2>2. DOMAIN Deduplicated(e.allowed) = DOMAIN e.allowed
    BY DEF Deduplicated
  <2>3. \/ x \in DOMAIN p.allowed /\ m.allowed[x] = p.allowed[x]
        \/ x \in DOMAIN e.allowed /\ m.allowed[x] = Deduplicated(e.allowed)[x]
        \/ /\ x \in DOMAIN p.allowed
           /\ m.allowed[x] = IntersectValues(p.allowed[x], Deduplicated(e.allowed)[x])
    BY <1>1, <1>3, <2>2 DEF Merged
  <2>4. \A a, b : DOMAIN IntersectValues(a, b) \subseteq DOMAIN a
    BY DEF IntersectValues, Once
  <2>5. CASE x \in DOMAIN e.allowed /\ m.allowed[x] = Deduplicated(e.allowed)[x]
    BY <2>1, <2>5 DEF Shaped
  <2>6. CASE x \in DOMAIN p.allowed /\ DOMAIN m.allowed[x] \subseteq DOMAIN p.allowed[x]
    BY <2>6 DEF Shaped
  <2> QED BY <2>3, <2>4, <2>5, <2>6
<1>4. Shaped(m)
  BY <1>2, <1>3 DEF Shaped
<1> QED BY <1>4 DEF m

(* No token has a constraint of another shape. *)
AllShaped == \A i \in Ids : Shaped(toks[i].cons)

(* The constraints of every token keep the shape of those it was made from. *)
LEMMA AlwaysShaped == Spec => []AllShaped
<1>1. Init => AllShaped
  BY DEF Init, AllShaped, Ids
<1>2. IInv /\ AllShaped /\ [Next]_vars => AllShaped'
  <2> SUFFICES ASSUME IInv, AllShaped, [Next]_vars PROVE AllShaped'
    OBVIOUS
  <2>1. toks \in Seq(Range(toks))
    BY DEF IInv, Well
  <2>2. ASSUME NEW t, toks' = Append(toks, t), Shaped(t.cons) PROVE AllShaped'
    BY <2>1, <2>2, AppendIs DEF AllShaped, Ids
  <2>3. ASSUME toks' = toks PROVE AllShaped'
    BY <2>3 DEF AllShaped, Ids
  <2>4. ASSUME NEW g \in Grants, Mint(g) PROVE AllShaped'
    BY <2>2, <2>4, ShapeAssumption DEF Mint
  <2>5. ASSUME NEW i \in Ids, NEW a \in Asks, Attenuate(i, a) PROVE AllShaped'
    <3>1. Shaped(MergeNarrowing(toks[i].cons, a.extra))
      BY ShapeAssumption, MergeKeepsShape DEF AllShaped
    <3> QED BY <2>2, <2>5, <3>1 DEF Attenuate
  <2>6. ASSUME NEW i \in Ids, NEW g \in Grants, SignedElsewhere(i, g) PROVE AllShaped'
    BY <2>2, <2>6, ShapeAssumption DEF SignedElsewhere
  <2>7. CASE \E i \in Ids : Register(i) \/ Revoke(i)
    BY <2>3, <2>7 DEF Register, Revoke
  <2>8. CASE Tick \/ UNCHANGED vars
    BY <2>3, <2>8 DEF Tick, vars
  <2> QED BY <2>4, <2>5, <2>6, <2>7, <2>8 DEF Next
<1> QED BY <1>1, <1>2, AlwaysWell, PTL DEF Spec

(* Where no dot segment is to be resolved, the gate reads a prefix as the
   verifiers do (_check_starts_with against str.startswith). *)
LEMMA PlainPrefixes ==
  ASSUME NEW text, NEW prefix, Text(text), Text(prefix),
         Up \notin Range(text.path), prefix.file => Up \notin Range(prefix.path)
  PROVE  StartsWith(text, prefix) <=> Begins(text, prefix)
<1>1. CASE text.file /\ prefix.file
  <2>1. Canonical(text.path) = text.path /\ Canonical(prefix.path) = prefix.path
    BY <1>1 DEF Canonical
  <2> QED BY <1>1, <2>1 DEF StartsWith, Begins, Text
<1>2. CASE ~(text.file /\ prefix.file)
  BY <1>2 DEF StartsWith
<1> QED BY <1>1, <1>2

(* The constraint check of cap-verifier and that of the gate then agree. *)
LEMMA LiteralAgrees ==
  ASSUME NEW c, NEW args, Shaped(c), Plain(c),
         \A x \in DOMAIN args.texts : Text(args.texts[x]) /\ Up \notin Range(args.texts[x].path)
  PROVE  LiteralConstraints(c, args) <=> CheckConstraints(c, args)
<1>1. ASSUME NEW x \in DOMAIN c.starts, x \in DOMAIN args.texts
      PROVE  StartsWith(args.texts[x], c.starts[x]) <=> Begins(args.texts[x], c.starts[x])
  BY <1>1, PlainPrefixes DEF Shaped, Plain
<1> QED BY <1>1, Zenon DEF LiteralConstraints, CheckConstraints

(* On every token the two come to the same conclusion. *)
LEMMA VerifierOnToken ==
  ASSUME NEW i, i \in Ids, AllShaped
  PROVE  VerifierAgrees(i)
<1> SUFFICES ASSUME NEW call \in Calls
             PROVE  LET t == toks[i]
                        gate == t.trusted /\ t.nbf <= now /\ now < t.exp /\ Bound(t, call) /\ InIntent(t, call)
                    IN  /\ CapVerifierAccepts(t, call) => t.parent = 0 /\ BodyMatches(t)
                        /\ t.parent = 0 /\ BodyMatches(t) /\ NoDotSegments(t, call)
                             => (CapVerifierAccepts(t, call) <=> gate)
  BY DEF VerifierAgrees
<1> DEFINE t == toks[i]
<1>1. Shaped(t.cons)
  BY DEF AllShaped
<1> HIDE DEF t
<1>2. CapVerifierAccepts(t, call) => t.parent = 0 /\ BodyMatches(t)
  BY DEF CapVerifierAccepts
<1>3. ASSUME t.parent = 0, BodyMatches(t), NoDotSegments(t, call)
      PROVE  CapVerifierAccepts(t, call) <=>
                t.trusted /\ t.nbf <= now /\ now < t.exp /\ Bound(t, call) /\ InIntent(t, call)
  <2>1. \A x \in DOMAIN call.args.texts :
           Text(call.args.texts[x]) /\ Up \notin Range(call.args.texts[x].path)
    BY <1>3, ShapeAssumption DEF NoDotSegments
  <2>2. LiteralConstraints(t.cons, call.args) <=> CheckConstraints(t.cons, call.args)
    BY <1>1, <1>3, <2>1, LiteralAgrees DEF NoDotSegments
  <2>3. t.intent = {} /\ t.actingFor = None
    BY <1>3 DEF BodyMatches
  <2>4. InIntent(t, call)
    BY <2>3 DEF InIntent
  <2> QED BY <1>3, <2>2, <2>3, <2>4, Zenon DEF CapVerifierAccepts, Bound
<1> QED BY <1>2, <1>3 DEF t

(* A kind is reported VIOLATED only for a disclosed field that fails. *)
LEMMA ViolatedFails ==
  ASSUME NEW c, NEW args, NEW kind, RecheckKind(c, args, kind) = "VIOLATED"
  PROVE  \E x \in DOMAIN c[kind] : FieldState(c, args, kind, x) = "fails"
<1> DEFINE S == {FieldState(c, args, kind, x) : x \in DOMAIN c[kind]}
<1>1. Verdict(S) = "VIOLATED"
  BY DEF RecheckKind
<1> HIDE DEF S
<1>2. "fails" \in S
  BY <1>1 DEF Verdict
<1> QED BY <1>2 DEF S

(* A kind reported SATISFIED has every field disclosed and passing. *)
LEMMA SatisfiedPasses ==
  ASSUME NEW c, NEW args, NEW kind, RecheckKind(c, args, kind) = "SATISFIED", NEW x \in DOMAIN c[kind]
  PROVE  FieldState(c, args, kind, x) \notin {"raises", "fails", "undisclosed"}
<1> DEFINE S == {FieldState(c, args, kind, y) : y \in DOMAIN c[kind]}
<1>1. Verdict(S) = "SATISFIED"
  BY DEF RecheckKind
<1>2. FieldState(c, args, kind, x) \in S
  OBVIOUS
<1> HIDE DEF S
<1>3. {"raises", "fails", "undisclosed"} \cap S = {}
  BY <1>1 DEF Verdict
<1> QED BY <1>2, <1>3

(* The field of a disclosure is that of the call. *)
LEMMA RestrictedIs ==
  ASSUME NEW args, NEW fields, NEW x \in Present(Restricted(args, fields))
  PROVE  /\ x \in Present(args)
         /\ x \in DOMAIN Restricted(args, fields).texts <=> x \in DOMAIN args.texts
         /\ Scalars(Restricted(args, fields), x) = Scalars(args, x)
         /\ x \in DOMAIN args.texts => Restricted(args, fields).texts[x] = args.texts[x]
<1> DEFINE r == Restricted(args, fields)
<1>1. /\ r.lists = [y \in DOMAIN args.lists \cap fields |-> args.lists[y]]
      /\ r.texts = [y \in DOMAIN args.texts \cap fields |-> args.texts[y]]
  BY DEF Restricted
<1>2. x \in DOMAIN r.lists \cup DOMAIN r.texts
  BY DEF Present
<1> HIDE DEF r
<1>3. x \in fields
  BY <1>1, <1>2
<1>4. x \in Present(args)
  BY <1>1, <1>2 DEF Present
<1>5. x \in DOMAIN r.texts <=> x \in DOMAIN args.texts
  BY <1>1, <1>3
<1>6. Scalars(r, x) = Scalars(args, x)
  BY <1>1, <1>2, <1>3 DEF Scalars
<1>7. x \in DOMAIN args.texts => r.texts[x] = args.texts[x]
  BY <1>1, <1>3
<1> QED BY <1>4, <1>5, <1>6, <1>7 DEF r

(* Arguments of one value each have one scalar per field. *)
LEMMA OneScalar ==
  ASSUME NEW args, AllSingle(args), NEW x \in Present(args)
  PROVE  Scalars(args, x) = {Disclosed(args, x)}
<1>1. PICK v : Scalars(args, x) = {v}
  BY DEF AllSingle, Scalars, Present
<1>2. Disclosed(args, x) = v
  BY <1>1 DEF Disclosed
<1> QED BY <1>1, <1>2

(* A call that a disclosure of it is reported to violate, the gate refuses. *)
LEMMA ViolatedRefused ==
  ASSUME NEW c, Shaped(c), Plain(c), NoEmptyPrefix(c), NEW args, AllSingle(args),
         \A x \in DOMAIN args.texts : Text(args.texts[x]) /\ Up \notin Range(args.texts[x].path),
         NEW fields, "VIOLATED" \in Recheck(c, Restricted(args, fields)),
         CheckConstraints(c, args)
  PROVE  FALSE
<1> DEFINE r == Restricted(args, fields)
<1> HIDE DEF r
<1>1. Recheck(c, r) = {RecheckKind(c, r, kind) : kind \in {"allowed", "forbidden", "max", "min", "starts"}}
                          \cup {RecheckRequired(c, r), RecheckCombos(c, r)}
  BY DEF Recheck
<1>2. RecheckRequired(c, r) # "VIOLATED"
  BY DEF RecheckRequired
<1>3. \/ \E kind \in {"allowed", "forbidden", "max", "min", "starts"} : RecheckKind(c, r, kind) = "VIOLATED"
      \/ RecheckCombos(c, r) = "VIOLATED"
  BY <1>1, <1>2 DEF r
<1>4. ASSUME NEW kind \in {"allowed", "forbidden", "max", "min", "starts"}, RecheckKind(c, r, kind) = "VIOLATED"
      PROVE  FALSE
  <2>1. PICK x \in DOMAIN c[kind] : FieldState(c, r, kind, x) = "fails"
    BY <1>4, ViolatedFails
  <2> DEFINE v == Disclosed(r, x)
  <2>2. x \in Present(r) /\ ~(kind \in {"max", "min"} /\ v = Word)
    BY <2>1 DEF FieldState
  <2>3. /\ x \in Present(args)
        /\ Scalars(args, x) = {v}
        /\ x \in DOMAIN r.texts <=> x \in DOMAIN args.texts
        /\ x \in DOMAIN args.texts => r.texts[x] = args.texts[x]
    <3>1. /\ x \in Present(args)
          /\ Scalars(r, x) = Scalars(args, x)
          /\ x \in DOMAIN r.texts <=> x \in DOMAIN args.texts
          /\ x \in DOMAIN args.texts => r.texts[x] = args.texts[x]
      BY <2>2, RestrictedIs DEF r
    <3>2. Scalars(args, x) = {Disclosed(args, x)}
      BY <3>1, OneScalar
    <3>3. v = Disclosed(args, x)
      BY <3>1 DEF Disclosed
    <3> QED BY <3>1, <3>2, <3>3
  <2> HIDE DEF v
  <2>4. CASE kind = "allowed"
    <3>1. v \notin DOMAIN c.allowed[x]
      BY <2>1, <2>2, <2>4 DEF FieldState, Outcome, v
    <3> QED BY <2>3, <2>4, <3>1 DEF CheckConstraints
  <2>5. CASE kind = "forbidden"
    <3>1. v \in DOMAIN c.forbidden[x]
      BY <2>1, <2>2, <2>5 DEF FieldState, Outcome, v
    <3> QED BY <2>3, <2>5, <3>1 DEF CheckConstraints
  <2>6. CASE kind = "max"
    <3>1. ~(v <= c.max[x])
      BY <2>1, <2>2, <2>6 DEF FieldState, Outcome, v
    <3> QED BY <2>3, <2>6, <3>1 DEF CheckConstraints
  <2>7. CASE kind = "min"
    <3>1. ~(v >= c.min[x])
      BY <2>1, <2>2, <2>7 DEF FieldState, Outcome, v
    <3> QED BY <2>3, <2>7, <3>1 DEF CheckConstraints
  <2>8. CASE kind = "starts"
    <3>1. ~(x \in DOMAIN r.texts /\ StartsWithAny(r.texts[x], c.starts[x]))
      BY <2>1, <2>2, <2>8 DEF FieldState, Outcome
    <3>2. x \in DOMAIN args.texts /\ StartsWith(args.texts[x], c.starts[x])
      BY <2>8 DEF CheckConstraints
    <3> DEFINE text == args.texts[x]
               prefix == c.starts[x]
    <3>3. ~StartsWithAny(text, prefix)
      BY <2>3, <3>1, <3>2
    <3>4. Text(text) /\ Text(prefix) /\ (prefix.file \/ prefix.path # <<>>)
      BY <2>8, <3>2 DEF Shaped, NoEmptyPrefix
    <3>5. Begins(text, prefix)
      BY <2>8, <3>2, <3>4, PlainPrefixes DEF Plain
    <3> HIDE DEF text, prefix
    <3>6. ~text.file /\ ~prefix.file /\ prefix.path # <<>> /\ Leads(prefix.path, text.path)
      BY <3>3, <3>4, <3>5 DEF Begins, StartsWithAny, Text
    <3>7. prefix.path \in Seq(Range(prefix.path)) /\ prefix.path # <<>>
      BY <3>4, <3>6 DEF Text
    <3>8. 1 \in DOMAIN prefix.path
      BY <3>7
    <3>9. 1 \in DOMAIN text.path /\ text.path[1] = prefix.path[1]
      BY <3>6, <3>8 DEF Leads
    <3>10. text.path # <<>>
      BY <3>9
    <3> QED BY <3>3, <3>6, <3>8, <3>9, <3>10 DEF StartsWithAny, Range
  <2> QED BY <2>4, <2>5, <2>6, <2>7, <2>8
<1>5. ASSUME RecheckCombos(c, r) = "VIOLATED" PROVE FALSE
  <2> DEFINE Combo(k) == IF ~(DOMAIN k \subseteq Present(r)) THEN "UNKNOWN"
                         ELSE IF \A x \in DOMAIN k : Truthy(r, x) THEN "VIOLATED" ELSE "SATISFIED"
             all == {Combo(k) : k \in Listed(c.combos)}
  <2>1. RecheckCombos(c, r) = IF "VIOLATED" \in all THEN "VIOLATED"
                              ELSE IF all \subseteq {"SATISFIED"} THEN "SATISFIED" ELSE "UNKNOWN"
    BY DEF RecheckCombos
  <2> HIDE DEF all
  <2>2. "VIOLATED" \in all
    BY <1>5, <2>1
  <2> USE DEF all
  <2>3. PICK k \in Listed(c.combos) : Combo(k) = "VIOLATED"
    BY <2>2
  <2>4. DOMAIN k \subseteq Present(r)
    BY <2>3
  <2>5. DOMAIN k \subseteq Present(args)
    BY <2>4, RestrictedIs DEF r
  <2> QED BY <2>5 DEF CheckConstraints
<1> QED BY <1>3, <1>4, <1>5

(* A call disclosed whole that satisfies every kind, the gate accepts. *)
LEMMA SatisfiedAccepted ==
  ASSUME NEW c, Shaped(c), c.starts = <<>>, NEW args, AllSingle(args),
         Recheck(c, args) = {"SATISFIED"},
         \A x \in Present(args) : Truthy(args, x)
  PROVE  CheckConstraints(c, args)
<1>1. ASSUME NEW kind \in {"allowed", "forbidden", "max", "min", "starts"}, NEW x \in DOMAIN c[kind]
      PROVE  FieldState(c, args, kind, x) \notin {"raises", "fails", "undisclosed"}
  <2>1. RecheckKind(c, args, kind) = "SATISFIED"
    BY DEF Recheck
  <2> QED BY <2>1, SatisfiedPasses
<1>2. RecheckRequired(c, args) = "SATISFIED" /\ RecheckCombos(c, args) = "SATISFIED"
  BY DEF Recheck
<1>3. ASSUME NEW kind \in {"allowed", "forbidden", "max", "min", "starts"}, NEW x \in DOMAIN c[kind]
      PROVE  x \in Present(args) /\ Scalars(args, x) = {Disclosed(args, x)}
  <2>1. x \in Present(args)
    BY <1>1 DEF FieldState
  <2> QED BY <2>1, OneScalar
<1>4. ASSUME NEW x \in DOMAIN c.forbidden, x \in Present(args)
      PROVE  Scalars(args, x) \cap DOMAIN c.forbidden[x] = {}
  <2>1. x \in DOMAIN c["forbidden"]
    OBVIOUS
  <2>2. Disclosed(args, x) \notin DOMAIN c.forbidden[x]
    BY <1>1, <1>3, <2>1 DEF FieldState, Outcome
  <2> QED BY <1>3, <2>1, <2>2
<1>5. ASSUME NEW x \in DOMAIN c.allowed
      PROVE  HasNumbers(args, x) /\ Scalars(args, x) \subseteq DOMAIN c.allowed[x]
  <2>1. x \in DOMAIN c["allowed"]
    OBVIOUS
  <2>2. Disclosed(args, x) \in DOMAIN c.allowed[x]
    BY <1>1, <1>3, <2>1 DEF FieldState, Outcome
  <2>3. Disclosed(args, x) # Word
    BY <2>2 DEF Shaped
  <2> QED BY <1>3, <2>1, <2>2, <2>3 DEF HasNumbers
<1>6. ASSUME NEW x \in DOMAIN c.max
      PROVE  HasNumbers(args, x) /\ \A v \in Scalars(args, x) : v <= c.max[x]
  <2>1. x \in DOMAIN c["max"]
    OBVIOUS
  <2>2. Disclosed(args, x) # Word /\ Disclosed(args, x) <= c.max[x]
    BY <1>1, <1>3, <2>1 DEF FieldState, Outcome
  <2> QED BY <1>3, <2>1, <2>2 DEF HasNumbers
<1>7. ASSUME NEW x \in DOMAIN c.min
      PROVE  HasNumbers(args, x) /\ \A v \in Scalars(args, x) : v >= c.min[x]
  <2>1. x \in DOMAIN c["min"]
    OBVIOUS
  <2>2. Disclosed(args, x) # Word /\ Disclosed(args, x) >= c.min[x]
    BY <1>1, <1>3, <2>1 DEF FieldState, Outcome
  <2> QED BY <1>3, <2>1, <2>2 DEF HasNumbers
<1>8. Listed(c.required) \subseteq Present(args)
  BY <1>2 DEF RecheckRequired
<1>9. ASSUME NEW k \in Listed(c.combos) PROVE ~(DOMAIN k \subseteq Present(args))
  <2> DEFINE Combo(l) == IF ~(DOMAIN l \subseteq Present(args)) THEN "UNKNOWN"
                         ELSE IF \A x \in DOMAIN l : Truthy(args, x) THEN "VIOLATED" ELSE "SATISFIED"
             all == {Combo(l) : l \in Listed(c.combos)}
  <2>1. RecheckCombos(c, args) = IF "VIOLATED" \in all THEN "VIOLATED"
                                 ELSE IF all \subseteq {"SATISFIED"} THEN "SATISFIED" ELSE "UNKNOWN"
    BY DEF RecheckCombos
  <2> HIDE DEF all
  <2>2. "VIOLATED" \notin all
    BY <1>2, <2>1
  <2> USE DEF all
  <2>3. Combo(k) # "VIOLATED"
    BY <2>2
  <2> QED BY <2>3
<1>10. DOMAIN c.starts = {}
  OBVIOUS
<1> QED BY <1>4, <1>5, <1>6, <1>7, <1>8, <1>9, <1>10 DEF CheckConstraints

(* On every token the re-check is fair. *)
LEMMA RecheckOnToken ==
  ASSUME NEW i, i \in Ids, AllShaped
  PROVE  RecheckFair(i)
<1> DEFINE c == toks[i].cons
<1>1. Shaped(c)
  BY DEF AllShaped
<1>2. ASSUME NEW call \in Calls, AllSingle(call.args), NEW fields \in SUBSET Present(call.args),
             "VIOLATED" \in Recheck(c, Restricted(call.args, fields)), NoDotSegments(toks[i], call),
             NoEmptyPrefix(c), CheckConstraints(c, call.args)
      PROVE  FALSE
  <2>1. Plain(c) /\ \A x \in DOMAIN call.args.texts :
           Text(call.args.texts[x]) /\ Up \notin Range(call.args.texts[x].path)
    BY <1>2, ShapeAssumption DEF NoDotSegments
  <2> HIDE DEF c
  <2> QED BY <1>1, <1>2, <2>1, ViolatedRefused
<1>3. ASSUME NEW call \in Calls, AllSingle(call.args), Recheck(c, call.args) = {"SATISFIED"}, c.starts = <<>>,
             \A x \in Present(call.args) : Truthy(call.args, x)
      PROVE  CheckConstraints(c, call.args)
  <2> HIDE DEF c
  <2> QED BY <1>1, <1>3, SatisfiedAccepted
<1> QED BY <1>2, <1>3 DEF RecheckFair

(* For every token of every chain: cap-verifier accepts a root token for a call
   exactly when the gate's own checks do, and no token with a parent, a user or
   an intent; a re-check of disclosed arguments contradicts no decision of the
   gate (_verify_token_impl, recheck_constraints). *)
THEOREM VerifiersAgree == Spec => [](VerifiersConcur /\ \A i \in Ids : VerifierAgrees(i) /\ RecheckFair(i))
<1>1. AllShaped => \A i \in Ids : VerifierAgrees(i) /\ RecheckFair(i)
  BY VerifierOnToken, RecheckOnToken
<1>2. IInv /\ AllShaped => VerifiersConcur
  <2> SUFFICES ASSUME IInv, AllShaped PROVE VerifiersConcur
    OBVIOUS
  <2>1. toks \in Seq(Range(toks)) /\ Len(toks) \in Nat /\ Ids = 1 .. Len(toks)
    BY LenProperties DEF IInv, Well, Ids
  <2>2. toks # <<>> => Len(toks) \in Ids
    BY <2>1
  <2>3. Len(toks) = 1 => 1 \in Ids
    BY <2>1
  <2> QED BY <1>1, <2>2, <2>3 DEF VerifiersConcur
<1> QED BY <1>1, <1>2, AlwaysWell, AlwaysShaped, PTL
=============================================================================
