------------------------------ MODULE DataFacts ------------------------------
(****************************************************************************)
(* Facts about the data several components keep.                            *)
(*                                                                          *)
(* Sums: SumFunctionOnSet of the community modules, over a finite set; the  *)
(* accounts of a component add up item by item, in whatever order.  It is a *)
(* recursive function over the subsets of its set.  For weights that are    *)
(* natural numbers its value is the number of units <<x, i>> with           *)
(* i \in 1 .. w[x]; that function of a subset satisfies the recursion, so   *)
(* there is one that does, and a smallest subset on which two such          *)
(* functions differ cannot exist.                                           *)
(*                                                                          *)
(* Queues: which items they have after an item is appended or taken, two    *)
(* are joined, one is reversed or filtered, and that each item stays in     *)
(* them once.  Kept is a recursive function of the position.  That there is *)
(* one, and what it computes, is shown with a smallest position that has no *)
(* such value: a set of numbers has a least one.                            *)
(****************************************************************************)
EXTENDS SequencesExt, Queues, FiniteSetTheorems, SequenceTheorems,
        WellFoundedInduction, TLAPS

------------------------------------------------------------------------------
(* Sums *)

Units(w, S) == UNION {{x} \X (1 .. w[x]) : x \in S}

\* One item more has as many units more as it weighs.
LEMMA UnitsOfItem ==
  ASSUME NEW w, NEW x, w[x] \in Nat
  PROVE  IsFiniteSet({x} \X (1 .. w[x])) /\ Cardinality({x} \X (1 .. w[x])) = w[x]
<1>1. IsFiniteSet({x}) /\ Cardinality({x}) = 1
  BY FS_Singleton
<1>2. IsFiniteSet(1 .. w[x]) /\ Cardinality(1 .. w[x]) = w[x]
  BY FS_Interval
<1> DEFINE I == 1 .. w[x]
<1> HIDE DEF I
<1>3. IsFiniteSet({x} \X I) /\ Cardinality({x} \X I) = Cardinality({x}) * Cardinality(I)
  BY <1>1, <1>2, FS_Product DEF I
<1>4. Cardinality({x}) * Cardinality(I) = w[x]
  BY <1>1, <1>2 DEF I
<1>5. QED BY <1>3, <1>4 DEF I

\* A finite set of items has finitely many units.
LEMMA UnitsFinite ==
  ASSUME NEW S, IsFiniteSet(S), NEW w, \A x \in S : w[x] \in Nat
  PROVE  IsFiniteSet(Units(w, S)) /\ Cardinality(Units(w, S)) \in Nat
<1> DEFINE U == [x \in S |-> {x} \X (1 .. w[x])]
           T == {U[x] : x \in S}
<1>1. U \in Surjection(S, T)
  BY DEF Surjection
<1>2. IsFiniteSet(T)
  BY <1>1, FS_Surjection
<1>3. \A t \in T : IsFiniteSet(t)
  BY UnitsOfItem
<1>4. Units(w, S) = UNION T
  BY DEF Units
<1>5. IsFiniteSet(Units(w, S))
  <2> HIDE DEF T
  <2> QED BY <1>2, <1>3, <1>4, FS_UNION
<1>6. QED BY <1>5, FS_CardinalityType

\* The units of a set are those of one of its items and those of the others.
LEMMA UnitsSplit ==
  ASSUME NEW S, IsFiniteSet(S), NEW w, \A x \in S : w[x] \in Nat, NEW x \in S
  PROVE  Cardinality(Units(w, S)) = w[x] + Cardinality(Units(w, S \ {x}))
<1> DEFINE A == {x} \X (1 .. w[x])
           B == Units(w, S \ {x})
<1>1. IsFiniteSet(A) /\ Cardinality(A) = w[x]
  BY UnitsOfItem
<1>2. IsFiniteSet(S \ {x})
  BY FS_RemoveElement
<1>3. IsFiniteSet(B) /\ Cardinality(B) \in Nat
  BY <1>2, UnitsFinite
<1>4. Units(w, S) = A \cup B
  BY DEF Units
<1>5. A \cap B = {}
  BY DEF Units
<1>6. Cardinality(A \cap B) = 0
  BY <1>5, FS_EmptySet
<1> HIDE DEF A, B
<1>7. Cardinality(A \cup B) = Cardinality(A) + Cardinality(B) - Cardinality(A \cap B)
  BY <1>1, <1>3, FS_Union
<1>8. QED BY <1>1, <1>3, <1>4, <1>6, <1>7 DEF B

\* The sum of weights is the number of their units.
THEOREM SumCountsUnits ==
  ASSUME NEW S, IsFiniteSet(S), NEW w, \A x \in S : w[x] \in Nat
  PROVE  SumFunctionOnSet(w, S) = Cardinality(Units(w, S))
<1> DEFINE Pick(s) == CHOOSE x \in s : TRUE
           Step(f) == [s \in SUBSET S |->
                         IF s = {} THEN 0 ELSE w[Pick(s)] + f[s \ {Pick(s)}]]
           total == [s \in SUBSET S |-> Cardinality(Units(w, s))]
           sum == CHOOSE f : f = Step(f)
<1>1. ASSUME NEW s \in SUBSET S, s # {}
      PROVE  /\ Pick(s) \in s
             /\ Cardinality(Units(w, s)) = w[Pick(s)] + Cardinality(Units(w, s \ {Pick(s)}))
  <2>1. IsFiniteSet(s)
    BY FS_Subset
  <2>2. Pick(s) \in s
    BY <1>1
  <2>3. QED
    <3> HIDE DEF Pick
    <3> QED BY <2>1, <2>2, UnitsSplit
<1>2. Cardinality(Units(w, {})) = 0
  BY FS_EmptySet DEF Units
<1>3. SumFunctionOnSet(w, S) = sum[S]
  BY DEF SumFunctionOnSet, FoldFunctionOnSet, MapThenFoldSet
<1> HIDE DEF Pick
<1>4. total = Step(total)
  <2>1. \A s \in SUBSET S : s # {} => s \ {Pick(s)} \in SUBSET S
    OBVIOUS
  <2>2. QED BY <1>1, <1>2, <2>1
<1>5. sum = Step(sum)
  <2> HIDE DEF Step, total
  <2> QED BY <1>4
<1> HIDE DEF sum
<1> DEFINE Differ == {s \in SUBSET S : sum[s] # Cardinality(Units(w, s))}
<1>6. IsWellFoundedOn(StrictSubsetOrdering(S), SUBSET S)
  BY FS_StrictSubsetOrderingWellFounded, FS_FiniteSubsetsOfFinite
<1>7. Differ = {}
  <2> SUFFICES ASSUME Differ # {} PROVE FALSE
    OBVIOUS
  <2>1. PICK s \in Differ : \A r \in Differ : <<r, s>> \notin StrictSubsetOrdering(S)
    <3>1. Differ \subseteq SUBSET S
      OBVIOUS
    <3> HIDE DEF Differ
    <3>2. QED BY <1>6, <3>1, WFMin
  <2>2. s # {}
    BY <1>2, <1>5
  <2>3. Pick(s) \in s /\ s \ {Pick(s)} \in SUBSET S
    BY <1>1, <2>2
  <2>4. <<s \ {Pick(s)}, s>> \in StrictSubsetOrdering(S)
    BY <2>3 DEF StrictSubsetOrdering
  <2>5. sum[s \ {Pick(s)}] = Cardinality(Units(w, s \ {Pick(s)}))
    BY <2>1, <2>3, <2>4
  <2>6. sum[s] = w[Pick(s)] + sum[s \ {Pick(s)}]
    BY <1>5, <2>2
  <2>7. QED BY <1>1, <2>2, <2>5, <2>6
<1>8. QED BY <1>3, <1>7

\* The sum is a number; of nothing, zero; and what an item weighs more than
\* that of the others.
THEOREM SumAddsUp ==
  ASSUME NEW S, IsFiniteSet(S), NEW w, \A x \in S : w[x] \in Nat
  PROVE  /\ SumFunctionOnSet(w, S) \in Nat
         /\ S = {} => SumFunctionOnSet(w, S) = 0
         /\ \A x \in S : SumFunctionOnSet(w, S) = w[x] + SumFunctionOnSet(w, S \ {x})
<1>1. SumFunctionOnSet(w, S) \in Nat
  BY SumCountsUnits, UnitsFinite
<1>2. S = {} => SumFunctionOnSet(w, S) = 0
  BY SumCountsUnits, FS_EmptySet DEF Units
<1>3. ASSUME NEW x \in S
      PROVE  SumFunctionOnSet(w, S) = w[x] + SumFunctionOnSet(w, S \ {x})
  <2>1. IsFiniteSet(S \ {x})
    BY FS_RemoveElement
  <2>2. SumFunctionOnSet(w, S \ {x}) = Cardinality(Units(w, S \ {x}))
    BY <2>1, SumCountsUnits
  <2>3. QED BY <2>2, SumCountsUnits, UnitsSplit
<1>4. QED BY <1>1, <1>2, <1>3

\* A part of the items weighs no more than all of them.
THEOREM SumOfPart ==
  ASSUME NEW S, IsFiniteSet(S), NEW w, \A x \in S : w[x] \in Nat, NEW T \in SUBSET S
  PROVE  SumFunctionOnSet(w, T) <= SumFunctionOnSet(w, S)
<1>1. IsFiniteSet(T) /\ \A x \in T : w[x] \in Nat
  BY FS_Subset
<1>2. Units(w, T) \subseteq Units(w, S)
  BY DEF Units
<1>3. IsFiniteSet(Units(w, S))
  BY UnitsFinite
<1>4. Cardinality(Units(w, T)) <= Cardinality(Units(w, S))
  BY <1>2, <1>3, FS_Subset
<1>5. QED BY <1>1, <1>4, SumCountsUnits

\* Only the weights of the set's own items count.
THEOREM SumOfSame ==
  ASSUME NEW S, IsFiniteSet(S), NEW w, NEW v,
         \A x \in S : w[x] \in Nat /\ w[x] = v[x]
  PROVE  SumFunctionOnSet(w, S) = SumFunctionOnSet(v, S)
<1>1. Units(w, S) = Units(v, S)
  BY DEF Units
<1>2. \A x \in S : w[x] \in Nat /\ v[x] \in Nat
  OBVIOUS
<1>3. QED BY <1>1, <1>2, SumCountsUnits

\* The sum of weights that are one on T and zero elsewhere is the size of T.
LEMMA SumCountsMembers ==
  ASSUME NEW S, IsFiniteSet(S), NEW T \in SUBSET S, NEW w,
         \A x \in S : w[x] = IF x \in T THEN 1 ELSE 0
  PROVE  SumFunctionOnSet(w, S) = Cardinality(T)
<1> DEFINE f == [x \in T |-> <<x, 1>>]
<1>1. \A x \in S : w[x] \in Nat
  OBVIOUS
<1>2. Units(w, S) = {<<x, 1>> : x \in T}
  <2>1. \A u : u \in Units(w, S) <=> u \in {<<x, 1>> : x \in T}
    <3>1. ASSUME NEW u, u \in Units(w, S) PROVE u \in {<<x, 1>> : x \in T}
      <4>1. PICK x \in S : u \in {x} \X (1 .. w[x])
        BY <3>1 DEF Units
      <4>2. PICK i \in 1 .. w[x] : u = <<x, i>>
        BY <4>1
      <4>3. x \in T /\ i = 1
        BY <4>2
      <4>4. QED BY <4>2, <4>3
    <3>2. ASSUME NEW x \in T PROVE <<x, 1>> \in Units(w, S)
      <4>1. w[x] = 1 /\ 1 \in 1 .. w[x] /\ x \in S
        OBVIOUS
      <4>2. <<x, 1>> \in {x} \X (1 .. w[x])
        BY <4>1
      <4>3. QED BY <4>1, <4>2 DEF Units
    <3>3. QED BY <3>1, <3>2
  <2>2. QED BY <2>1
<1>3. f \in Bijection(T, {<<x, 1>> : x \in T})
  <2>1. f \in Surjection(T, {<<x, 1>> : x \in T})
    BY DEF Surjection
  <2>2. f \in Injection(T, {<<x, 1>> : x \in T})
    BY DEF Injection, IsInjective
  <2>3. QED BY <2>1, <2>2 DEF Bijection
<1>4. IsFiniteSet(T)
  BY FS_Subset
<1>5. Cardinality({<<x, 1>> : x \in T}) = Cardinality(T)
  <2> HIDE DEF f
  <2> QED BY <1>3, <1>4, FS_Bijection DEF ExistsBijection
<1>6. QED BY <1>1, <1>2, <1>5, SumCountsUnits

------------------------------------------------------------------------------
(* Queues *)

\* A set of natural numbers has a least one.
LEMMA LeastOf ==
  ASSUME NEW B, B \subseteq Nat, B # {}
  PROVE  \E m \in B : \A n \in B : m <= n
<1>1. PICK m \in B : \A n \in B : ~ (<<n, m>> \in OpToRel(<, Nat))
  BY NatLessThanWellFounded, WFMin
<1>2. \A n \in B : ~ (n < m)
  BY <1>1 DEF OpToRel
<1>3. QED BY <1>2

\* The empty queue, and the queue of one item.
LEMMA EmptyQueue ==
  ASSUME NEW A
  PROVE  /\ <<>> \in Seq(A) /\ ToSet(<<>>) = {} /\ IsInjective(<<>>)
         /\ \A a \in A : <<a>> \in Seq(A) /\ ToSet(<<a>>) = {a} /\ IsInjective(<<a>>)
BY DEF ToSet, IsInjective

\* A queue with an item has an item first.
LEMMA NonEmptyQueue ==
  ASSUME NEW A, NEW s \in Seq(A)
  PROVE  /\ s = <<>> <=> ToSet(s) = {}
         /\ ToSet(s) \subseteq A
         /\ s # <<>> => Head(s) \in ToSet(s) /\ Head(s) \in A
<1>1. DOMAIN s = 1 .. Len(s) /\ Len(s) \in Nat
  BY LenProperties
<1>2. ASSUME s # <<>> PROVE Len(s) > 0 /\ Head(s) = s[1]
  BY <1>2, EmptySeq
<1>3. \A i \in DOMAIN s : s[i] \in A
  BY <1>1, ElementOfSeq
<1>4. s = <<>> => ToSet(s) = {}
  BY EmptyQueue
<1>5. s # <<>> => Head(s) \in ToSet(s)
  BY <1>1, <1>2 DEF ToSet
<1>6. QED BY <1>3, <1>4, <1>5 DEF ToSet

\* An item at the end.
LEMMA AppendQueue ==
  ASSUME NEW A, NEW s \in Seq(A), NEW a \in A
  PROVE  /\ Append(s, a) \in Seq(A) /\ ToSet(Append(s, a)) = ToSet(s) \cup {a}
         /\ Len(Append(s, a)) = Len(s) + 1
         /\ IsInjective(s) /\ a \notin ToSet(s) => IsInjective(Append(s, a))
<1> DEFINE t == Append(s, a)
           n == Len(s)
<1>1. /\ t \in Seq(A) /\ Len(t) = n + 1 /\ n \in Nat
      /\ \A i \in 1 .. n : t[i] = s[i]
      /\ t[n + 1] = a
  BY AppendProperties, LenProperties
<1>2. DOMAIN t = 1 .. n + 1 /\ DOMAIN s = 1 .. n
  BY <1>1, LenProperties
<1> HIDE DEF t, n
<1>3. ToSet(t) = ToSet(s) \cup {a}
  <2>1. ASSUME NEW i \in DOMAIN t PROVE t[i] \in ToSet(s) \cup {a}
    BY <1>1, <1>2 DEF ToSet
  <2>2. ASSUME NEW i \in DOMAIN s PROVE s[i] \in ToSet(t)
    BY <1>1, <1>2 DEF ToSet
  <2>3. a \in ToSet(t)
    BY <1>1, <1>2 DEF ToSet
  <2>4. QED BY <2>1, <2>2, <2>3 DEF ToSet
<1>4. ASSUME IsInjective(s), a \notin ToSet(s) PROVE IsInjective(t)
  <2> SUFFICES ASSUME NEW i \in DOMAIN t, NEW j \in DOMAIN t, t[i] = t[j] PROVE i = j
    BY DEF IsInjective
  <2>1. \A k \in DOMAIN s : s[k] # a
    BY <1>4 DEF ToSet
  <2>2. CASE i = n + 1
    BY <1>1, <1>2, <2>1, <2>2
  <2>3. CASE j = n + 1
    BY <1>1, <1>2, <2>1, <2>3
  <2>4. CASE i # n + 1 /\ j # n + 1
    BY <1>1, <1>2, <1>4, <2>4 DEF IsInjective
  <2>5. QED BY <2>2, <2>3, <2>4
<1>5. QED BY <1>1, <1>3, <1>4 DEF t, n

\* The first item goes.
LEMMA TailQueue ==
  ASSUME NEW A, NEW s \in Seq(A), s # <<>>
  PROVE  /\ Tail(s) \in Seq(A) /\ ToSet(s) = ToSet(Tail(s)) \cup {Head(s)}
         /\ Len(Tail(s)) = Len(s) - 1
         /\ \A i \in DOMAIN Tail(s) : i + 1 \in DOMAIN s /\ Tail(s)[i] = s[i + 1]
         /\ IsInjective(s) => IsInjective(Tail(s)) /\ Head(s) \notin ToSet(Tail(s))
<1> DEFINE t == Tail(s)
           n == Len(s)
<1>1. /\ t \in Seq(A) /\ Len(t) = n - 1 /\ n \in Nat \ {0} /\ Head(s) = s[1]
      /\ \A i \in 1 .. Len(t) : t[i] = s[i + 1]
  BY HeadTailProperties, LenProperties, EmptySeq
<1>2. DOMAIN t = 1 .. n - 1 /\ DOMAIN s = 1 .. n
  BY <1>1, LenProperties
<1>3. \A i \in DOMAIN t : i + 1 \in DOMAIN s /\ t[i] = s[i + 1]
  BY <1>1, <1>2
<1>4. \A j \in DOMAIN s : j = 1 \/ (j - 1 \in DOMAIN t /\ s[j] = t[j - 1])
  BY <1>1, <1>2
<1>5. 1 \in DOMAIN s
  BY <1>1, <1>2
<1>6. \A i \in DOMAIN t : i \in Nat /\ i >= 1
  BY <1>1, <1>2
<1> HIDE DEF t, n
<1>7. ToSet(s) = ToSet(t) \cup {s[1]}
  <2>1. ToSet(t) \cup {s[1]} \subseteq ToSet(s)
    BY <1>3, <1>5 DEF ToSet
  <2>2. ASSUME NEW j \in DOMAIN s PROVE s[j] \in ToSet(t) \cup {s[1]}
    BY <1>4 DEF ToSet
  <2>3. QED BY <2>1, <2>2 DEF ToSet
<1>8. ASSUME IsInjective(s) PROVE IsInjective(t) /\ s[1] \notin ToSet(t)
  <2>1. ASSUME NEW i \in DOMAIN t, NEW j \in DOMAIN t, t[i] = t[j] PROVE i = j
    <3>1. i + 1 = j + 1
      BY <1>3, <1>8, <2>1 DEF IsInjective
    <3>2. QED BY <3>1, <1>6
  <2>2. ASSUME NEW i \in DOMAIN t PROVE t[i] # s[1]
    BY <1>3, <1>5, <1>6, <1>8 DEF IsInjective
  <2>3. QED BY <2>1, <2>2 DEF IsInjective, ToSet
<1>9. QED BY <1>1, <1>3, <1>7, <1>8 DEF t, n

\* One queue after another.
LEMMA ConcatQueue ==
  ASSUME NEW A, NEW s \in Seq(A), NEW t \in Seq(A)
  PROVE  /\ s \o t \in Seq(A) /\ ToSet(s \o t) = ToSet(s) \cup ToSet(t)
         /\ IsInjective(s) /\ IsInjective(t) /\ ToSet(s) \cap ToSet(t) = {} => IsInjective(s \o t)
<1> DEFINE u == s \o t
           m == Len(s)
           n == Len(t)
<1>1. /\ u \in Seq(A) /\ Len(u) = m + n /\ m \in Nat /\ n \in Nat
      /\ \A i \in 1 .. m + n : u[i] = IF i <= m THEN s[i] ELSE t[i - m]
  BY ConcatProperties, LenProperties
<1>2. DOMAIN u = 1 .. m + n /\ DOMAIN s = 1 .. m /\ DOMAIN t = 1 .. n
  BY <1>1, LenProperties
<1> HIDE DEF u, m, n
<1>3. \A i \in DOMAIN u : \/ i \in DOMAIN s /\ u[i] = s[i]
                          \/ i - m \in DOMAIN t /\ u[i] = t[i - m]
  BY <1>1, <1>2
<1>4. \A i \in DOMAIN s : i \in DOMAIN u /\ u[i] = s[i]
  BY <1>1, <1>2
<1>5. \A i \in DOMAIN t : i + m \in DOMAIN u /\ u[i + m] = t[i]
  BY <1>1, <1>2
<1>6. ToSet(u) = ToSet(s) \cup ToSet(t)
  <2>1. ASSUME NEW i \in DOMAIN u PROVE u[i] \in ToSet(s) \cup ToSet(t)
    BY <1>3 DEF ToSet
  <2>2. ToSet(s) \subseteq ToSet(u)
    BY <1>4 DEF ToSet
  <2>3. ToSet(t) \subseteq ToSet(u)
    BY <1>5 DEF ToSet
  <2>4. QED BY <2>1, <2>2, <2>3 DEF ToSet
<1>7. ASSUME IsInjective(s), IsInjective(t), ToSet(s) \cap ToSet(t) = {} PROVE IsInjective(u)
  <2> SUFFICES ASSUME NEW i \in DOMAIN u, NEW j \in DOMAIN u, u[i] = u[j] PROVE i = j
    BY DEF IsInjective
  <2>1. \A k \in DOMAIN s, l \in DOMAIN t : s[k] # t[l]
    BY <1>7 DEF ToSet
  <2>2. CASE i \in DOMAIN s /\ u[i] = s[i] /\ j \in DOMAIN s /\ u[j] = s[j]
    BY <2>2, <1>7 DEF IsInjective
  <2>3. CASE i - m \in DOMAIN t /\ u[i] = t[i - m] /\ j - m \in DOMAIN t /\ u[j] = t[j - m]
    <3>1. i - m = j - m
      BY <2>3, <1>7 DEF IsInjective
    <3>2. QED BY <3>1, <1>1, <1>2
  <2>4. QED BY <1>3, <2>1, <2>2, <2>3
<1>8. QED BY <1>1, <1>6, <1>7 DEF u

\* The other way round.
LEMMA ReverseQueue ==
  ASSUME NEW A, NEW s \in Seq(A)
  PROVE  /\ Reverse(s) \in Seq(A) /\ ToSet(Reverse(s)) = ToSet(s)
         /\ IsInjective(s) => IsInjective(Reverse(s))
<1> DEFINE t == Reverse(s)
           n == Len(s)
<1>1. n \in Nat /\ DOMAIN s = 1 .. n /\ \A i \in 1 .. n : s[i] \in A
  BY LenProperties, ElementOfSeq
<1>2. DOMAIN t = 1 .. n /\ \A i \in 1 .. n : (n - i) + 1 \in 1 .. n /\ t[i] = s[(n - i) + 1]
  BY <1>1 DEF Reverse
<1>3. t \in [1 .. n -> A]
  BY <1>1, <1>2 DEF Reverse
<1>4. t \in Seq(A)
  BY <1>1, <1>3
<1>5. \A j \in 1 .. n : (n - j) + 1 \in 1 .. n /\ (n - ((n - j) + 1)) + 1 = j
  BY <1>1
<1> HIDE DEF t, n
<1>6. ToSet(t) = ToSet(s)
  <2>1. ToSet(t) \subseteq ToSet(s)
    BY <1>1, <1>2 DEF ToSet
  <2>2. ASSUME NEW j \in DOMAIN s PROVE s[j] \in ToSet(t)
    <3>1. s[j] = t[(n - j) + 1] /\ (n - j) + 1 \in DOMAIN t
      BY <1>1, <1>2, <1>5
    <3>2. QED BY <3>1 DEF ToSet
  <2>3. QED BY <2>1, <2>2 DEF ToSet
<1>7. ASSUME IsInjective(s) PROVE IsInjective(t)
  <2> SUFFICES ASSUME NEW i \in DOMAIN t, NEW j \in DOMAIN t, t[i] = t[j] PROVE i = j
    BY DEF IsInjective
  <2>1. (n - i) + 1 = (n - j) + 1
    BY <1>1, <1>2, <1>7 DEF IsInjective
  <2>2. QED BY <2>1, <1>1, <1>2
<1>8. QED BY <1>4, <1>6, <1>7 DEF t
------------------------------------------------------------------------------
\* What the recursion of Kept says of a function on the first n positions.
Follows(f, s, S, n) ==
  /\ f = [i \in 0 .. n |-> f[i]]
  /\ \A i \in 0 .. n : f[i] = IF i = 0 THEN <<>>
                              ELSE IF s[i] \in S THEN Append(f[i - 1], s[i]) ELSE f[i - 1]

\* There is such a function.
LEMMA KeptExists ==
  ASSUME NEW s, NEW S, NEW n \in Nat
  PROVE  \E f : Follows(f, s, S, n)
<1> DEFINE B == {k \in Nat : ~ \E f : Follows(f, s, S, k)}
<1>1. B = {}
  <2> SUFFICES ASSUME B # {} PROVE FALSE
    OBVIOUS
  <2>1. PICK m \in B : \A k \in B : m <= k
    BY LeastOf
  <2>2. CASE m = 0
    <3> DEFINE f == [i \in 0 .. 0 |-> <<>>]
    <3>1. Follows(f, s, S, 0)
      BY DEF Follows
    <3>2. QED BY <2>1, <2>2, <3>1
  <2>3. CASE m # 0
    <3>1. m - 1 \in Nat /\ m - 1 \notin B /\ m \in Nat
      BY <2>1, <2>3
    <3>2. PICK g : Follows(g, s, S, m - 1)
      BY <3>1
    <3> DEFINE f == [i \in 0 .. m |-> IF i < m THEN g[i]
                                      ELSE IF s[m] \in S THEN Append(g[m - 1], s[m]) ELSE g[m - 1]]
    <3>3. f = [i \in 0 .. m |-> f[i]]
      OBVIOUS
    <3>4. ASSUME NEW i \in 0 .. m
          PROVE  f[i] = IF i = 0 THEN <<>>
                        ELSE IF s[i] \in S THEN Append(f[i - 1], s[i]) ELSE f[i - 1]
      <4>1. CASE i < m
        <5>1. i \in 0 .. m - 1 /\ f[i] = g[i] /\ (i # 0 => i - 1 \in 0 .. m /\ f[i - 1] = g[i - 1])
          BY <4>1, <3>1
        <5>2. g[i] = IF i = 0 THEN <<>>
                     ELSE IF s[i] \in S THEN Append(g[i - 1], s[i]) ELSE g[i - 1]
          BY <5>1, <3>2 DEF Follows
        <5> HIDE DEF f
        <5>3. QED BY <5>1, <5>2
      <4>2. CASE i = m
        <5>1. f[m - 1] = g[m - 1] /\ m \in 0 .. m
          BY <3>1
        <5>2. f[m] = IF s[m] \in S THEN Append(g[m - 1], s[m]) ELSE g[m - 1]
          BY <5>1
        <5> HIDE DEF f
        <5>3. QED BY <5>1, <5>2, <4>2, <2>3
      <4>3. QED BY <4>1, <4>2, <3>1
    <3> HIDE DEF f
    <3>5. Follows(f, s, S, m)
      BY <3>3, <3>4 DEF Follows
    <3>6. QED BY <2>1, <3>5
  <2>4. QED BY <2>2, <2>3
<1>2. QED BY <1>1

\* So Kept is the value of one at the last position.
LEMMA KeptFollows ==
  ASSUME NEW A, NEW s \in Seq(A), NEW S
  PROVE  \E f : Follows(f, s, S, Len(s)) /\ Kept(s, S) = f[Len(s)]
<1> DEFINE n == Len(s)
           Rec(f) == f = [i \in 0 .. n |-> IF i = 0 THEN <<>>
                            ELSE IF s[i] \in S THEN Append(f[i - 1], s[i]) ELSE f[i - 1]]
           k == CHOOSE f : Rec(f)
<1>1. n \in Nat
  BY LenProperties
<1>2. PICK g : Follows(g, s, S, n)
  BY <1>1, KeptExists
<1>3. g = [i \in 0 .. n |-> IF i = 0 THEN <<>>
             ELSE IF s[i] \in S THEN Append(g[i - 1], s[i]) ELSE g[i - 1]]
  BY <1>2 DEF Follows
<1>4. Rec(k)
  <2>1. Rec(g)
    BY <1>3
  <2> HIDE DEF Rec
  <2>2. QED BY <2>1
<1>5. Follows(k, s, S, n)
  <2> HIDE DEF k
  <2>1. QED BY <1>4 DEF Follows
<1>6. Kept(s, S) = k[n]
  BY DEF Kept
<1>7. QED BY <1>5, <1>6

\* What the first n items of s leave of themselves.
Filtered(t, s, S, n, A) ==
  /\ t \in Seq(A)
  /\ ToSet(t) = {s[j] : j \in 1 .. n} \cap S
  /\ \E g \in [1 .. Len(t) -> 1 .. n] :
       IsInjective(g) /\ \A k \in 1 .. Len(t) : t[k] = s[g[k]]

\* What holds of the items kept up to one position holds up to the next.
LEMMA FilteredNext ==
  ASSUME NEW A, NEW s \in Seq(A), NEW S, NEW n \in 1 .. Len(s), NEW t, Filtered(t, s, S, n - 1, A)
  PROVE  Filtered(IF s[n] \in S THEN Append(t, s[n]) ELSE t, s, S, n, A)
<1>1. n \in Nat /\ n - 1 \in Nat /\ s[n] \in A /\ t \in Seq(A) /\ Len(t) \in Nat
  BY LenProperties, ElementOfSeq DEF Filtered
<1>2. PICK g \in [1 .. Len(t) -> 1 .. n - 1] :
        IsInjective(g) /\ \A k \in 1 .. Len(t) : t[k] = s[g[k]]
  BY DEF Filtered
<1>3. {s[j] : j \in 1 .. n} = {s[j] : j \in 1 .. n - 1} \cup {s[n]}
  BY <1>1
<1>4. CASE s[n] \notin S
  <2>1. ToSet(t) = {s[j] : j \in 1 .. n} \cap S
    BY <1>3, <1>4 DEF Filtered
  <2>2. g \in [1 .. Len(t) -> 1 .. n]
    BY <1>1, <1>2
  <2>3. QED BY <1>1, <1>2, <1>4, <2>1, <2>2 DEF Filtered
<1>5. CASE s[n] \in S
  <2> DEFINE u == Append(t, s[n])
             h == [k \in 1 .. Len(t) + 1 |-> IF k = Len(t) + 1 THEN n ELSE g[k]]
  <2>1. u \in Seq(A) /\ ToSet(u) = ToSet(t) \cup {s[n]} /\ Len(u) = Len(t) + 1
    BY <1>1, AppendQueue
  <2>2. ToSet(u) = {s[j] : j \in 1 .. n} \cap S
    BY <2>1, <1>3, <1>5 DEF Filtered
  <2>3. h \in [1 .. Len(u) -> 1 .. n]
    BY <1>1, <1>2, <2>1
  <2>4. \A k \in 1 .. Len(u) : u[k] = s[h[k]]
    BY <1>1, <1>2, <2>1, AppendProperties
  <2>5. IsInjective(h)
    <3> SUFFICES ASSUME NEW i \in DOMAIN h, NEW j \in DOMAIN h, h[i] = h[j] PROVE i = j
      BY DEF IsInjective
    <3>1. \A k \in 1 .. Len(t) : g[k] \in 1 .. n - 1
      BY <1>2
    <3>2. \A k \in DOMAIN h : \/ k = Len(t) + 1 /\ h[k] = n
                              \/ k \in 1 .. Len(t) /\ h[k] = g[k]
      BY <1>1
    <3> HIDE DEF h
    <3>3. QED BY <1>1, <1>2, <3>1, <3>2 DEF IsInjective
  <2> HIDE DEF h, u
  <2>6. Filtered(u, s, S, n, A)
    BY <2>1, <2>2, <2>3, <2>4, <2>5 DEF Filtered
  <2>7. QED BY <1>5, <2>6 DEF u
<1>6. QED BY <1>4, <1>5

\* Kept keeps the items in S, each as often as it was there and at positions of
\* its own in the old queue.
THEOREM KeptQueue ==
  ASSUME NEW A, NEW s \in Seq(A), NEW S
  PROVE  /\ Kept(s, S) \in Seq(A) /\ ToSet(Kept(s, S)) = ToSet(s) \cap S
         /\ IsInjective(s) => IsInjective(Kept(s, S))
         /\ \E g \in [DOMAIN Kept(s, S) -> DOMAIN s] :
              IsInjective(g) /\ \A k \in DOMAIN Kept(s, S) : Kept(s, S)[k] = s[g[k]]
<1> DEFINE n == Len(s)
<1>1. n \in Nat /\ DOMAIN s = 1 .. n
  BY LenProperties
<1>2. PICK f : Follows(f, s, S, n) /\ Kept(s, S) = f[n]
  BY KeptFollows
<1> DEFINE B == {i \in 0 .. n : ~ Filtered(f[i], s, S, i, A)}
<1>3. B = {}
  <2> SUFFICES ASSUME B # {} PROVE FALSE
    OBVIOUS
  <2>1. PICK m \in B : \A k \in B : m <= k
    <3>1. B \subseteq Nat
      BY <1>1
    <3> HIDE DEF B
    <3>2. QED BY <3>1, LeastOf
  <2>2. CASE m = 0
    <3>1. f[0] = <<>>
      BY <1>1, <1>2 DEF Follows
    <3> DEFINE g == [k \in 1 .. 0 |-> 0]
    <3>2. g \in [1 .. Len(<<>>) -> 1 .. 0] /\ IsInjective(g)
      BY DEF IsInjective
    <3> HIDE DEF g
    <3>3. Filtered(<<>>, s, S, 0, A)
      <4>1. <<>> \in Seq(A) /\ ToSet(<<>>) = {} /\ Len(<<>>) = 0
        BY EmptyQueue
      <4>2. {s[j] : j \in 1 .. 0} = {}
        OBVIOUS
      <4>3. \A k \in 1 .. Len(<<>>) : <<>>[k] = s[g[k]]
        BY <4>1
      <4>4. QED BY <3>2, <4>1, <4>2, <4>3 DEF Filtered
    <3>4. QED BY <2>1, <2>2, <3>1, <3>3
  <2>3. CASE m # 0
    <3>1. m \in 1 .. n /\ m - 1 \in 0 .. n /\ m - 1 \notin B
      BY <1>1, <2>1, <2>3
    <3>2. Filtered(f[m - 1], s, S, m - 1, A)
      BY <3>1
    <3>3. f[m] = IF s[m] \in S THEN Append(f[m - 1], s[m]) ELSE f[m - 1]
      BY <1>1, <1>2, <3>1 DEF Follows
    <3>4. Filtered(f[m], s, S, m, A)
      BY <3>1, <3>2, <3>3, FilteredNext
    <3>5. QED BY <2>1, <3>4
  <2>4. QED BY <2>2, <2>3
<1>4. Filtered(Kept(s, S), s, S, n, A)
  BY <1>1, <1>2, <1>3
<1> DEFINE t == Kept(s, S)
<1>5. t \in Seq(A) /\ DOMAIN t = 1 .. Len(t)
  BY <1>4, LenProperties DEF Filtered
<1>6. PICK g \in [DOMAIN t -> DOMAIN s] : IsInjective(g) /\ \A k \in DOMAIN t : t[k] = s[g[k]]
  BY <1>1, <1>4, <1>5 DEF Filtered
<1> HIDE DEF t
<1>7. IsInjective(s) => IsInjective(t)
  BY <1>6 DEF IsInjective
<1>8. ToSet(t) = ToSet(s) \cap S
  BY <1>1, <1>4 DEF Filtered, ToSet, t
<1>9. QED BY <1>5, <1>6, <1>7, <1>8 DEF t
=============================================================================
