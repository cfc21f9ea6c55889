----------------------------- MODULE ProofLemmas -----------------------------
(***************************************************************************)
(* Facts about numbers, orders and sequences that the proofs of several    *)
(* components use.  Induction is used in the form of the least element of  *)
(* a set, which needs no operator as a parameter.                          *)
(***************************************************************************)
EXTENDS Integers, SequencesExt, FiniteSetTheorems, SequenceTheorems, WellFoundedInduction, TLAPS

\* A nonempty set of natural numbers has a least element.
LEMMA LeastNatural ==
  ASSUME NEW S \in SUBSET Nat, S # {}
  PROVE  \E x \in S : \A y \in S : x <= y
<1> DEFINE R == OpToRel(<, Nat)
<1>1. \E x \in S : \A y \in S : ~ (<<y, x>> \in R)
  <2>1. IsWellFoundedOn(R, Nat)
    BY NatLessThanWellFounded
  <2> HIDE DEF R
  <2> QED
    BY <2>1, WFMin
<1>2. \A x, y \in Nat : <<y, x>> \in R <=> y < x
  BY DEF OpToRel
<1> HIDE DEF R
<1>3. PICK x \in S : \A y \in S : ~ (<<y, x>> \in R)
  BY <1>1
<1>4. ASSUME NEW y \in S PROVE x <= y
  <2>1. x \in Nat /\ y \in Nat
    OBVIOUS
  <2>2. ~ (y < x)
    BY <1>2, <1>3, <2>1
  <2> QED
    BY <2>1, <2>2
<1> QED
  BY <1>4

\* Min() of such a set is that element.
LEMMA MinIsLeast ==
  ASSUME NEW S \in SUBSET Nat, S # {}
  PROVE  Min(S) \in S /\ \A y \in S : Min(S) <= y
BY LeastNatural DEF Min

\* A finite set has a least element in every total preorder.
LEMMA LeastInOrder ==
  ASSUME NEW S, IsFiniteSet(S), S # {}, NEW R,
         \A x, y \in S : <<x, y>> \in R \/ <<y, x>> \in R,
         \A x, y, z \in S : <<x, y>> \in R /\ <<y, z>> \in R => <<x, z>> \in R
  PROVE  \E x \in S : \A y \in S : <<x, y>> \in R
<1> DEFINE Below(x) == {y \in S : <<x, y>> \notin R}
           Ranks == {Cardinality(Below(x)) : x \in S}
<1>1. \A x \in S : IsFiniteSet(Below(x)) /\ Cardinality(Below(x)) \in Nat
  BY FS_Subset, FS_CardinalityType
<1>2. PICK x \in S : \A y \in S : Cardinality(Below(x)) <= Cardinality(Below(y))
  <2> HIDE DEF Below
  <2>1. Ranks \in SUBSET Nat /\ Ranks # {}
    BY <1>1
  <2>2. \E r \in Ranks : \A q \in Ranks : r <= q
    BY <2>1, LeastNatural
  <2> QED
    BY <2>2
<1>3. ASSUME NEW y \in S, <<x, y>> \notin R PROVE FALSE
  <2>1. Below(y) \subseteq Below(x) /\ y \in Below(x) /\ y \notin Below(y)
    BY <1>3
  <2>2. Cardinality(Below(y)) < Cardinality(Below(x))
    <3>1. Below(y) # Below(x)
      BY <2>1
    <3> HIDE DEF Below
    <3> QED
      BY <1>1, <2>1, <3>1, FS_Subset
  <2> QED
    BY <1>1, <1>2, <2>2
<1> QED
  BY <1>3

\* Triples of integers in lexicographic order.
LexLeq(p, q) ==
    \/ p[1] < q[1]
    \/ p[1] = q[1] /\ p[2] < q[2]
    \/ p[1] = q[1] /\ p[2] = q[2] /\ p[3] <= q[3]

\* The lexicographic order of triples is transitive.
LEMMA LexLeqTransitive ==
  ASSUME NEW a1 \in Int, NEW a2 \in Int, NEW a3 \in Int,
         NEW b1 \in Int, NEW b2 \in Int, NEW b3 \in Int,
         NEW c1 \in Int, NEW c2 \in Int, NEW c3 \in Int,
         LexLeq(<<a1, a2, a3>>, <<b1, b2, b3>>), LexLeq(<<b1, b2, b3>>, <<c1, c2, c3>>)
  PROVE  LexLeq(<<a1, a2, a3>>, <<c1, c2, c3>>)
BY DEF LexLeq

\* Removing a position from a sequence without repetitions.
LEMMA RemoveAtProperties ==
  ASSUME NEW S, NEW s \in Seq(S), IsInjective(s), NEW i \in 1 .. Len(s)
  PROVE  /\ RemoveAt(s, i) \in Seq(S)
         /\ IsInjective(RemoveAt(s, i))
         /\ Range(RemoveAt(s, i)) = Range(s) \ {s[i]}
<1> DEFINE t == RemoveAt(s, i)
<1>1. /\ t \in Seq(S) /\ Len(t) = Len(s) - 1
      /\ \A j \in 1 .. Len(s) - 1 : t[j] = s[IF j < i THEN j ELSE j + 1]
  <2> DEFINE a == SubSeq(s, 1, i - 1)
             b == SubSeq(s, i + 1, Len(s))
  <2>1. /\ Len(s) \in Nat /\ a \in Seq(S) /\ Len(a) = i - 1
        /\ \A j \in 1 .. i - 1 : a[j] = s[j]
    OBVIOUS
  <2>2. /\ b \in Seq(S) /\ Len(b) = Len(s) - i
        /\ \A j \in 1 .. Len(s) - i : b[j] = s[i + j]
    OBVIOUS
  <2>3. t = a \o b
    BY DEF RemoveAt
  <2> HIDE DEF a, b, t
  <2>4. /\ a \o b \in Seq(S) /\ Len(a \o b) = Len(s) - 1
        /\ \A j \in 1 .. Len(s) - 1 : (a \o b)[j] = IF j < i THEN a[j] ELSE b[j - i + 1]
    <3>1. /\ a \o b \in Seq(S) /\ Len(a \o b) = Len(a) + Len(b)
          /\ \A j \in 1 .. Len(a) + Len(b) :
                (a \o b)[j] = IF j <= Len(a) THEN a[j] ELSE b[j - Len(a)]
      BY <2>1, <2>2, ConcatProperties
    <3> QED
      BY <2>1, <2>2, <3>1
  <2>5. \A j \in 1 .. Len(s) - 1 : ~ (j < i) => b[j - i + 1] = s[j + 1]
    BY <2>1, <2>2
  <2> QED
    BY <2>1, <2>3, <2>4, <2>5
<1>2. DOMAIN s = 1 .. Len(s) /\ DOMAIN t = 1 .. Len(s) - 1 /\ Len(s) \in Nat
  BY <1>1
<1> HIDE DEF t
<1>3. IsInjective(t)
  <2> SUFFICES ASSUME NEW j \in 1 .. Len(s) - 1, NEW l \in 1 .. Len(s) - 1, t[j] = t[l]
               PROVE  j = l
    BY <1>2 DEF IsInjective
  <2>1. \A x \in 1 .. Len(s) - 1 :
           LET y == IF x < i THEN x ELSE x + 1 IN y \in 1 .. Len(s) /\ t[x] = s[y]
    BY <1>1, <1>2
  <2>2. \A x, y \in 1 .. Len(s) : s[x] = s[y] => x = y
    BY <1>2 DEF IsInjective
  <2>3. (IF j < i THEN j ELSE j + 1) = (IF l < i THEN l ELSE l + 1)
    BY <2>1, <2>2
  <2> QED
    BY <2>3
<1>4. Range(t) = Range(s) \ {s[i]}
  <2>1. ASSUME NEW j \in 1 .. Len(s), j # i PROVE s[j] \in Range(t)
    <3>1. CASE j < i
      BY <1>1, <1>2, <3>1 DEF Range
    <3>2. CASE j > i
      <4>1. j - 1 \in 1 .. Len(s) - 1 /\ t[j - 1] = s[j]
        BY <1>1, <1>2, <3>2
      <4> QED
        BY <1>2, <4>1 DEF Range
    <3> QED
      BY <1>2, <2>1, <3>1, <3>2
  <2>2. ASSUME NEW j \in 1 .. Len(s) - 1 PROVE t[j] \in Range(s) \ {s[i]}
    <3> DEFINE y == IF j < i THEN j ELSE j + 1
    <3>1. y \in 1 .. Len(s) /\ t[j] = s[y] /\ y # i
      BY <1>1, <1>2
    <3> HIDE DEF y
    <3>2. s[y] # s[i]
      BY <1>2, <3>1 DEF IsInjective
    <3> QED
      BY <1>2, <3>1, <3>2 DEF Range
  <2> QED
    BY <1>2, <2>1, <2>2 DEF Range
<1> QED
  BY <1>1, <1>3, <1>4 DEF t

\* Removing an element from a sequence without repetitions.
LEMMA RemoveFirstProperties ==
  ASSUME NEW S, NEW s \in Seq(S), IsInjective(s), NEW e
  PROVE  /\ RemoveFirst(s, e) \in Seq(S)
         /\ IsInjective(RemoveFirst(s, e))
         /\ Range(RemoveFirst(s, e)) = Range(s) \ {e}
<1>0. DOMAIN s = 1 .. Len(s) /\ Len(s) \in Nat
  OBVIOUS
<1>1. CASE e \in Range(s)
  <2> DEFINE I == {i \in 1 .. Len(s) : s[i] = e}
  <2>1. I # {} /\ I \in SUBSET Nat
    BY <1>0, <1>1 DEF Range
  <2>2. Min(I) \in I
    BY <2>1, MinIsLeast
  <2>3. RemoveFirst(s, e) = RemoveAt(s, Min(I))
    BY <2>1 DEF RemoveFirst, SelectInSeq
  <2>4. Min(I) \in 1 .. Len(s) /\ s[Min(I)] = e
    BY <2>2
  <2> HIDE DEF I
  <2> QED
    BY <2>3, <2>4, RemoveAtProperties
<1>2. CASE e \notin Range(s)
  BY <1>0, <1>2 DEF RemoveFirst, Range
<1> QED
  BY <1>1, <1>2

\* Appending an element.
LEMMA AppendFresh ==
  ASSUME NEW S, NEW s \in Seq(S), NEW e \in S
  PROVE  /\ Append(s, e) \in Seq(S)
         /\ Range(Append(s, e)) = Range(s) \cup {e}
         /\ IsInjective(s) /\ e \notin Range(s) => IsInjective(Append(s, e))
<1> DEFINE t == Append(s, e)
<1>1. /\ t \in Seq(S) /\ Len(t) = Len(s) + 1 /\ Len(s) \in Nat
      /\ \A i \in 1 .. Len(s) : t[i] = s[i]
      /\ t[Len(s) + 1] = e
  BY AppendProperties
<1>2. DOMAIN s = 1 .. Len(s) /\ DOMAIN t = 1 .. Len(s) + 1
  BY <1>1
<1> HIDE DEF t
<1>3. Range(t) = Range(s) \cup {e}
  BY <1>1, <1>2 DEF Range
<1>4. IsInjective(s) /\ e \notin Range(s) => IsInjective(t)
  BY <1>1, <1>2 DEF Range, IsInjective
<1> QED
  BY <1>1, <1>3, <1>4 DEF t

\* The rest of a sequence.
LEMMA RangeOfTail ==
  ASSUME NEW S, NEW s \in Seq(S), s # <<>>
  PROVE  Tail(s) \in Seq(S) /\ Range(Tail(s)) \subseteq Range(s) /\ Head(s) \in Range(s)
<1>1. /\ Tail(s) \in Seq(S) /\ Len(s) \in Nat /\ Len(s) > 0 /\ Len(Tail(s)) = Len(s) - 1
      /\ \A i \in 1 .. Len(s) - 1 : Tail(s)[i] = s[i + 1]
      /\ Head(s) = s[1]
  OBVIOUS
<1> QED
  BY <1>1 DEF Range

\* Max() of a set of naturals with a bound is its greatest element.
LEMMA MaxIsGreatest ==
  ASSUME NEW S \in SUBSET Nat, S # {}, NEW n \in Nat, \A x \in S : x <= n
  PROVE  Max(S) \in S /\ \A y \in S : Max(S) >= y
<1> DEFINE R == {n - x : x \in S}
<1>1. R \in SUBSET Nat /\ R # {}
  <2>1. \A x \in S : n - x \in Nat
    OBVIOUS
  <2> QED
    BY <2>1
<1>2. PICK z \in R : \A y \in R : z <= y
  BY <1>1, LeastNatural
<1>3. PICK x \in S : z = n - x
  OBVIOUS
<1>4. ASSUME NEW y \in S PROVE x >= y
  <2>1. z <= n - y /\ z = n - x
    BY <1>2, <1>3
  <2>2. x \in Nat /\ y \in Nat
    OBVIOUS
  <2> QED
    BY <2>1, <2>2
<1> QED
  BY <1>4 DEF Max

\* Max() of a finite set of naturals is its greatest element.
LEMMA FiniteMax ==
  ASSUME NEW S \in SUBSET Nat, S # {}, IsFiniteSet(S)
  PROVE  Max(S) \in S /\ \A y \in S : Max(S) >= y
<1> DEFINE R == {z \in S \X S : z[1] >= z[2]}
<1>1. \A x, y \in S : <<x, y>> \in R <=> x >= y
  OBVIOUS
<1>2. \A x, y \in S : x \in Nat /\ y \in Nat
  OBVIOUS
<1> HIDE DEF R
<1>3. ASSUME NEW x \in S, NEW y \in S PROVE <<x, y>> \in R \/ <<y, x>> \in R
  <2>1. x \in Nat /\ y \in Nat
    OBVIOUS
  <2>2. x >= y \/ y >= x
    BY <2>1
  <2> QED
    BY <1>1, <2>2
<1>4. ASSUME NEW x \in S, NEW y \in S, NEW z \in S, <<x, y>> \in R, <<y, z>> \in R
      PROVE  <<x, z>> \in R
  <2>1. x \in Nat /\ y \in Nat /\ z \in Nat /\ x >= y /\ y >= z
    BY <1>1, <1>2, <1>4
  <2> QED
    BY <1>1, <2>1
<1>5. PICK x \in S : \A y \in S : <<x, y>> \in R
  BY <1>3, <1>4, LeastInOrder
<1>6. \A y \in S : x >= y
  BY <1>1, <1>5
<1> QED
  BY <1>6 DEF Max

\* A sequence cut after its first k elements.
LEMMA SplitProperties ==
  ASSUME NEW S, NEW q \in Seq(S), NEW k \in 0 .. Len(q)
  PROVE  LET a == SubSeq(q, 1, k)
             b == SubSeq(q, k + 1, Len(q))
         IN  /\ a \in Seq(S) /\ Len(a) = k /\ \A i \in 1 .. k : a[i] = q[i]
             /\ b \in Seq(S) /\ Len(b) = Len(q) - k
             /\ \A i \in 1 .. Len(q) - k : b[i] = q[k + i]
             /\ Range(a) \cup Range(b) = Range(q)
             /\ IsInjective(q) => IsInjective(a) /\ IsInjective(b) /\ Range(a) \cap Range(b) = {}
<1> DEFINE a == SubSeq(q, 1, k)
           b == SubSeq(q, k + 1, Len(q))
<1>1. /\ Len(q) \in Nat /\ DOMAIN q = 1 .. Len(q)
      /\ a \in Seq(S) /\ Len(a) = k /\ \A i \in 1 .. k : a[i] = q[i]
  OBVIOUS
<1>2. b \in Seq(S) /\ Len(b) = Len(q) - k /\ \A i \in 1 .. Len(q) - k : b[i] = q[k + i]
  OBVIOUS
<1> HIDE DEF a, b
<1>3. DOMAIN a = 1 .. k /\ DOMAIN b = 1 .. Len(q) - k
  BY <1>1, <1>2
<1>4. Range(a) \cup Range(b) = Range(q)
  <2>1. ASSUME NEW i \in 1 .. Len(q) PROVE q[i] \in Range(a) \cup Range(b)
    <3>1. CASE i <= k
      BY <1>1, <1>3, <3>1 DEF Range
    <3>2. CASE i > k
      <4>1. i - k \in 1 .. Len(q) - k /\ b[i - k] = q[i]
        BY <1>1, <1>2, <3>2
      <4> QED
        BY <1>3, <4>1 DEF Range
    <3> QED
      BY <1>1, <3>1, <3>2
  <2>2. \A i \in 1 .. k : a[i] \in Range(q)
    BY <1>1 DEF Range
  <2>3. \A i \in 1 .. Len(q) - k : k + i \in 1 .. Len(q) /\ b[i] = q[k + i]
    BY <1>1, <1>2
  <2>4. \A i \in 1 .. Len(q) - k : b[i] \in Range(q)
    BY <1>1, <2>3 DEF Range
  <2>5. Range(a) \subseteq Range(q) /\ Range(b) \subseteq Range(q)
    BY <1>3, <2>2, <2>4 DEF Range
  <2>6. Range(q) \subseteq Range(a) \cup Range(b)
    BY <1>1, <2>1 DEF Range
  <2> QED
    BY <2>5, <2>6
<1>5. ASSUME IsInjective(q)
      PROVE  IsInjective(a) /\ IsInjective(b) /\ Range(a) \cap Range(b) = {}
  <2>1. \A i, j \in 1 .. Len(q) : q[i] = q[j] => i = j
    BY <1>1, <1>5 DEF IsInjective
  <2>2. IsInjective(a)
    BY <1>1, <1>3, <2>1 DEF IsInjective
  <2>3. IsInjective(b)
    <3> SUFFICES ASSUME NEW i \in 1 .. Len(q) - k, NEW j \in 1 .. Len(q) - k, b[i] = b[j]
                 PROVE  i = j
      BY <1>3 DEF IsInjective
    <3>1. k + i \in 1 .. Len(q) /\ k + j \in 1 .. Len(q) /\ q[k + i] = q[k + j]
      BY <1>1, <1>2
    <3>2. k + i = k + j
      BY <2>1, <3>1
    <3> QED
      BY <3>2
  <2>4. ASSUME NEW i \in 1 .. k, NEW j \in 1 .. Len(q) - k, a[i] = b[j] PROVE FALSE
    <3>1. i \in 1 .. Len(q) /\ k + j \in 1 .. Len(q) /\ q[i] = q[k + j]
      BY <1>1, <1>2, <2>4
    <3>2. i = k + j
      BY <2>1, <3>1
    <3> QED
      BY <3>2
  <2> QED
    BY <1>3, <2>2, <2>3, <2>4 DEF Range
<1> QED
  BY <1>1, <1>2, <1>4, <1>5 DEF a, b

\* The rest of a sequence without repetitions does not hold its head.
LEMMA InjectiveTail ==
  ASSUME NEW S, NEW s \in Seq(S), s # <<>>, IsInjective(s)
  PROVE  IsInjective(Tail(s)) /\ Range(Tail(s)) = Range(s) \ {Head(s)}
<1> DEFINE t == Tail(s)
<1>1. /\ t \in Seq(S) /\ Len(s) \in Nat /\ Len(s) > 0 /\ Len(t) = Len(s) - 1
      /\ \A i \in 1 .. Len(s) - 1 : t[i] = s[i + 1]
      /\ Head(s) = s[1]
  OBVIOUS
<1>2. DOMAIN s = 1 .. Len(s) /\ DOMAIN t = 1 .. Len(s) - 1
  BY <1>1
<1> HIDE DEF t
<1>3. \A i, j \in 1 .. Len(s) : s[i] = s[j] => i = j
  BY <1>2 DEF IsInjective
<1>4. IsInjective(t)
  <2> SUFFICES ASSUME NEW i \in 1 .. Len(s) - 1, NEW j \in 1 .. Len(s) - 1, t[i] = t[j]
               PROVE  i = j
    BY <1>2 DEF IsInjective
  <2>1. i + 1 \in 1 .. Len(s) /\ j + 1 \in 1 .. Len(s) /\ s[i + 1] = s[j + 1]
    BY <1>1
  <2>2. i + 1 = j + 1
    BY <1>3, <2>1
  <2> QED
    BY <2>2
<1>5. ASSUME NEW i \in 1 .. Len(s), i # 1 PROVE s[i] \in Range(t)
  <2>1. i - 1 \in 1 .. Len(s) - 1 /\ t[i - 1] = s[i]
    BY <1>1, <1>5
  <2> QED
    BY <1>2, <2>1 DEF Range
<1>6. ASSUME NEW i \in 1 .. Len(s) - 1 PROVE t[i] \in Range(s) \ {s[1]}
  <2>1. i + 1 \in 1 .. Len(s) /\ 1 \in 1 .. Len(s) /\ t[i] = s[i + 1] /\ i + 1 # 1
    BY <1>1
  <2> QED
    BY <1>2, <1>3, <2>1 DEF Range
<1> QED
  BY <1>1, <1>2, <1>4, <1>5, <1>6 DEF Range, t

\* A sequence without its last element, where that is a marker.
LEMMA DropMarker ==
  ASSUME NEW S, NEW e, NEW q \in Seq(S \cup {e}), \A i \in 1 .. Len(q) - 1 : q[i] # e, e \notin S
  PROVE  /\ RemoveFirst(q, e) \in Seq(S)
         /\ Range(RemoveFirst(q, e)) = Range(q) \ {e}
         /\ IsInjective(q) => IsInjective(RemoveFirst(q, e))
<1> DEFINE t == RemoveFirst(q, e)
<1>0. DOMAIN q = 1 .. Len(q) /\ Len(q) \in Nat
  OBVIOUS
<1>1. CASE e \notin Range(q)
  <2>1. t = q
    BY <1>0, <1>1 DEF RemoveFirst, Range
  <2>2. \A i \in 1 .. Len(q) : q[i] \in S
    BY <1>0, <1>1 DEF Range
  <2>3. q \in Seq(S)
    BY <2>2
  <2> QED
    BY <1>1, <2>1, <2>3
<1>2. CASE e \in Range(q)
  <2> DEFINE I == {i \in 1 .. Len(q) : q[i] = e}
  <2>1. I = {Len(q)} /\ Len(q) > 0
    BY <1>0, <1>2 DEF Range
  <2>2. Min(I) = Len(q)
    <3>1. I # {} /\ I \in SUBSET Nat
      BY <2>1
    <3>2. Min(I) \in I
      BY <3>1, MinIsLeast
    <3> QED
      BY <2>1, <3>2
  <2>3. t = RemoveAt(q, Len(q))
    BY <2>1, <2>2 DEF RemoveFirst, SelectInSeq
  <2> HIDE DEF I
  <2>4. t = SubSeq(q, 1, Len(q) - 1) \o SubSeq(q, Len(q) + 1, Len(q))
    BY <2>3 DEF RemoveAt
  <2>5. SubSeq(q, Len(q) + 1, Len(q)) = <<>>
    BY <1>0, SubSeqEmpty
  <2>6. t = SubSeq(q, 1, Len(q) - 1)
    BY <1>0, <2>1, <2>4, <2>5
  <2>7. /\ Len(t) = Len(q) - 1 /\ t \in Seq(S \cup {e})
        /\ \A i \in 1 .. Len(q) - 1 : t[i] = q[i]
    BY <1>0, <2>1, <2>6
  <2> HIDE DEF t
  <2>8. t \in Seq(S) /\ DOMAIN t = 1 .. Len(q) - 1
    <3>1. \A i \in 1 .. Len(t) : t[i] \in S
      BY <1>0, <2>7
    <3> QED
      BY <1>0, <2>7, <3>1
  <2>9. Range(t) = Range(q) \ {e}
    <3>1. \A i \in 1 .. Len(q) - 1 : i \in 1 .. Len(q) /\ q[i] # e
      BY <1>0
    <3>2. \A i \in 1 .. Len(q) : q[i] # e => i \in 1 .. Len(q) - 1
      BY <1>0, <2>1 DEF I
    <3> QED
      BY <1>0, <2>7, <2>8, <3>1, <3>2 DEF Range
  <2>10. ASSUME IsInjective(q) PROVE IsInjective(t)
    BY <1>0, <2>7, <2>8, <2>10 DEF IsInjective
  <2> QED
    BY <2>8, <2>9, <2>10 DEF t
<1> QED
  BY <1>1, <1>2

\* The quotient of a number written with a digit below the base.
LEMMA QuotientOfDigits ==
  ASSUME NEW B \in Nat, NEW s \in Nat, NEW k \in Nat, k < B
  PROVE  s * B + k \in Nat /\ (s * B + k) \div B = s
OBVIOUS

\* Only the empty sequence has no elements.
LEMMA EmptyRange ==
  ASSUME NEW S, NEW q \in Seq(S) PROVE Range(q) = {} <=> q = <<>>
<1>1. DOMAIN q = 1 .. Len(q) /\ Len(q) \in Nat
  OBVIOUS
<1>2. CASE q = <<>>
  BY <1>2 DEF Range
<1>3. CASE q # <<>>
  <2>1. Len(q) > 0
    BY <1>3
  <2>2. 1 \in DOMAIN q
    BY <1>1, <2>1
  <2> QED
    BY <1>3, <2>2 DEF Range
<1> QED
  BY <1>2, <1>3

==============================================================================
