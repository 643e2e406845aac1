------------------------- MODULE SubsequenceProofs --------------------------
(***************************************************************************)
(* What Keep does, for all sequences: the facts about util::erase_if and   *)
(* the selection loops that the proofs about the proxy rest on.            *)
(***************************************************************************)
EXTENDS Subsequence, Functions, FiniteSetTheorems, SequenceTheorems,
        WellFoundedInduction, TLAPS

\* A set of natural numbers that is not empty has a smallest element.
LEMMA LeastElement ==
    ASSUME NEW T \in SUBSET Nat, T # {}
    PROVE  \E n \in T : \A m \in T : n <= m
<1> DEFINE R == OpToRel(<, Nat)
<1>1. IsWellFoundedOn(R, Nat)
  BY NatLessThanWellFounded, Zenon
<1>2. \E n \in T : \A m \in T : ~ (<<m, n>> \in R)
  <2> HIDE DEF R
  <2> QED BY <1>1, WFMin, Zenon
<1>3. \A m, n \in Nat : m < n => <<m, n>> \in R
  BY DEF OpToRel
<1>4. PICK n \in T : \A m \in T : ~ (<<m, n>> \in R)
  BY <1>2, Zenon
<1>5. \A m \in T : ~(m < n)
  BY <1>3, <1>4, Zenon
<1> QED BY <1>5

\* The interval 1..n has n elements.
LEMMA Interval == \A n \in Nat : IsFiniteSet(1..n) /\ Cardinality(1..n) = n
<1> TAKE n \in Nat
<1>1. n \in Int /\ 1 \in Int
  OBVIOUS
<1>2. /\ IsFiniteSet(1..n)
      /\ Cardinality(1..n) = IF 1 > n THEN 0 ELSE n - 1 + 1
  BY <1>1, FS_Interval
<1> QED BY <1>2

\* The elements of I up to the k-th are k, for some element of I.
Numbered(I) ==
    \A k \in 1..Cardinality(I) : \E i \in I : Cardinality(I \cap (1..i)) = k

\* The elements of a set of positive integers can be numbered.
LEMMA NumberedBelow == \A n \in Nat : \A I \in SUBSET (1..n) : Numbered(I)
<1> DEFINE T == {n \in Nat : ~ \A I \in SUBSET (1..n) : Numbered(I)}
<1> SUFFICES ASSUME T # {} PROVE FALSE
  OBVIOUS
<1>1. PICK n \in T : \A m \in T : n <= m
  BY LeastElement, Zenon
<1>2. PICK I \in SUBSET (1..n) : ~Numbered(I)
  BY <1>1
<1>3. n \in Nat /\ IsFiniteSet(I) /\ Cardinality(I) \in Nat
  <2>1. n \in Nat
    BY <1>1
  <2>2. IsFiniteSet(I)
    BY <2>1, Interval, FS_Subset, Zenon
  <2> QED BY <2>1, <2>2, FS_CardinalityType
<1>4. PICK k \in 1..Cardinality(I) : \A i \in I : Cardinality(I \cap (1..i)) # k
  BY <1>2, Zenon DEF Numbered
<1>5. I # {}
  BY <1>3, <1>4, FS_EmptySet
<1>6. n > 0 /\ n - 1 \in Nat
  <2>1. PICK i \in 1..n : TRUE
    BY <1>5, Zenon
  <2> QED BY <2>1, <1>3
<1>7. \A J \in SUBSET (1..(n - 1)) : Numbered(J)
  BY <1>1, <1>6
<1>8. n \in I
  <2> SUFFICES ASSUME n \notin I PROVE FALSE
    OBVIOUS
  <2>1. I \in SUBSET (1..(n - 1))
    BY <1>3
  <2> QED BY <2>1, <1>2, <1>7
<1> DEFINE J == I \ {n}
<1>9. Cardinality(J) = Cardinality(I) - 1 /\ J \in SUBSET (1..(n - 1))
  <2>1. Cardinality(J) = Cardinality(I) - 1
    BY <1>3, <1>8, FS_RemoveElement, Zenon
  <2>2. \A i \in J : i \in 1..n /\ i # n
    OBVIOUS
  <2>3. \A i \in 1..n : i # n => i \in 1..(n - 1)
    BY <1>3
  <2>4. J \subseteq 1..(n - 1)
    BY <2>2, <2>3
  <2> QED BY <2>1, <2>4
<1>10. CASE k = Cardinality(I)
  <2>1. I \cap (1..n) = I
    BY Zenon
  <2> QED BY <2>1, <1>4, <1>8, <1>10
<1>11. CASE k # Cardinality(I)
  <2>1. k \in 1..Cardinality(J)
    BY <1>3, <1>9, <1>11
  <2>2. PICK i \in J : Cardinality(J \cap (1..i)) = k
    BY <2>1, <1>7, <1>9, Zenon DEF Numbered
  <2>3. I \cap (1..i) = J \cap (1..i)
    BY <2>2, <1>3, <1>9
  <2> QED BY <2>2, <2>3, <1>4
<1> QED BY <1>10, <1>11

\* The indices Keep selects, and their number.
LEMMA KeptAtFinite ==
    ASSUME NEW A, NEW s \in Seq(A), NEW S
    PROVE  /\ KeptAt(s, S) \in SUBSET (1..Len(s))
           /\ IsFiniteSet(KeptAt(s, S))
           /\ Cardinality(KeptAt(s, S)) \in Nat
           /\ Cardinality(KeptAt(s, S)) <= Len(s)
<1>1. KeptAt(s, S) \in SUBSET (1..Len(s)) /\ Len(s) \in Nat
  BY DEF KeptAt
<1>2. IsFiniteSet(1..Len(s)) /\ Cardinality(1..Len(s)) = Len(s)
  BY <1>1, Interval
<1> QED BY <1>1, <1>2, FS_Subset, FS_CardinalityType

\* Nth is what it says for the indices that Keep selects.
LEMMA NthKept ==
    ASSUME NEW A, NEW s \in Seq(A), NEW S, NEW k \in 1..Cardinality(KeptAt(s, S))
    PROVE  /\ Nth(KeptAt(s, S), k) \in KeptAt(s, S)
           /\ Cardinality(KeptAt(s, S) \cap (1..Nth(KeptAt(s, S), k))) = k
<1>1. KeptAt(s, S) \in SUBSET (1..Len(s)) /\ Len(s) \in Nat
  BY KeptAtFinite
<1>2. Numbered(KeptAt(s, S))
  BY <1>1, NumberedBelow, Zenon
<1>3. \E i \in KeptAt(s, S) : Cardinality(KeptAt(s, S) \cap (1..i)) = k
  BY <1>2, Zenon DEF Numbered
<1> QED BY <1>3, Zenon DEF Nth

IsNth(I, k) == Nth(I, k) \in I /\ Cardinality(I \cap (1..Nth(I, k))) = k

\* The same, of the positions kept.
LEMMA KeptIsNth ==
    ASSUME NEW A, NEW s \in Seq(A), NEW S, NEW k \in 1..Cardinality(KeptAt(s, S))
    PROVE  IsNth(KeptAt(s, S), k)
BY NthKept DEF IsNth

\* Keep returns a sequence of elements of both.
THEOREM KeepType ==
    ASSUME NEW A, NEW s \in Seq(A), NEW S
    PROVE  Keep(s, S) \in Seq(A \cap S)
<1>1. Cardinality(KeptAt(s, S)) \in Nat
  BY KeptAtFinite
<1>2. ASSUME NEW k \in 1..Cardinality(KeptAt(s, S))
      PROVE  s[Nth(KeptAt(s, S), k)] \in A \cap S
  <2>1. Nth(KeptAt(s, S), k) \in KeptAt(s, S)
    BY NthKept, Zenon
  <2> QED BY <2>1 DEF KeptAt
<1> QED BY <1>1, <1>2 DEF Keep

-----------------------------------------------------------------------------
(***************************************************************************)
(* Queues that are read at one end and written at the other.               *)
(***************************************************************************)
\* The rest of a sequence after its first k elements.
LEMMA Rest ==
    ASSUME NEW C, NEW q \in Seq(C), NEW k \in 0..Len(q)
    PROVE  /\ SubSeq(q, k + 1, Len(q)) \in Seq(C)
           /\ Len(SubSeq(q, k + 1, Len(q))) = Len(q) - k
           /\ \A i \in 1..(Len(q) - k) : SubSeq(q, k + 1, Len(q))[i] = q[k + i]
<1>1. Len(q) \in Nat /\ k + 1 \in Int /\ \A i \in (k + 1)..Len(q) : q[i] \in C
  OBVIOUS
<1> DEFINE r == SubSeq(q, k + 1, Len(q))
<1>2. /\ r \in Seq(C)
      /\ Len(r) = IF k + 1 <= Len(q) THEN Len(q) - (k + 1) + 1 ELSE 0
      /\ \A i \in 1..(Len(q) - (k + 1) + 1) : r[i] = q[(k + 1) + i - 1]
  BY <1>1, SubSeqProperties
<1> HIDE DEF r
<1>3. Len(r) = Len(q) - k
  BY <1>1, <1>2
<1>4. ASSUME NEW i \in 1..(Len(q) - k) PROVE r[i] = q[k + i]
  <2>1. i \in 1..(Len(q) - (k + 1) + 1) /\ (k + 1) + i - 1 = k + i
    BY <1>1
  <2> QED BY <2>1, <1>2
<1> QED BY <1>2, <1>3, <1>4, Zenon DEF r

\* The first k elements of a sequence and the rest.
LEMMA Divided ==
    ASSUME NEW C, NEW q \in Seq(C), NEW k \in 0..Len(q)
    PROVE  /\ SubSeq(q, 1, k) \in Seq(C)
           /\ SubSeq(q, 1, k) \o SubSeq(q, k + 1, Len(q)) = q
<1>1. Len(q) \in Nat /\ \A i \in 1..k : q[i] \in C
  OBVIOUS
<1>2. SubSeq(q, 1, k) \in Seq(C)
  BY <1>1, SubSeqProperties
<1>3. 1 \in 1..(Len(q) + 1) /\ k \in (1 - 1)..Len(q) /\ Len(q) \in k..Len(q)
  BY <1>1
<1>4. SubSeq(q, 1, k) \o SubSeq(q, k + 1, Len(q)) = SubSeq(q, 1, Len(q))
  BY <1>3, ConcatAdjacentSubSeq, Zenon
<1> QED BY <1>2, <1>4, SubSeqFull, Zenon

\* Concatenation, as a name the provers do not look into.
Cat(p, q) == p \o q

\* A concatenation is a sequence, as long as its parts together.
LEMMA CatType ==
    ASSUME NEW C, NEW p \in Seq(C), NEW q \in Seq(C)
    PROVE  Cat(p, q) \in Seq(C) /\ Len(Cat(p, q)) = Len(p) + Len(q)
BY ConcatProperties DEF Cat

\* Concatenation is associative.
LEMMA CatAssociative ==
    \A C : \A p, q, r \in Seq(C) : Cat(Cat(p, q), r) = Cat(p, Cat(q, r))
<1>1. \A C : \A p, q, r \in Seq(C) : (p \o q) \o r = p \o (q \o r)
  BY ConcatAssociative, Zenon
<1> QED BY <1>1, Zenon DEF Cat

\* Two equal ends may be exchanged.
LEMMA Regroup ==
    ASSUME NEW C, NEW u \in Seq(C), NEW v \in Seq(C), NEW w \in Seq(C),
           NEW x \in Seq(C), NEW y \in Seq(C), Cat(v, w) = Cat(x, y)
    PROVE  Cat(Cat(u, v), w) = Cat(Cat(u, x), y)
<1>1. /\ Cat(Cat(u, v), w) = Cat(u, Cat(v, w))
      /\ Cat(Cat(u, x), y) = Cat(u, Cat(x, y))
  BY CatAssociative
<1> QED BY <1>1

\* What follows a common beginning is common.
LEMMA Cancel ==
    ASSUME NEW C, NEW u \in Seq(C), NEW v \in Seq(C), NEW w \in Seq(C),
           NEW x \in Seq(C), Cat(Cat(u, v), w) = Cat(u, x)
    PROVE  Cat(v, w) = x
<1>1. Cat(Cat(u, v), w) = Cat(u, Cat(v, w))
  BY CatAssociative
<1>2. u \o (v \o w) = u \o x
  BY ONLY <1>1, Cat(Cat(u, v), w) = Cat(u, x), Zenon DEF Cat
<1>3. v \o w \in Seq(C)
  BY ConcatProperties
<1>4. v \o w = x
  BY <1>2, <1>3, ConcatSimplifications, Zenon
<1> QED BY <1>4 DEF Cat

\* The rest of a concatenation, from a place in its first part.
LEMMA RestOfConcat ==
    ASSUME NEW C, NEW p \in Seq(C), NEW q \in Seq(C), NEW k \in 0..Len(p)
    PROVE  SubSeq(p \o q, k + 1, Len(p \o q)) = SubSeq(p, k + 1, Len(p)) \o q
<1> DEFINE a == SubSeq(p, 1, k)
           b == SubSeq(p, k + 1, Len(p))
           t == p \o q
           c == SubSeq(t, 1, k)
           d == SubSeq(t, k + 1, Len(t))
<1>1. a \in Seq(C) /\ b \in Seq(C) /\ a \o b = p
  BY Divided, Rest, Zenon
<1>2. t \in Seq(C) /\ Len(t) = Len(p) + Len(q) /\ Len(p) \in Nat /\ Len(q) \in Nat
  OBVIOUS
<1>3. k \in 0..Len(t)
  BY <1>2
<1>4. c \in Seq(C) /\ d \in Seq(C) /\ c \o d = t
  BY <1>2, <1>3, Divided, Rest, Zenon
<1>5. c = a
  <2>1. CASE k = 0
    BY <2>1, SubSeqEmpty
  <2>2. CASE k # 0
    <3>1. 1 \in 1..Len(p) /\ k \in 1..Len(p)
      BY <2>2
    <3> QED BY <3>1, SubSeqOfConcat1
  <2> QED BY <2>1, <2>2
<1>6. (a \o b) \o q = a \o d
  BY <1>1, <1>4, <1>5, Zenon
<1> HIDE DEF a, b, c, d
<1>7. b \o q = d
  <2>1. Cat(Cat(a, b), q) = Cat(a, d)
    BY ONLY <1>6, Zenon DEF Cat
  <2>2. Cat(b, q) = d
    BY <1>1, <1>4, <2>1, Cancel
  <2> QED BY <2>2 DEF Cat
<1> QED BY <1>7, Zenon DEF b, d

\* The references se answer the requests re one by one; nul answers any.
Follows(nul, se, re) ==
    /\ Len(se) = Len(re)
    /\ \A i \in 1..Len(se) : se[i] \in {nul, re[i]}

\* References answer requests after some of both are taken off.
LEMMA FollowsRest ==
    ASSUME NEW nul, NEW C, NEW se \in Seq(C), NEW re \in Seq(C), Follows(nul, se, re),
           NEW k \in 0..Len(re)
    PROVE  Follows(nul, SubSeq(se, k + 1, Len(se)), SubSeq(re, k + 1, Len(re)))
<1> DEFINE se1 == SubSeq(se, k + 1, Len(se))
           re1 == SubSeq(re, k + 1, Len(re))
<1>1. Len(se) = Len(re) /\ Len(re) \in Nat /\ k \in 0..Len(se)
  BY DEF Follows
<1>2. /\ Len(se1) = Len(se) - k
      /\ \A i \in 1..(Len(se) - k) : se1[i] = se[k + i]
  BY <1>1, Rest
<1>3. /\ Len(re1) = Len(re) - k
      /\ \A i \in 1..(Len(re) - k) : re1[i] = re[k + i]
  BY Rest
<1>4. \A i \in 1..(Len(re) - k) : k + i \in 1..Len(re)
  BY <1>1
<1> HIDE DEF se1, re1
<1>5. ASSUME NEW i \in 1..Len(se1) PROVE se1[i] \in {nul, re1[i]}
  BY <1>1, <1>2, <1>3, <1>4, Zenon DEF Follows
<1>6. Len(se1) = Len(re1)
  BY <1>1, <1>2, <1>3
<1>7. Follows(nul, se1, re1)
  BY <1>5, <1>6 DEF Follows
<1> QED BY <1>7 DEF se1, re1

\* References answer requests after some of both are added.
LEMMA FollowsConcat ==
    ASSUME NEW nul, NEW C, NEW se \in Seq(C), NEW re \in Seq(C), Follows(nul, se, re),
           NEW qu \in Seq(C)
    PROVE  Follows(nul, se \o qu, re \o qu)
<1>1. /\ Len(se \o qu) = Len(se) + Len(qu)
      /\ \A i \in 1..(Len(se) + Len(qu)) :
            (se \o qu)[i] = IF i <= Len(se) THEN se[i] ELSE qu[i - Len(se)]
  BY ConcatProperties
<1>2. /\ Len(re \o qu) = Len(re) + Len(qu)
      /\ \A i \in 1..(Len(re) + Len(qu)) :
            (re \o qu)[i] = IF i <= Len(re) THEN re[i] ELSE qu[i - Len(re)]
  BY ConcatProperties
<1>3. Len(se) = Len(re) /\ \A i \in 1..Len(se) : se[i] \in {nul, re[i]}
  BY DEF Follows
<1>4. Len(se) \in Nat /\ Len(qu) \in Nat
  OBVIOUS
<1> DEFINE a == se \o qu
           b == re \o qu
<1> HIDE DEF a, b
<1>5. ASSUME NEW i \in 1..Len(a) PROVE a[i] \in {nul, b[i]}
  <2>1. i \in 1..(Len(se) + Len(qu))
    BY <1>1 DEF a
  <2>2. CASE i <= Len(se)
    <3>1. i \in 1..Len(se)
      BY <2>1, <2>2, <1>4
    <3>2. a[i] = se[i] /\ b[i] = re[i]
      BY <2>1, <2>2, <1>1, <1>2, <1>3 DEF a, b
    <3> QED BY <3>1, <3>2, <1>3
  <2>3. CASE ~(i <= Len(se))
    BY <2>1, <2>3, <1>1, <1>2, <1>3 DEF a, b
  <2> QED BY <2>2, <2>3
<1>6. Len(a) = Len(b)
  BY <1>1, <1>2, <1>3 DEF a, b
<1> QED BY <1>5, <1>6 DEF Follows, a, b

\* k replies are read, the commands qu are sent, w of the requests written.
LEMMA FollowsAdvance ==
    ASSUME NEW nul, NEW C, NEW se \in Seq(C), NEW wi \in Seq(C), NEW ou \in Seq(C),
           NEW qu \in Seq(C), NEW k \in 0..Len(wi), Follows(nul, se, wi \o ou),
           NEW w \in 0..Len(ou \o qu)
    PROVE  Follows(nul, SubSeq(se, k + 1, Len(se)) \o qu,
                   (SubSeq(wi, k + 1, Len(wi)) \o SubSeq(ou \o qu, 1, w))
                       \o SubSeq(ou \o qu, w + 1, Len(ou \o qu)))
<1> DEFINE bu == ou \o qu
           re == wi \o ou
           se1 == SubSeq(se, k + 1, Len(se))
           re1 == SubSeq(re, k + 1, Len(re))
           wi1 == SubSeq(wi, k + 1, Len(wi))
           b1 == SubSeq(bu, 1, w)
           b2 == SubSeq(bu, w + 1, Len(bu))
<1>1. bu \in Seq(C) /\ re \in Seq(C) /\ Len(re) = Len(wi) + Len(ou)
  BY ConcatProperties
<1>2. k \in 0..Len(re) /\ k \in 0..Len(se)
  <2>1. Len(wi) \in Nat /\ Len(ou) \in Nat /\ Len(se) = Len(re)
    BY DEF Follows
  <2> QED BY <2>1, <1>1
<1>3. b1 \in Seq(C) /\ b2 \in Seq(C) /\ b1 \o b2 = bu
  BY <1>1, Divided, Rest, Zenon
<1>4. wi1 \in Seq(C) /\ se1 \in Seq(C) /\ re1 \in Seq(C)
  BY <1>1, <1>2, Rest, Zenon
<1>5. re1 = wi1 \o ou
  BY RestOfConcat, Zenon
<1>6. Follows(nul, se1, re1)
  BY <1>1, <1>2, FollowsRest, Zenon
<1> HIDE DEF se1, re1, wi1, b1, b2
<1>7. Follows(nul, se1 \o qu, re1 \o qu)
  BY <1>4, <1>6, FollowsConcat
<1>8. (wi1 \o b1) \o b2 = (wi1 \o ou) \o qu
  <2>1. Cat(b1, b2) = Cat(ou, qu)
    BY <1>3 DEF Cat
  <2>2. /\ wi1 \in Seq(C) /\ b1 \in Seq(C) /\ b2 \in Seq(C)
        /\ ou \in Seq(C) /\ qu \in Seq(C)
    BY <1>3, <1>4
  <2>3. Cat(Cat(wi1, b1), b2) = Cat(Cat(wi1, ou), qu)
    BY ONLY <2>1, <2>2, Regroup
  <2> QED BY ONLY <2>3, Zenon DEF Cat
<1>9. Follows(nul, se1 \o qu, (wi1 \o b1) \o b2)
  BY <1>5, <1>7, <1>8
<1> QED BY <1>9 DEF se1, wi1, b1, b2

-----------------------------------------------------------------------------
(***************************************************************************)
(* The elements of queues.                                                 *)
(***************************************************************************)
\* No element of S is twice in q.
Once(q, S) == \A i, j \in DOMAIN q : q[i] = q[j] /\ q[i] \in S => i = j

\* Where the elements of a concatenation come from.
LEMMA CatAt ==
    ASSUME NEW C, NEW p \in Seq(C), NEW q \in Seq(C)
    PROVE  /\ \A i \in 1..Len(p) : i \in 1..Len(Cat(p, q)) /\ Cat(p, q)[i] = p[i]
           /\ \A i \in 1..Len(q) : /\ i + Len(p) \in 1..Len(Cat(p, q))
                                   /\ Cat(p, q)[i + Len(p)] = q[i]
<1> DEFINE r == Cat(p, q)
<1>1. /\ r \in Seq(C) /\ Len(r) = Len(p) + Len(q)
      /\ \A i \in 1..Len(r) : r[i] = IF i <= Len(p) THEN p[i] ELSE q[i - Len(p)]
      /\ Len(p) \in Nat /\ Len(q) \in Nat
  BY ConcatProperties DEF Cat
<1> HIDE DEF r
<1>2. \A i \in 1..Len(p) : i \in 1..Len(r) /\ r[i] = p[i]
  BY <1>1
<1>3. ASSUME NEW i \in 1..Len(q)
      PROVE  i + Len(p) \in 1..Len(r) /\ r[i + Len(p)] = q[i]
  <2>1. /\ i + Len(p) \in 1..Len(r) /\ ~(i + Len(p) <= Len(p))
        /\ i + Len(p) - Len(p) = i
    BY <1>1
  <2>2. r[i + Len(p)] = q[i + Len(p) - Len(p)]
    BY <1>1, <2>1
  <2> QED BY <2>1, <2>2
<1> QED BY <1>2, <1>3 DEF r

\* A concatenation has the elements of its parts.
LEMMA RangeCat ==
    ASSUME NEW C, NEW p \in Seq(C), NEW q \in Seq(C)
    PROVE  Range(Cat(p, q)) = Range(p) \cup Range(q)
<1> DEFINE r == Cat(p, q)
<1>1. /\ r \in Seq(C) /\ Len(r) = Len(p) + Len(q)
      /\ \A i \in 1..Len(r) : r[i] = IF i <= Len(p) THEN p[i] ELSE q[i - Len(p)]
      /\ Len(p) \in Nat /\ Len(q) \in Nat
  BY ConcatProperties DEF Cat
<1>0. /\ \A i \in 1..Len(p) : i \in 1..Len(r) /\ r[i] = p[i]
      /\ \A i \in 1..Len(q) : i + Len(p) \in 1..Len(r) /\ r[i + Len(p)] = q[i]
  <2>1. \A i \in 1..Len(p) : i \in 1..Len(r) /\ r[i] = p[i]
    BY CatAt, Zenon
  <2>2. ASSUME NEW i \in 1..Len(q)
        PROVE  i + Len(p) \in 1..Len(r) /\ r[i + Len(p)] = q[i]
    BY CatAt
  <2> QED BY <2>1, <2>2
<1>2. DOMAIN r = 1..Len(r) /\ DOMAIN p = 1..Len(p) /\ DOMAIN q = 1..Len(q)
  BY <1>1
<1> HIDE DEF r
<1>3. ASSUME NEW i \in 1..Len(r) PROVE r[i] \in Range(p) \cup Range(q)
  <2>1. CASE i <= Len(p)
    <3>1. i \in 1..Len(p) /\ r[i] = p[i]
      BY <1>1, <2>1
    <3> QED BY <1>2, <3>1 DEF Range
  <2>2. CASE ~(i <= Len(p))
    <3>1. i - Len(p) \in 1..Len(q) /\ r[i] = q[i - Len(p)]
      BY <1>1, <2>2
    <3> QED BY <1>2, <3>1, Zenon DEF Range
  <2> QED BY <2>1, <2>2
<1>4. ASSUME NEW i \in 1..Len(p) PROVE p[i] \in Range(r)
  <2>1. i \in 1..Len(r) /\ r[i] = p[i]
    BY <1>0
  <2> QED BY <1>2, <2>1 DEF Range
<1>5. ASSUME NEW i \in 1..Len(q) PROVE q[i] \in Range(r)
  <2>1. i + Len(p) \in 1..Len(r) /\ r[i + Len(p)] = q[i]
    BY <1>0
  <2> QED BY <1>2, <2>1 DEF Range
<1>6. Range(r) \subseteq Range(p) \cup Range(q)
  BY <1>2, <1>3 DEF Range
<1>7. Range(p) \subseteq Range(r) /\ Range(q) \subseteq Range(r)
  BY <1>2, <1>4, <1>5 DEF Range
<1> QED BY <1>6, <1>7 DEF r

\* The elements of a sequence are of its type.
LEMMA RangeType == ASSUME NEW C, NEW q \in Seq(C) PROVE Range(q) \subseteq C
BY DEF Range

\* The empty sequence has no elements.
LEMMA RangeEmpty == Range(<<>>) = {}
BY DEF Range

\* What is once in a concatenation is in one of its parts.
LEMMA OnceParts ==
    ASSUME NEW C, NEW p \in Seq(C), NEW q \in Seq(C), NEW S, Once(Cat(p, q), S)
    PROVE  Once(p, S) /\ Once(q, S) /\ Range(p) \cap Range(q) \cap S = {}
<1> DEFINE r == Cat(p, q)
<1>1. /\ r \in Seq(C) /\ Len(r) = Len(p) + Len(q)
      /\ \A i \in 1..Len(r) : r[i] = IF i <= Len(p) THEN p[i] ELSE q[i - Len(p)]
      /\ Len(p) \in Nat /\ Len(q) \in Nat
  BY ConcatProperties DEF Cat
<1>0. /\ \A i \in 1..Len(p) : i \in 1..Len(r) /\ r[i] = p[i]
      /\ \A i \in 1..Len(q) : i + Len(p) \in 1..Len(r) /\ r[i + Len(p)] = q[i]
  <2>1. \A i \in 1..Len(p) : i \in 1..Len(r) /\ r[i] = p[i]
    BY CatAt, Zenon
  <2>2. ASSUME NEW i \in 1..Len(q)
        PROVE  i + Len(p) \in 1..Len(r) /\ r[i + Len(p)] = q[i]
    BY CatAt
  <2> QED BY <2>1, <2>2
<1>2. DOMAIN r = 1..Len(r) /\ DOMAIN p = 1..Len(p) /\ DOMAIN q = 1..Len(q)
  BY <1>1
<1>3. Once(r, S)
  OBVIOUS
<1> HIDE DEF r
<1>4. \A i \in 1..Len(p) : i \in 1..Len(r) /\ r[i] = p[i]
  BY <1>0
<1>5. \A i \in 1..Len(q) : i + Len(p) \in 1..Len(r) /\ r[i + Len(p)] = q[i]
  BY <1>0
<1>6. Once(p, S)
  BY <1>2, <1>3, <1>4 DEF Once
<1>7. ASSUME NEW i \in 1..Len(q), NEW j \in 1..Len(q), q[i] = q[j], q[i] \in S
      PROVE  i = j
  <2>1. i + Len(p) = j + Len(p)
    BY <1>2, <1>3, <1>5, <1>7 DEF Once
  <2> QED BY <1>1, <2>1
<1>8. ASSUME NEW i \in 1..Len(p), NEW j \in 1..Len(q), p[i] = q[j], p[i] \in S
      PROVE  FALSE
  <2>1. i = j + Len(p)
    BY <1>2, <1>3, <1>4, <1>5, <1>8, Zenon DEF Once
  <2> QED BY <1>1, <2>1
<1>9. Once(q, S)
  BY <1>2, <1>7 DEF Once
<1>10. Range(p) \cap Range(q) \cap S = {}
  BY <1>2, <1>8 DEF Range
<1> QED BY <1>6, <1>9, <1>10

\* Parts that have nothing of S in common make a whole.
LEMMA OnceCat ==
    ASSUME NEW C, NEW p \in Seq(C), NEW q \in Seq(C), NEW S,
           Once(p, S), Once(q, S), Range(p) \cap Range(q) \cap S = {}
    PROVE  Once(Cat(p, q), S)
<1> DEFINE r == Cat(p, q)
<1>1. /\ r \in Seq(C) /\ Len(r) = Len(p) + Len(q)
      /\ \A i \in 1..Len(r) : r[i] = IF i <= Len(p) THEN p[i] ELSE q[i - Len(p)]
      /\ Len(p) \in Nat /\ Len(q) \in Nat
  BY ConcatProperties DEF Cat
<1>2. DOMAIN r = 1..Len(r) /\ DOMAIN p = 1..Len(p) /\ DOMAIN q = 1..Len(q)
  BY <1>1
<1> HIDE DEF r
<1> SUFFICES ASSUME NEW i \in 1..Len(r), NEW j \in 1..Len(r), r[i] = r[j],
                    r[i] \in S
             PROVE  i = j
  BY <1>2 DEF Once, r
<1>3. ASSUME NEW k \in 1..Len(r), k <= Len(p)
      PROVE  k \in DOMAIN p /\ r[k] = p[k] /\ p[k] \in Range(p)
  <2>1. k \in 1..Len(p) /\ r[k] = p[k]
    BY <1>1, <1>3
  <2> QED BY <1>2, <2>1, Zenon DEF Range
<1>4. ASSUME NEW k \in 1..Len(r), ~(k <= Len(p))
      PROVE  /\ k - Len(p) \in DOMAIN q /\ r[k] = q[k - Len(p)]
             /\ q[k - Len(p)] \in Range(q)
  <2>1. k - Len(p) \in 1..Len(q) /\ r[k] = q[k - Len(p)]
    BY <1>1, <1>4
  <2> QED BY <1>2, <2>1, Zenon DEF Range
<1>5. CASE i <= Len(p) /\ j <= Len(p)
  BY <1>3, <1>5 DEF Once
<1>6. CASE ~(i <= Len(p)) /\ ~(j <= Len(p))
  <2>1. i - Len(p) = j - Len(p)
    BY <1>4, <1>6, Zenon DEF Once
  <2> QED BY <1>1, <2>1
<1>7. CASE i <= Len(p) /\ ~(j <= Len(p))
  BY <1>3, <1>4, <1>7
<1>8. CASE ~(i <= Len(p)) /\ j <= Len(p)
  BY <1>3, <1>4, <1>8
<1> QED BY <1>5, <1>6, <1>7, <1>8

\* Two of the indices Keep selects are numbered differently.
LEMMA KeptApart ==
    ASSUME NEW A, NEW s \in Seq(A), NEW S, NEW i \in KeptAt(s, S),
           NEW j \in KeptAt(s, S), i < j
    PROVE  /\ Cardinality(KeptAt(s, S) \cap (1..i)) # Cardinality(KeptAt(s, S) \cap (1..j))
<1> DEFINE I == KeptAt(s, S)
           P == I \cap (1..i)
           Q == I \cap (1..j)
<1>1. I \in SUBSET (1..Len(s)) /\ IsFiniteSet(I) /\ Len(s) \in Nat
  BY KeptAtFinite
<1>2. i \in Nat /\ j \in Nat /\ j \in 1..j /\ j \notin 1..i
  BY <1>1
<1>3. IsFiniteSet(Q)
  BY <1>1, FS_Subset
<1>4. \A k \in 1..i : k \in 1..j
  BY <1>2
<1>5. P \in SUBSET Q /\ P # Q
  BY <1>2, <1>4
<1> HIDE DEF P, Q
<1>6. Cardinality(P) # Cardinality(Q)
  BY <1>3, <1>5, FS_Subset
<1> QED BY <1>6 DEF P, Q

\* Keep keeps the elements of S.
LEMMA RangeKeep ==
    ASSUME NEW A, NEW s \in Seq(A), NEW S
    PROVE  Range(Keep(s, S)) = Range(s) \cap S
<1> DEFINE I == KeptAt(s, S)
           n == Cardinality(I)
           q == Keep(s, S)
<1>1. /\ I \in SUBSET (1..Len(s)) /\ IsFiniteSet(I) /\ n \in Nat /\ Len(s) \in Nat
      /\ DOMAIN s = 1..Len(s)
  BY KeptAtFinite
<1>2. DOMAIN q = 1..n /\ \A k \in 1..n : q[k] = s[Nth(I, k)]
  BY DEF Keep
<1>3. ASSUME NEW k \in 1..n PROVE q[k] \in Range(s) \cap S
  <2>1. Nth(I, k) \in I
    BY NthKept, Zenon
  <2>2. Nth(I, k) \in DOMAIN s /\ s[Nth(I, k)] \in S
    BY <2>1 DEF KeptAt
  <2> QED BY <1>2, <2>2 DEF Range
<1>4. ASSUME NEW i \in I PROVE s[i] \in Range(q)
  <2> DEFINE P == I \cap (1..i)
             k == Cardinality(P)
  <2>1. i \in Nat /\ i \in 1..i
    BY <1>1
  <2>2. IsFiniteSet(P) /\ k <= n /\ k \in Nat
    BY <1>1, FS_Subset, FS_CardinalityType
  <2>3. P # {}
    BY <2>1
  <2>4. k # 0
    <3> HIDE DEF P
    <3> QED BY <2>2, <2>3, FS_EmptySet
  <2>5. k \in 1..n
    <3> HIDE DEF k, n
    <3> QED BY <1>1, <2>2, <2>4
  <2>6. Nth(I, k) \in I /\ Cardinality(I \cap (1..Nth(I, k))) = k
    <3> HIDE DEF k
    <3>1. IsNth(I, k)
      BY <2>5, KeptIsNth, Zenon
    <3> QED BY <3>1 DEF IsNth
  <2>7. Nth(I, k) \in Nat
    BY <1>1, <2>6
  <2>8. ~(Nth(I, k) < i) /\ ~(i < Nth(I, k))
    <3> HIDE DEF k
    <3>1. k = Cardinality(I \cap (1..i))
      BY DEF k
    <3> QED BY <2>6, <3>1, KeptApart, Zenon
  <2>9. Nth(I, k) = i
    <3> HIDE DEF k, I
    <3> QED BY <2>1, <2>7, <2>8
  <2>10. q[k] = s[i]
    BY <1>2, <2>5, <2>9
  <2> QED BY <1>2, <2>5, <2>10 DEF Range
<1> HIDE DEF q, n
<1>5. Range(q) \subseteq Range(s) \cap S
  BY <1>2, <1>3 DEF Range
<1>6. \A x \in Range(s) \cap S : \E i \in I : x = s[i]
  BY <1>1 DEF Range, KeptAt
<1>7. Range(s) \cap S \subseteq Range(q)
  BY <1>4, <1>6
<1> QED BY <1>5, <1>7 DEF q

\* Keep repeats nothing.
LEMMA OnceKeep ==
    ASSUME NEW A, NEW s \in Seq(A), NEW S, NEW T, Once(s, T)
    PROVE  Once(Keep(s, S), T)
<1> DEFINE I == KeptAt(s, S)
           n == Cardinality(I)
           q == Keep(s, S)
<1>1. DOMAIN q = 1..n /\ \A k \in 1..n : q[k] = s[Nth(I, k)]
  BY DEF Keep
<1>2. ASSUME NEW k \in 1..n, NEW l \in 1..n, q[k] = q[l], q[k] \in T
      PROVE  k = l
  <2>1. IsNth(I, k)
    BY KeptIsNth, Zenon
  <2>2. IsNth(I, l)
    BY KeptIsNth, Zenon
  <2>5. Nth(I, k) \in DOMAIN s /\ Nth(I, l) \in DOMAIN s
    BY <2>1, <2>2 DEF IsNth, KeptAt
  <2>3. s[Nth(I, k)] = s[Nth(I, l)] /\ s[Nth(I, k)] \in T
    BY <1>1, <1>2
  <2>4. Nth(I, k) = Nth(I, l)
    BY <2>3, <2>5 DEF Once
  <2> QED BY <2>1, <2>2, <2>4 DEF IsNth
<1> QED BY <1>1, <1>2 DEF Once
=============================================================================
