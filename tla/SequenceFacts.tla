--------------------------- MODULE SequenceFacts ----------------------------
(***************************************************************************)
(* What the proofs need to know of sequences without repetition and the    *)
(* sets of their elements (Append, Tail, concatenation), of least and      *)
(* smallest elements, and induction over the natural numbers for a set.    *)
(***************************************************************************)
EXTENDS SequencesExt, Integers, SequenceTheorems, FiniteSetTheorems,
        WellFoundedInduction, TLAPS

(* An element of Append(s, x) is x or an element of s.                      *)
LEMMA AppendElement ==
    ASSUME NEW S, NEW s \in Seq(S), NEW e \in S
    PROVE  /\ Append(s, e) \in Seq(S)
           /\ ToSet(Append(s, e)) = ToSet(s) \cup {e}
           /\ IsInjective(s) /\ e \notin ToSet(s) => IsInjective(Append(s, e))
  <1> DEFINE t == Append(s, e)
  <1>1. /\ t \in Seq(S)
        /\ Len(t) = Len(s) + 1
        /\ \A i \in 1..Len(s) : t[i] = s[i]
        /\ t[Len(s) + 1] = e
    OBVIOUS
  <1>2. DOMAIN t = 1..(Len(s) + 1) /\ DOMAIN s = 1..Len(s) /\ Len(s) \in Nat
    BY <1>1
  <1>3. ToSet(t) = ToSet(s) \cup {e}
    BY <1>1, <1>2 DEF ToSet
  <1>4. IsInjective(s) /\ e \notin ToSet(s) => IsInjective(t)
    BY <1>1, <1>2 DEF ToSet, IsInjective
  <1> QED
    BY <1>1, <1>3, <1>4

(* Insertion adds an element, wherever it puts it.                          *)
LEMMA InsertElement ==
    ASSUME NEW S, NEW s \in Seq(S), NEW e \in S, NEW i \in 1..(Len(s) + 1)
    PROVE  /\ InsertAt(s, i, e) \in Seq(S)
           /\ ToSet(InsertAt(s, i, e)) = ToSet(s) \cup {e}
           /\ IsInjective(s) /\ e \notin ToSet(s) =>
                 IsInjective(InsertAt(s, i, e))
  <1> DEFINE t == InsertAt(s, i, e)
  <1>1. Len(s) \in Nat /\ DOMAIN s = 1..Len(s) /\ i \in Nat /\ i >= 1
    OBVIOUS
  <1>2. /\ t \in Seq(S)
        /\ Len(t) = Len(s) + 1
        /\ \A k \in 1..(Len(s) + 1) :
              t[k] = IF k < i THEN s[k] ELSE IF k = i THEN e ELSE s[k - 1]
    <2> DEFINE front == SubSeq(s, 1, i - 1)
               back == SubSeq(s, i, Len(s))
    <2>1. /\ front \in Seq(S)
          /\ Len(front) = i - 1
          /\ \A k \in 1..(i - 1) : front[k] = s[k]
      BY <1>1, SubSeqProperties
    <2>2. /\ back \in Seq(S)
          /\ Len(back) = Len(s) - i + 1
          /\ \A k \in 1..(Len(s) - i + 1) : back[k] = s[i + k - 1]
      BY <1>1, SubSeqProperties
    <2>3. /\ <<e>> \in Seq(S)
          /\ Len(<<e>>) = 1
          /\ <<e>>[1] = e
      OBVIOUS
    <2> HIDE DEF front, back
    <2>4. /\ front \o <<e>> \in Seq(S)
          /\ Len(front \o <<e>>) = i
          /\ \A k \in 1..i :
                (front \o <<e>>)[k] = IF k < i THEN s[k] ELSE e
      BY <2>1, <2>3, <1>1, ConcatProperties
    <2> DEFINE u == front \o <<e>>
    <2> HIDE DEF u
    <2>5. /\ u \o back \in Seq(S)
          /\ Len(u \o back) = Len(s) + 1
          /\ \A k \in 1..(Len(s) + 1) :
                (u \o back)[k] = IF k <= i THEN u[k] ELSE back[k - i]
      <3>1. u \in Seq(S) /\ Len(u) = i
        BY <2>4 DEF u
      <3>2. /\ u \o back \in Seq(S)
            /\ Len(u \o back) = Len(u) + Len(back)
            /\ \A k \in 1..(Len(u) + Len(back)) :
                  (u \o back)[k] = IF k <= Len(u) THEN u[k] ELSE back[k - Len(u)]
        BY <2>2, <3>1, ConcatProperties
      <3>3. Len(u) + Len(back) = Len(s) + 1
        BY <2>2, <3>1, <1>1
      <3> QED
        BY <3>1, <3>2, <3>3
    <2>6. t = u \o back
      BY DEF InsertAt, u, front, back
    <2>7. ASSUME NEW k \in 1..(Len(s) + 1)
          PROVE  t[k] = IF k < i THEN s[k] ELSE IF k = i THEN e ELSE s[k - 1]
      <3>1. CASE k <= i
        BY <3>1, <2>4, <2>5, <2>6, <1>1 DEF u
      <3>2. CASE k > i
        <4>1. k - i \in 1..(Len(s) - i + 1) /\ i + (k - i) - 1 = k - 1
          BY <3>2, <1>1
        <4>2. back[k - i] = s[k - 1]
          BY <4>1, <2>2
        <4> QED
          <5>1. t[k] = back[k - i]
            <6>1. ~(k <= i)
              BY <3>2, <2>7, <1>1
            <6> QED
              BY <2>5, <2>6, <2>7, <6>1
          <5>2. ~(k < i) /\ k # i
            BY <3>2, <2>7, <1>1
          <5> QED
            BY <4>2, <5>1, <5>2
      <3> QED
        BY <3>1, <3>2, <1>1
    <2> QED
      BY <2>5, <2>6, <2>7
  <1>3. DOMAIN t = 1..(Len(s) + 1)
    BY <1>2
  <1> HIDE DEF t
  <1>4. ToSet(t) \subseteq ToSet(s) \cup {e}
    <2> SUFFICES ASSUME NEW k \in 1..(Len(s) + 1)
                 PROVE  t[k] \in ToSet(s) \cup {e}
      BY <1>3 DEF ToSet
    <2>1. \A m \in 1..Len(s) : s[m] \in ToSet(s)
      BY <1>1 DEF ToSet
    <2>2. CASE k < i
      BY <2>1, <2>2, <1>1, <1>2
    <2>3. CASE k = i
      BY <2>3, <1>1, <1>2
    <2>4. CASE k > i
      <3>1. k - 1 \in 1..Len(s) /\ t[k] = s[k - 1]
        BY <2>4, <1>1, <1>2
      <3> QED
        BY <3>1, <2>1
    <2> QED
      BY <2>2, <2>3, <2>4, <1>1
  <1>5. e \in ToSet(t)
    BY <1>1, <1>2, <1>3 DEF ToSet
  <1>6. ToSet(s) \subseteq ToSet(t)
    <2> SUFFICES ASSUME NEW k \in 1..Len(s) PROVE s[k] \in ToSet(t)
      BY <1>1 DEF ToSet
    <2>1. CASE k < i
      <3>1. k \in 1..(Len(s) + 1) /\ t[k] = s[k]
        BY <2>1, <1>1, <1>2
      <3> QED
        BY <3>1, <1>3 DEF ToSet
    <2>2. CASE k >= i
      <3>1. k + 1 \in 1..(Len(s) + 1) /\ t[k + 1] = s[k]
        BY <2>2, <1>1, <1>2
      <3> QED
        BY <3>1, <1>3 DEF ToSet
    <2> QED
      BY <2>1, <2>2, <1>1
  <1>7. ASSUME IsInjective(s), e \notin ToSet(s),
               NEW a \in 1..(Len(s) + 1), NEW b \in 1..(Len(s) + 1),
               t[a] = t[b]
        PROVE  a = b
    <2> DEFINE old(k) == IF k < i THEN k ELSE k - 1
    <2>1. \A k \in 1..(Len(s) + 1) :
             k # i => old(k) \in 1..Len(s) /\ t[k] = s[old(k)]
      BY <1>1, <1>2
    <2>2. \A k \in 1..Len(s) : s[k] # e
      BY <1>1, <1>7 DEF ToSet
    <2>3. \A k \in 1..(Len(s) + 1) : t[k] = e <=> k = i
      BY <2>1, <2>2, <1>1, <1>2
    <2>4. CASE a # i /\ b # i
      <3>1. old(a) = old(b)
        <4>1. /\ old(a) \in 1..Len(s) /\ t[a] = s[old(a)]
              /\ old(b) \in 1..Len(s) /\ t[b] = s[old(b)]
          BY <2>1, <2>4, <1>7
        <4>2. \A k, m \in 1..Len(s) : s[k] = s[m] => k = m
          BY <1>1, <1>7 DEF IsInjective
        <4> HIDE DEF old
        <4> QED
          BY <4>1, <4>2, <1>7
      <3> QED
        BY <3>1, <2>4, <1>1
    <2> QED
      BY <2>3, <2>4, <1>7
  <1>8. IsInjective(s) /\ e \notin ToSet(s) => IsInjective(t)
    BY <1>3, <1>7 DEF IsInjective
  <1> QED
    BY <1>2, <1>4, <1>5, <1>6, <1>8 DEF t

(* The head of a sequence without repetitions is not in its tail, and the   *)
(* tail has no repetitions either.                                          *)
LEMMA TailElements ==
    ASSUME NEW S, NEW s \in Seq(S), s # <<>>
    PROVE  /\ Tail(s) \in Seq(S)
           /\ Head(s) \in ToSet(s)
           /\ ToSet(s) = ToSet(Tail(s)) \cup {Head(s)}
           /\ IsInjective(s) =>
                 IsInjective(Tail(s)) /\ Head(s) \notin ToSet(Tail(s))
  <1> DEFINE t == Tail(s)
  <1>1. /\ t \in Seq(S)
        /\ Len(s) \in Nat \ {0}
        /\ Len(t) = Len(s) - 1
        /\ \A i \in 1..Len(t) : t[i] = s[i + 1]
        /\ Head(s) = s[1]
    BY HeadTailProperties, EmptySeq
  <1>2. DOMAIN t = 1..(Len(s) - 1) /\ DOMAIN s = 1..Len(s)
    BY <1>1
  <1>3. ToSet(t) \cup {Head(s)} \subseteq ToSet(s)
    BY <1>1, <1>2 DEF ToSet
  <1>4. ToSet(s) \subseteq ToSet(t) \cup {Head(s)}
    <2> SUFFICES ASSUME NEW i \in 1..Len(s)
                 PROVE  s[i] \in ToSet(t) \cup {Head(s)}
      BY <1>2 DEF ToSet
    <2>1. CASE i = 1
      BY <2>1, <1>1
    <2>2. CASE i # 1
      <3>1. i - 1 \in 1..Len(t) /\ s[i] = t[i - 1]
        BY <2>2, <1>1
      <3> QED
        BY <3>1, <1>1, <1>2 DEF ToSet
    <2> QED
      BY <2>1, <2>2
  <1>5. IsInjective(s) => IsInjective(t) /\ Head(s) \notin ToSet(t)
    <2> SUFFICES ASSUME IsInjective(s)
                 PROVE  IsInjective(t) /\ Head(s) \notin ToSet(t)
      OBVIOUS
    <2>1. \A i, j \in 1..Len(s) : s[i] = s[j] => i = j
      BY <1>2 DEF IsInjective
    <2>2. \A i \in 1..Len(t) : i + 1 \in 1..Len(s) /\ i + 1 # 1 /\ t[i] = s[i + 1]
      BY <1>1
    <2>3. \A i, j \in 1..Len(t) : t[i] = t[j] => i = j
      <3> SUFFICES ASSUME NEW i \in 1..Len(t), NEW j \in 1..Len(t), t[i] = t[j]
                   PROVE  i = j
        OBVIOUS
      <3>1. i + 1 = j + 1
        BY <2>1, <2>2
      <3> QED
        BY <3>1
    <2>4. 1 \in 1..Len(s)
      BY <1>1
    <2>5. \A i \in 1..Len(t) : t[i] # Head(s)
      BY <1>1, <2>1, <2>2, <2>4
    <2>6. DOMAIN t = 1..Len(t)
      BY <1>1, <1>2
    <2> QED
      BY <2>3, <2>5, <2>6 DEF ToSet, IsInjective
  <1> QED
    BY <1>1, <1>2, <1>3, <1>4, <1>5 DEF ToSet

(* Two sequences without repetitions and without a common element           *)
(* concatenate to one; both keep their order in it.                         *)
LEMMA ConcatOrder ==
    ASSUME NEW S, NEW s \in Seq(S), NEW T \in SUBSET S, NEW n \in Nat,
           NEW q \in Bijection(1..n, T)
    PROVE  /\ s \o q \in Seq(S)
           /\ ToSet(s \o q) = ToSet(s) \cup T
           /\ IsInjective(s) /\ ToSet(s) \cap T = {} => IsInjective(s \o q)
  <1>1. /\ q \in [1..n -> T]
        /\ \A a, b \in 1..n : q[a] = q[b] => a = b
        /\ \A x \in T : \E i \in 1..n : q[i] = x
    BY DEF Bijection, Injection, Surjection, IsInjective
  <1>2. q \in Seq(S) /\ Len(q) = n
    BY <1>1
  <1> DEFINE t == s \o q
  <1>3. /\ t \in Seq(S)
        /\ Len(t) = Len(s) + n
        /\ \A i \in 1..(Len(s) + n) :
              t[i] = IF i <= Len(s) THEN s[i] ELSE q[i - Len(s)]
    BY <1>2, ConcatProperties
  <1>4. DOMAIN t = 1..(Len(s) + n) /\ DOMAIN s = 1..Len(s) /\ Len(s) \in Nat
    BY <1>3
  <1>5. ToSet(t) \subseteq ToSet(s) \cup T
    <2> SUFFICES ASSUME NEW i \in 1..(Len(s) + n)
                 PROVE  t[i] \in ToSet(s) \cup T
      BY <1>4 DEF ToSet
    <2>1. CASE i <= Len(s)
      <3>1. i \in 1..Len(s) /\ t[i] = s[i]
        BY <2>1, <1>3, <1>4
      <3> QED
        BY <3>1, <1>4 DEF ToSet
    <2>2. CASE ~(i <= Len(s))
      <3>1. i - Len(s) \in 1..n /\ t[i] = q[i - Len(s)]
        BY <2>2, <1>3, <1>4
      <3> QED
        BY <3>1, <1>1
    <2> QED
      BY <2>1, <2>2
  <1>6. ToSet(s) \subseteq ToSet(t)
    <2>1. \A i \in 1..Len(s) : i \in 1..(Len(s) + n) /\ t[i] = s[i]
      BY <1>3, <1>4
    <2> QED
      BY <2>1, <1>4 DEF ToSet
  <1>7. T \subseteq ToSet(t)
    <2> SUFFICES ASSUME NEW x \in T PROVE x \in ToSet(t)
      OBVIOUS
    <2>1. PICK i \in 1..n : q[i] = x
      BY <1>1
    <2>2. Len(s) + i \in 1..(Len(s) + n) /\ t[Len(s) + i] = q[i]
      BY <1>3, <1>4
    <2> QED
      BY <2>1, <2>2, <1>4 DEF ToSet
  <1>8. ASSUME IsInjective(s), ToSet(s) \cap T = {}
        PROVE  IsInjective(t)
    <2> SUFFICES ASSUME NEW a \in 1..(Len(s) + n), NEW b \in 1..(Len(s) + n),
                        t[a] = t[b]
                 PROVE  a = b
      BY <1>4 DEF IsInjective
    <2>1. \A i \in 1..Len(s) : s[i] \notin T
      BY <1>8, <1>4 DEF ToSet
    <2>2. \A i \in 1..(Len(s) + n) : i > Len(s) => i - Len(s) \in 1..n
      BY <1>4
    <2>3. CASE a <= Len(s) /\ b <= Len(s)
      BY <2>3, <1>8, <1>3, <1>4 DEF IsInjective
    <2>4. CASE a > Len(s) /\ b > Len(s)
      <3>1. q[a - Len(s)] = q[b - Len(s)]
        BY <2>4, <1>3, <1>4
      <3> QED
        BY <3>1, <2>2, <2>4, <1>1, <1>4
    <2>5. CASE a <= Len(s) /\ b > Len(s)
      BY <2>5, <2>1, <2>2, <1>1, <1>3, <1>4
    <2>6. CASE a > Len(s) /\ b <= Len(s)
      BY <2>6, <2>1, <2>2, <1>1, <1>3, <1>4
    <2> QED
      BY <2>3, <2>4, <2>5, <2>6, <1>4
  <1> QED
    BY <1>3, <1>5, <1>6, <1>7, <1>8

LEMMA SmallestSubset ==
    ASSUME NEW S, IsFiniteSet(S), NEW F \in SUBSET (SUBSET S), F # {}
    PROVE  \E T \in F : \A U \in F : U \subseteq T => U = T
  <1>1. F \subseteq FiniteSubsetsOf(S)
    BY FS_Subset DEF FiniteSubsetsOf
  <1>2. PICK T \in F : \A U \in F : <<U, T>> \notin StrictSubsetOrdering(S)
    BY <1>1, FS_StrictSubsetOrderingWellFounded, WFMin
  <1> QED
    BY <1>2 DEF StrictSubsetOrdering

LEMMA LeastNatural ==
    ASSUME NEW T \in SUBSET Nat, T # {}
    PROVE  \E m \in T : \A k \in T : m <= k
  <1> DEFINE F == {0..k : k \in T}
  <1>1. F \subseteq FiniteSubsetsOf(Nat) /\ F # {}
    <2>1. \A k \in T : 0..k \subseteq Nat /\ IsFiniteSet(0..k)
      BY FS_Interval
    <2> QED
      BY <2>1 DEF FiniteSubsetsOf
  <1>2. PICK A \in F : \A B \in F : <<B, A>> \notin StrictSubsetOrdering(Nat)
    BY <1>1, FS_StrictSubsetOrderingWellFounded, WFMin
  <1>3. PICK m \in T : A = 0..m
    OBVIOUS
  <1>4. ASSUME NEW k \in T, k < m
        PROVE  FALSE
    <2>1. 0..k \in F /\ 0..k \subseteq A /\ m \in A /\ m \notin 0..k
      BY <1>3, <1>4
    <2> QED
      BY <2>1, <1>1, <1>2 DEF StrictSubsetOrdering, FiniteSubsetsOf
  <1> QED
    BY <1>4

LEMMA NaturalInduction ==
    ASSUME NEW B, 0 \in B, \A n \in Nat : n \in B => n + 1 \in B
    PROVE  Nat \subseteq B
  <1> SUFFICES ASSUME Nat \ B # {}
               PROVE  FALSE
    OBVIOUS
  <1>1. PICK m \in Nat \ B : \A k \in Nat \ B : m <= k
    BY LeastNatural
  <1>2. m - 1 \in Nat /\ m - 1 \in B
    BY <1>1
  <1> QED
    BY <1>2, <1>1
=============================================================================
