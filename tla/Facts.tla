-------------------------------- MODULE Facts --------------------------------
(***************************************************************************)
(* Induction over the natural numbers, and what the sequence operators the *)
(* models use do to the length, the elements and the distinctness of a     *)
(* sequence.                                                               *)
(***************************************************************************)
EXTENDS Integers, Sequences, SequencesExt, SequenceTheorems,
        FiniteSetTheorems, WellFoundedInduction, TLAPS

(* Induction over the natural numbers, for a set: the provers instantiate  *)
(* a variable that is a set, and cannot instantiate an operator.           *)

LEMMA NatSetMin ==
    ASSUME NEW T \in SUBSET Nat, T # {}
    PROVE  \E m \in T : \A n \in T : m <= n
<1> DEFINE R == {p \in Nat \X Nat : p[1] < p[2]}
<1>1. IsWellFoundedOn(R, Nat)
  BY NatLessThanWellFounded DEF OpToRel
<1>2. \E m \in T : \A n \in T : <<n, m>> \notin R
  <2> HIDE DEF R
  <2> QED BY <1>1, WFMin
<1>3. PICK m \in T : \A n \in T : <<n, m>> \notin R
  BY <1>2
<1>4. ASSUME NEW n \in T PROVE m <= n
  <2>1. m \in Nat /\ n \in Nat
    OBVIOUS
  <2>2. <<n, m>> \in Nat \X Nat /\ <<n, m>>[1] = n /\ <<n, m>>[2] = m
    BY <2>1
  <2>3. ~(n < m)
    BY <1>3, <2>2
  <2> QED BY <2>1, <2>3
<1> QED BY <1>4

LEMMA NatSetInduction ==
    ASSUME NEW T \in SUBSET Nat, 0 \in T, \A n \in T : n + 1 \in T
    PROVE  T = Nat
<1> SUFFICES ASSUME Nat \ T # {} PROVE FALSE
  OBVIOUS
<1>1. PICK m \in Nat \ T : \A n \in Nat \ T : m <= n
  BY NatSetMin
<1>2. m # 0 /\ m - 1 \in Nat
  BY <1>1
<1>3. m - 1 \in T
  BY <1>1, <1>2
<1> QED BY <1>1, <1>2, <1>3

(* A function on a finite set has a largest value. *)
LEMMA LargestValue ==
    ASSUME NEW S, IsFiniteSet(S), S # {}, NEW f \in [S -> Nat]
    PROVE  \E x \in S : \A y \in S : f[y] <= f[x]
<1> DEFINE T == {n \in Nat :
                    \A X \in SUBSET S :
                        Cardinality(X) = n /\ X # {} =>
                            \E x \in X : \A y \in X : f[y] <= f[x]}
<1>1. 0 \in T
  BY FS_Subset, FS_EmptySet
<1>2. ASSUME NEW n \in T PROVE n + 1 \in T
  <2> SUFFICES ASSUME NEW X \in SUBSET S, Cardinality(X) = n + 1, X # {}
               PROVE  \E x \in X : \A y \in X : f[y] <= f[x]
    OBVIOUS
  <2>1. PICK z \in X : TRUE
    OBVIOUS
  <2>2. X \ {z} \in SUBSET S /\ Cardinality(X \ {z}) = n
    <3>1. IsFiniteSet(X) /\ n \in Nat
      BY FS_Subset
    <3> HIDE DEF T
    <3>2. Cardinality(X \ {z}) = Cardinality(X) - 1
      BY <3>1, FS_RemoveElement
    <3> QED BY <3>1, <3>2
  <2>3. CASE X \ {z} = {}
    <3>1. \A y \in X : y = z
      BY <2>3
    <3> QED BY <2>1, <3>1
  <2>4. CASE X \ {z} # {}
    <3>1. PICK x \in X \ {z} : \A y \in X \ {z} : f[y] <= f[x]
      BY <2>2, <2>4
    <3>2. f[x] \in Nat /\ f[z] \in Nat /\ \A y \in X : f[y] \in Nat
      OBVIOUS
    <3>3. CASE f[z] <= f[x]
      BY <3>1, <3>3
    <3>4. CASE f[x] <= f[z]
      <4>1. \A y \in X : f[y] <= f[z]
        BY <3>1, <3>2, <3>4
      <4> QED BY <4>1
    <3> QED BY <3>2, <3>3, <3>4
  <2> QED BY <2>3, <2>4
<1>3. T = Nat
  <2> HIDE DEF T
  <2>1. T \in SUBSET Nat
    BY DEF T
  <2> QED BY <1>1, <1>2, <2>1, NatSetInduction
<1>4. Cardinality(S) \in T
  BY <1>3, FS_CardinalityType
<1> QED BY <1>4

-----------------------------------------------------------------------------

(* Emptiness of the lists and channels, in the forms the guards use. *)
LEMMA EmptyFacts ==
    ASSUME NEW S, NEW s \in Seq(S)
    PROVE  /\ Len(s) \in Nat
           /\ s = <<>> <=> Len(s) = 0
           /\ s = <<>> <=> Range(s) = {}
           /\ Range(s) \subseteq S
           /\ Range(<<>>) = {}
           /\ IsInjective(<<>>)
<1>1. /\ Len(s) \in Nat
      /\ s = <<>> <=> Len(s) = 0
      /\ Range(s) \subseteq S
  BY EmptySeq, LenProperties, ElementOfSeq DEF Range
<1>2. DOMAIN <<>> = {}
  OBVIOUS
<1>3. Range(<<>>) = {} /\ IsInjective(<<>>)
  BY <1>2 DEF Range, IsInjective
<1>4. ASSUME Len(s) # 0 PROVE Range(s) # {}
  <2>1. 1 \in DOMAIN s
    BY <1>1, <1>4, LenProperties
  <2> QED BY <2>1 DEF Range
<1> QED BY <1>1, <1>3, <1>4

(* Appending at the tail: a new waiter, a returned connection. *)
LEMMA AppendFacts ==
    ASSUME NEW S, NEW s \in Seq(S), NEW e \in S
    PROVE  /\ Append(s, e) \in Seq(S)
           /\ Len(Append(s, e)) = Len(s) + 1
           /\ Append(s, e) # <<>>
           /\ Range(Append(s, e)) = Range(s) \union {e}
           /\ IsInjective(s) /\ e \notin Range(s) => IsInjective(Append(s, e))
<1> DEFINE t == Append(s, e)
<1>1. /\ t \in Seq(S) /\ Len(t) = Len(s) + 1 /\ t # <<>>
      /\ \A i \in 1 .. Len(s) : t[i] = s[i]
      /\ t[Len(s) + 1] = e
  BY AppendProperties
<1>2. /\ Len(s) \in Nat /\ DOMAIN s = 1 .. Len(s)
      /\ DOMAIN t = 1 .. Len(s) + 1
  BY <1>1, LenProperties
<1> HIDE DEF t
<1>3. Range(t) = Range(s) \union {e}
  <2>1. ASSUME NEW x \in Range(t) PROVE x \in Range(s) \union {e}
    BY <1>1, <1>2 DEF Range
  <2>2. ASSUME NEW x \in Range(s) \union {e} PROVE x \in Range(t)
    BY <1>1, <1>2 DEF Range
  <2> QED BY <2>1, <2>2
<1>4. ASSUME IsInjective(s), e \notin Range(s) PROVE IsInjective(t)
  BY <1>1, <1>2, <1>4 DEF IsInjective, Range
<1> QED BY <1>1, <1>3, <1>4 DEF t

(* Removing one position: a waiter whose context is done. *)
LEMMA RemoveAtFacts ==
    ASSUME NEW S, NEW s \in Seq(S), NEW i \in DOMAIN s, IsInjective(s)
    PROVE  /\ RemoveAt(s, i) \in Seq(S)
           /\ Len(RemoveAt(s, i)) = Len(s) - 1
           /\ Range(RemoveAt(s, i)) = Range(s) \ {s[i]}
           /\ IsInjective(RemoveAt(s, i))
<1> DEFINE n == Len(s)
           a == SubSeq(s, 1, i - 1)
           b == SubSeq(s, i + 1, n)
           t == RemoveAt(s, i)
<1>1. n \in Nat /\ DOMAIN s = 1 .. n /\ i \in 1 .. n /\ \A j \in 1 .. n : s[j] \in S
  BY LenProperties, ElementOfSeq
<1> HIDE DEF n
<1>2. /\ a \in Seq(S) /\ Len(a) = i - 1
      /\ \A j \in 1 .. i - 1 : a[j] = s[j]
  <2>1. /\ i - 1 \in Int /\ 1 \in Int /\ \A j \in 1 .. i - 1 : s[j] \in S
    BY <1>1
  <2>2. /\ a \in Seq(S)
        /\ Len(a) = IF 1 <= i - 1 THEN i - 1 - 1 + 1 ELSE 0
        /\ \A j \in 1 .. i - 1 - 1 + 1 : a[j] = s[1 + j - 1]
    BY <2>1, SubSeqProperties
  <2> HIDE DEF a
  <2> QED BY <2>2, <1>1
<1>3. /\ b \in Seq(S) /\ Len(b) = n - i
      /\ \A j \in 1 .. n - i : b[j] = s[i + j]
  <2>1. /\ i + 1 \in Int /\ n \in Int /\ \A j \in i + 1 .. n : s[j] \in S
    BY <1>1
  <2>2. /\ b \in Seq(S)
        /\ Len(b) = IF i + 1 <= n THEN n - (i + 1) + 1 ELSE 0
        /\ \A j \in 1 .. n - (i + 1) + 1 : b[j] = s[(i + 1) + j - 1]
    BY <2>1, SubSeqProperties
  <2> HIDE DEF b
  <2> QED BY <2>2, <1>1
<1>4. t = a \o b
  BY DEF RemoveAt, n
<1> HIDE DEF a, b, t
<1>5. /\ t \in Seq(S) /\ Len(t) = n - 1
      /\ DOMAIN t = 1 .. n - 1
      /\ \A j \in 1 .. n - 1 : t[j] = IF j < i THEN s[j] ELSE s[j + 1]
  <2>1. /\ t \in Seq(S)
        /\ Len(t) = Len(a) + Len(b)
        /\ \A j \in 1 .. Len(a) + Len(b) :
              t[j] = IF j <= Len(a) THEN a[j] ELSE b[j - Len(a)]
    BY <1>2, <1>3, <1>4, ConcatProperties
  <2>2. Len(t) = n - 1 /\ DOMAIN t = 1 .. n - 1
    BY <2>1, <1>1, <1>2, <1>3, LenProperties
  <2>3. ASSUME NEW j \in 1 .. n - 1
        PROVE  t[j] = IF j < i THEN s[j] ELSE s[j + 1]
    <3>1. CASE j < i
      BY <3>1, <2>1, <1>1, <1>2, <1>3
    <3>2. CASE ~(j < i)
      <4>1. t[j] = b[j - (i - 1)]
        BY <3>2, <2>1, <1>1, <1>2, <1>3
      <4>2. j - (i - 1) \in 1 .. n - i
        BY <3>2, <1>1
      <4>3. b[j - (i - 1)] = s[i + (j - (i - 1))]
        BY <4>2, <1>3
      <4>4. i + (j - (i - 1)) = j + 1
        BY <1>1
      <4> QED BY <3>2, <4>1, <4>3, <4>4
    <3> QED BY <3>1, <3>2
  <2> QED BY <2>1, <2>2, <2>3
<1>6. Range(t) = Range(s) \ {s[i]}
  <2>1. ASSUME NEW x \in Range(t) PROVE x \in Range(s) \ {s[i]}
    <3>1. PICK j \in 1 .. n - 1 : x = t[j]
      BY <1>5 DEF Range
    <3> DEFINE k == IF j < i THEN j ELSE j + 1
    <3>2. k \in 1 .. n /\ k # i /\ x = s[k]
      BY <3>1, <1>1, <1>5
    <3>3. s[k] # s[i]
      BY <3>2, <1>1 DEF IsInjective
    <3> QED BY <3>2, <3>3, <1>1 DEF Range
  <2>2. ASSUME NEW x \in Range(s) \ {s[i]} PROVE x \in Range(t)
    <3>1. PICK j \in 1 .. n : x = s[j]
      BY <1>1 DEF Range
    <3>2. CASE j < i
      BY <3>1, <3>2, <1>1, <1>5 DEF Range
    <3>3. CASE j > i
      <4>1. j - 1 \in 1 .. n - 1 /\ ~(j - 1 < i) /\ (j - 1) + 1 = j
        BY <3>3, <1>1
      <4>2. t[j - 1] = s[j]
        BY <4>1, <1>5
      <4> QED BY <3>1, <4>1, <4>2, <1>5 DEF Range
    <3>4. j # i
      BY <3>1
    <3> QED BY <3>2, <3>3, <3>4, <1>1
  <2> QED BY <2>1, <2>2
<1>7. IsInjective(t)
  <2> SUFFICES ASSUME NEW p \in 1 .. n - 1, NEW q \in 1 .. n - 1, t[p] = t[q]
               PROVE  p = q
    BY <1>5 DEF IsInjective
  <2> DEFINE at(j) == IF j < i THEN j ELSE j + 1
  <2>1. /\ at(p) \in 1 .. n /\ t[p] = s[at(p)]
        /\ at(q) \in 1 .. n /\ t[q] = s[at(q)]
    BY <1>1, <1>5
  <2>2. at(p) = at(q)
    BY <2>1, <1>1 DEF IsInjective
  <2> QED BY <2>2, <1>1
<1> QED BY <1>5, <1>6, <1>7 DEF n, t

(* Removing at the head: the oldest waiter, the next idle connection. *)
LEMMA TailFacts ==
    ASSUME NEW S, NEW s \in Seq(S), s # <<>>
    PROVE  /\ Head(s) \in S
           /\ Head(s) \in Range(s)
           /\ Tail(s) \in Seq(S)
           /\ Len(Tail(s)) = Len(s) - 1
           /\ Len(s) \in Nat \ {0}
           /\ IsInjective(s) => /\ Range(Tail(s)) = Range(s) \ {Head(s)}
                                /\ IsInjective(Tail(s))
<1> DEFINE t == Tail(s)
           n == Len(s)
<1>1. /\ n \in Nat \ {0} /\ DOMAIN s = 1 .. n /\ Head(s) = s[1]
  BY EmptySeq, LenProperties
<1>2. /\ Head(s) \in S /\ t \in Seq(S) /\ Len(t) = n - 1
      /\ \A j \in 1 .. Len(t) : t[j] = s[j + 1]
  BY HeadTailProperties
<1>3. DOMAIN t = 1 .. n - 1
  BY <1>2, LenProperties
<1> HIDE DEF t, n
<1>4. Head(s) \in Range(s)
  BY <1>1 DEF Range
<1>5. ASSUME IsInjective(s)
      PROVE  Range(t) = Range(s) \ {Head(s)} /\ IsInjective(t)
  <2>1. ASSUME NEW x \in Range(t) PROVE x \in Range(s) \ {Head(s)}
    <3>1. PICK j \in 1 .. n - 1 : x = t[j]
      BY <1>3 DEF Range
    <3>2. j + 1 \in 1 .. n /\ j + 1 # 1 /\ x = s[j + 1] /\ 1 \in 1 .. n
      BY <3>1, <1>1, <1>2
    <3>3. s[j + 1] # s[1]
      BY <3>2, <1>1, <1>5 DEF IsInjective
    <3> QED BY <3>2, <3>3, <1>1 DEF Range
  <2>2. ASSUME NEW x \in Range(s) \ {Head(s)} PROVE x \in Range(t)
    <3>1. PICK j \in 1 .. n : x = s[j]
      BY <1>1 DEF Range
    <3>2. j - 1 \in 1 .. n - 1 /\ (j - 1) + 1 = j
      BY <3>1, <1>1
    <3>3. t[j - 1] = s[j]
      BY <3>2, <1>2
    <3> QED BY <3>1, <3>2, <3>3, <1>3 DEF Range
  <2>3. IsInjective(t)
    <3> SUFFICES ASSUME NEW p \in 1 .. n - 1, NEW q \in 1 .. n - 1, t[p] = t[q]
                 PROVE  p = q
      BY <1>3 DEF IsInjective
    <3>1. /\ p + 1 \in 1 .. n /\ t[p] = s[p + 1]
          /\ q + 1 \in 1 .. n /\ t[q] = s[q + 1]
      BY <1>1, <1>2
    <3>2. p + 1 = q + 1
      BY <3>1, <1>1, <1>5 DEF IsInjective
    <3> QED BY <3>2
  <2> QED BY <2>1, <2>2, <2>3
<1> QED BY <1>1, <1>2, <1>4, <1>5 DEF t, n
=============================================================================
