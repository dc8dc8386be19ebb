------------------------------ MODULE LruProofs ------------------------------
(***************************************************************************)
(* The LRU cache for every set of keys and values, every length and every  *)
(* limit: list, map and byte count agree, and the list is in the order of  *)
(* use.  The byte count is a sum over a list of any length; what is needed *)
(* of it is proved by induction on the position in the list, from the fact *)
(* that a set of natural numbers has a least element.                      *)
(***************************************************************************)
EXTENDS Lru, SequenceTheorems, WellFoundedInduction, TLAPS

-----------------------------------------------------------------------------
(* Induction.                                                              *)

LEMMA LeastElement ==
    ASSUME NEW S \in SUBSET Nat, S # {}
    PROVE  \E n \in S : \A m \in S : n <= m
<1>1. PICK n \in S : \A m \in S : <<m, n>> \notin OpToRel(<, Nat)
  BY NatLessThanWellFounded, WFMin
<1>2. \A m \in S : ~(m < n)
  BY <1>1 DEF OpToRel
<1> QED BY <1>2

\* A set that has 0 and, with every number below n, the next has all up to n.
LEMMA UpTo ==
    ASSUME NEW n \in Nat, NEW S, 0 \in S,
           \A i \in 0..n : i < n /\ i \in S => i + 1 \in S
    PROVE  \A i \in 0..n : i \in S
<1> DEFINE T == {i \in 0..n : i \notin S}
<1> SUFFICES ASSUME T # {} PROVE FALSE
  OBVIOUS
<1>1. PICK m \in T : \A i \in T : m <= i
  <2>1. T \in SUBSET Nat
    OBVIOUS
  <2> HIDE DEF T
  <2> QED BY <2>1, LeastElement
<1>2. m - 1 \in 0..n /\ m - 1 \notin T
  BY <1>1
<1> QED BY <1>2

-----------------------------------------------------------------------------
(* The sum of the sizes.                                                   *)

LEMMA SizeIsNat == \A e \in Entry : Size(e) \in Nat
BY LruAssumption DEF Entry, Size

\* The equation of the recursive definition has a solution.
LEMMA SumExists ==
    ASSUME NEW s \in Seq(Entry)
    PROVE  \E f : f = [i \in 0..Len(s) |-> IF i = 0 THEN 0 ELSE f[i - 1] + Size(s[i])]
<1> DEFINE Sums(n, f) == f = [i \in 0..n |-> IF i = 0 THEN 0 ELSE f[i - 1] + Size(s[i])]
           S == {n \in Nat : \E f : Sums(n, f)}
<1>1. 0 \in S
  <2>1. Sums(0, [i \in 0..0 |-> 0])
    OBVIOUS
  <2> QED BY <2>1
<1>2. ASSUME NEW n \in 0..Len(s), n < Len(s), n \in S PROVE n + 1 \in S
  <2>1. PICK f : Sums(n, f)
    BY <1>2
  <2> DEFINE g == [i \in 0..n + 1 |-> IF i = n + 1 THEN f[n] + Size(s[n + 1]) ELSE f[i]]
  <2>2. \A i \in 0..n : f[i] = IF i = 0 THEN 0 ELSE f[i - 1] + Size(s[i])
    BY <2>1
  <2>3. \A i \in 0..n + 1 : g[i] = IF i = 0 THEN 0 ELSE g[i - 1] + Size(s[i])
    <3>1. ASSUME NEW i \in 1..n PROVE g[i] = g[i - 1] + Size(s[i])
      BY <2>2, i # n + 1, i - 1 # n + 1, i \in 0..n + 1, i - 1 \in 0..n + 1, i \in 0..n
    <3>2. g[n + 1] = g[n] + Size(s[n + 1]) /\ g[0] = 0
      BY <2>2
    <3> HIDE DEF g
    <3> QED BY <3>1, <3>2
  <2> HIDE DEF g
  <2>4. Sums(n + 1, g)
    BY <2>3 DEF g
  <2> QED BY <2>4
<1> HIDE DEF S
<1>3. Len(s) \in S
  <2>1. \A i \in 0..Len(s) : i < Len(s) /\ i \in S => i + 1 \in S
    BY <1>2
  <2>2. Len(s) \in Nat /\ Len(s) \in 0..Len(s)
    OBVIOUS
  <2>3. \A i \in 0..Len(s) : i \in S
    BY <1>1, <2>1, <2>2, UpTo
  <2> QED BY <2>2, <2>3
<1> QED BY <1>3 DEF S

LEMMA BytesUpToDef ==
    ASSUME NEW s \in Seq(Entry)
    PROVE  /\ BytesUpTo(s)[0] = 0
           /\ \A i \in 1..Len(s) : BytesUpTo(s)[i] = BytesUpTo(s)[i - 1] + Size(s[i])
<1> DEFINE D(f) == f = [i \in 0..Len(s) |-> IF i = 0 THEN 0 ELSE f[i - 1] + Size(s[i])]
<1>1. BytesUpTo(s) = CHOOSE f : D(f)
  BY DEF BytesUpTo
<1>2. \E f : D(f)
  BY SumExists
<1> HIDE DEF D
<1>3. D(BytesUpTo(s))
  BY <1>1, <1>2
<1> QED BY <1>3 DEF D

LEMMA BytesUpToInt ==
    ASSUME NEW s \in Seq(Entry)
    PROVE  \A i \in 0..Len(s) : BytesUpTo(s)[i] \in Int
<1> DEFINE S == {i \in 0..Len(s) : BytesUpTo(s)[i] \in Int}
<1>1. 0 \in S
  BY BytesUpToDef
<1>2. \A i \in 0..Len(s) : i < Len(s) /\ i \in S => i + 1 \in S
  <2> SUFFICES ASSUME NEW i \in 0..Len(s), i < Len(s), i \in S PROVE i + 1 \in S
    OBVIOUS
  <2>1. BytesUpTo(s)[i + 1] = BytesUpTo(s)[i] + Size(s[i + 1])
    BY BytesUpToDef, i + 1 \in 1..Len(s), (i + 1) - 1 = i
  <2>2. Size(s[i + 1]) \in Nat
    BY SizeIsNat
  <2> QED BY <2>1, <2>2
<1> HIDE DEF S
<1>3. \A i \in 0..Len(s) : i \in S
  BY <1>1, <1>2, UpTo, LenProperties
<1> QED BY <1>3 DEF S

\* Lists that agree up to a place have the same sums up to there.
LEMMA SamePrefix ==
    ASSUME NEW s \in Seq(Entry), NEW t \in Seq(Entry), NEW n \in 0..Len(s),
           n <= Len(t), \A i \in 1..n : s[i] = t[i]
    PROVE  \A i \in 0..n : BytesUpTo(s)[i] = BytesUpTo(t)[i]
<1> DEFINE S == {i \in 0..n : BytesUpTo(s)[i] = BytesUpTo(t)[i]}
<1>1. 0 \in S
  BY BytesUpToDef
<1>2. \A i \in 0..n : i < n /\ i \in S => i + 1 \in S
  <2> SUFFICES ASSUME NEW i \in 0..n, i < n, i \in S PROVE i + 1 \in S
    OBVIOUS
  <2>1. /\ BytesUpTo(s)[i + 1] = BytesUpTo(s)[i] + Size(s[i + 1])
        /\ BytesUpTo(t)[i + 1] = BytesUpTo(t)[i] + Size(t[i + 1])
    BY BytesUpToDef, i + 1 \in 1..Len(s), i + 1 \in 1..Len(t), (i + 1) - 1 = i
  <2> QED BY <2>1
<1> HIDE DEF S
<1>3. \A i \in 0..n : i \in S
  BY <1>1, <1>2, UpTo, LenProperties
<1> QED BY <1>3 DEF S

\* An entry less takes its own size off every sum behind it.
LEMMA BytesRemoveAt ==
    ASSUME NEW s \in Seq(Entry), NEW p \in 1..Len(s)
    PROVE  /\ RemoveAt(s, p) \in Seq(Entry)
           /\ Len(RemoveAt(s, p)) = Len(s) - 1
           /\ \A i \in 1..Len(s) - 1 :
                RemoveAt(s, p)[i] = IF i < p THEN s[i] ELSE s[i + 1]
           /\ Bytes(RemoveAt(s, p)) = Bytes(s) - Size(s[p])
<1> DEFINE t == RemoveAt(s, p)
<1>1. /\ t \in Seq(Entry)
      /\ Len(t) = Len(s) - 1
      /\ \A i \in 1..Len(s) - 1 : t[i] = IF i < p THEN s[i] ELSE s[i + 1]
  <2> DEFINE a == SubSeq(s, 1, p - 1)
             b == SubSeq(s, p + 1, Len(s))
  <2>1. /\ a \in Seq(Entry) /\ Len(a) = p - 1
        /\ \A i \in 1..p - 1 : a[i] = s[i]
    OBVIOUS
  <2>2. /\ b \in Seq(Entry) /\ Len(b) = Len(s) - p
        /\ \A i \in 1..Len(s) - p : b[i] = s[p + i]
    OBVIOUS
  <2>3. t = a \o b
    BY DEF RemoveAt
  <2> HIDE DEF a, b, t
  <2>4. /\ a \o b \in Seq(Entry) /\ Len(a \o b) = Len(a) + Len(b)
        /\ \A i \in 1..Len(a) + Len(b) :
             (a \o b)[i] = IF i <= Len(a) THEN a[i] ELSE b[i - Len(a)]
    BY <2>1, <2>2, ConcatProperties
  <2>5. ASSUME NEW i \in 1..Len(s) - 1 PROVE t[i] = IF i < p THEN s[i] ELSE s[i + 1]
    <3>1. CASE i < p
      BY <2>1, <2>3, <2>4, <2>2, <3>1, i \in 1..Len(a), i <= Len(a)
    <3>2. CASE i >= p
      <4>1. i - (p - 1) \in 1..Len(s) - p
        BY <3>2
      <4>2. b[i - (p - 1)] = s[i + 1]
        BY <2>2, <4>1, p + (i - (p - 1)) = i + 1
      <4>3. t[i] = b[i - (p - 1)]
        BY <2>1, <2>2, <2>3, <2>4, <3>2
      <4> QED BY <3>2, <4>2, <4>3
    <3> QED BY <3>1, <3>2
  <2>6. Len(t) = Len(s) - 1
    BY <2>1, <2>2, <2>3, <2>4
  <2> QED BY <2>3, <2>4, <2>5, <2>6
<1> HIDE DEF t
<1> DEFINE S == {i \in 0..Len(t) : i < p - 1
                   \/ BytesUpTo(t)[i] = BytesUpTo(s)[i + 1] - Size(s[p])}
<1>2. \A i \in 0..p - 1 : BytesUpTo(t)[i] = BytesUpTo(s)[i]
  <2>1. p - 1 \in 0..Len(t) /\ p - 1 <= Len(s) /\ \A i \in 1..p - 1 : t[i] = s[i]
    BY <1>1
  <2> QED BY <1>1, <2>1, SamePrefix
<1>3. p - 1 \in S
  <2>1. BytesUpTo(s)[p] = BytesUpTo(s)[p - 1] + Size(s[p])
    BY BytesUpToDef
  <2>2. BytesUpTo(t)[p - 1] = BytesUpTo(s)[p - 1] /\ BytesUpTo(s)[p - 1] \in Int
    BY <1>2, BytesUpToInt, p - 1 \in 0..Len(s)
  <2>3. Size(s[p]) \in Nat
    BY SizeIsNat
  <2> QED BY <1>1, <2>1, <2>2, <2>3
<1>4. \A i \in 0..Len(t) : i < Len(t) /\ i \in S => i + 1 \in S
  <2> SUFFICES ASSUME NEW i \in 0..Len(t), i < Len(t), i \in S PROVE i + 1 \in S
    OBVIOUS
  <2>1. CASE i + 1 <= p - 1
    BY <2>1, <1>3
  <2>2. CASE i >= p - 1
    <3>1. BytesUpTo(t)[i] = BytesUpTo(s)[i + 1] - Size(s[p])
      BY <2>2
    <3>2. BytesUpTo(t)[i + 1] = BytesUpTo(t)[i] + Size(t[i + 1])
      BY <1>1, BytesUpToDef, i + 1 \in 1..Len(t), (i + 1) - 1 = i
    <3>3. BytesUpTo(s)[i + 2] = BytesUpTo(s)[i + 1] + Size(s[i + 2])
      BY <1>1, BytesUpToDef, i + 2 \in 1..Len(s), (i + 2) - 1 = i + 1
    <3>4. t[i + 1] = s[i + 2]
      BY <1>1, <2>2
    <3>5. BytesUpTo(s)[i + 1] \in Int /\ Size(s[i + 2]) \in Nat /\ Size(s[p]) \in Nat
      <4>1. s[i + 2] \in Entry /\ s[p] \in Entry /\ i + 1 \in 0..Len(s)
        BY <1>1
      <4> QED BY <1>1, <4>1, BytesUpToInt, SizeIsNat
    <3> QED BY <2>2, <3>1, <3>2, <3>3, <3>4, <3>5
  <2> QED BY <1>1, <2>1, <2>2
<1>5. \A i \in 0..Len(t) : i \in S
  <2>1. 0 \in S
    BY <1>1, <1>3
  <2> HIDE DEF S
  <2> QED BY <1>1, <1>4, <2>1, UpTo, LenProperties
<1>6. Bytes(t) = Bytes(s) - Size(s[p])
  BY <1>1, <1>5, Len(t) \in 0..Len(t), Len(t) >= p - 1, Len(t) + 1 = Len(s) DEF Bytes
<1> QED BY <1>1, <1>6 DEF t

LEMMA BytesFront ==
    ASSUME NEW s \in Seq(Entry), s # <<>>
    PROVE  /\ Front(s) \in Seq(Entry)
           /\ Len(Front(s)) = Len(s) - 1
           /\ \A i \in 1..Len(s) - 1 : Front(s)[i] = s[i]
           /\ Bytes(Front(s)) = Bytes(s) - Size(Last(s))
<1>1. /\ Front(s) \in Seq(Entry)
      /\ Len(Front(s)) = Len(s) - 1
      /\ \A i \in 1..Len(s) - 1 : Front(s)[i] = s[i]
  <2>1. Len(s) \in Nat \ {0}
    BY EmptySeq, LenProperties
  <2>2. \A i \in 1..Len(s) - 1 : s[i] \in Entry
    BY <2>1, LenProperties
  <2>3. /\ SubSeq(s, 1, Len(s) - 1) \in Seq(Entry)
        /\ Len(SubSeq(s, 1, Len(s) - 1)) = IF 1 <= Len(s) - 1 THEN Len(s) - 1 - 1 + 1 ELSE 0
        /\ \A i \in 1..Len(s) - 1 - 1 + 1 : SubSeq(s, 1, Len(s) - 1)[i] = s[1 + i - 1]
    BY <2>1, <2>2, SubSeqProperties
  <2>4. ASSUME NEW i \in 1..Len(s) - 1 PROVE SubSeq(s, 1, Len(s) - 1)[i] = s[i]
    <3>1. i \in 1..Len(s) - 1 - 1 + 1 /\ 1 + i - 1 = i
      BY <2>1
    <3> QED BY <2>3, <3>1
  <2>5. Len(SubSeq(s, 1, Len(s) - 1)) = Len(s) - 1
    <3> DEFINE n == Len(s)
               l == Len(SubSeq(s, 1, Len(s) - 1))
    <3>1. l = IF 1 <= n - 1 THEN n - 1 - 1 + 1 ELSE 0
      BY <2>3
    <3>2. n \in Nat \ {0}
      BY <2>1
    <3> HIDE DEF n, l
    <3>3. l = n - 1
      BY <3>1, <3>2
    <3> QED BY <3>3 DEF n, l
  <2> QED BY <2>3, <2>4, <2>5 DEF Front
<1>2. BytesUpTo(Front(s))[Len(s) - 1] = BytesUpTo(s)[Len(s) - 1]
  BY <1>1, SamePrefix, Len(s) - 1 \in 0..Len(Front(s))
<1>3. BytesUpTo(s)[Len(s)] = BytesUpTo(s)[Len(s) - 1] + Size(s[Len(s)])
  BY BytesUpToDef, Len(s) \in 1..Len(s)
<1>4. BytesUpTo(s)[Len(s) - 1] \in Int /\ Size(s[Len(s)]) \in Nat
  BY BytesUpToInt, SizeIsNat, Len(s) \in 1..Len(s), Len(s) - 1 \in 0..Len(s)
<1> QED BY <1>1, <1>2, <1>3, <1>4 DEF Bytes, Last

\* An entry more in front adds its own size to every sum.
LEMMA BytesPushFront ==
    ASSUME NEW s \in Seq(Entry), NEW e \in Entry
    PROVE  /\ <<e>> \o s \in Seq(Entry)
           /\ Len(<<e>> \o s) = Len(s) + 1
           /\ \A i \in 1..Len(s) + 1 : (<<e>> \o s)[i] = IF i = 1 THEN e ELSE s[i - 1]
           /\ Bytes(<<e>> \o s) = Bytes(s) + Size(e)
<1> DEFINE t == <<e>> \o s
<1>1. /\ t \in Seq(Entry)
      /\ Len(t) = Len(s) + 1
      /\ \A i \in 1..Len(s) + 1 : t[i] = IF i = 1 THEN e ELSE s[i - 1]
  OBVIOUS
<1> HIDE DEF t
<1> DEFINE S == {i \in 0..Len(s) : BytesUpTo(t)[i + 1] = BytesUpTo(s)[i] + Size(e)}
<1>2. 0 \in S
  <2>1. BytesUpTo(t)[1] = BytesUpTo(t)[0] + Size(t[1])
    BY <1>1, BytesUpToDef, 1 \in 1..Len(t), 1 - 1 = 0
  <2>2. BytesUpTo(t)[0] = 0 /\ BytesUpTo(s)[0] = 0 /\ t[1] = e
    BY <1>1, BytesUpToDef
  <2> QED BY <2>1, <2>2
<1>3. \A i \in 0..Len(s) : i < Len(s) /\ i \in S => i + 1 \in S
  <2> SUFFICES ASSUME NEW i \in 0..Len(s), i < Len(s), i \in S PROVE i + 1 \in S
    OBVIOUS
  <2>1. BytesUpTo(t)[i + 2] = BytesUpTo(t)[i + 1] + Size(t[i + 2])
    BY <1>1, BytesUpToDef, i + 2 \in 1..Len(t), (i + 2) - 1 = i + 1
  <2>2. BytesUpTo(s)[i + 1] = BytesUpTo(s)[i] + Size(s[i + 1])
    BY BytesUpToDef, i + 1 \in 1..Len(s), (i + 1) - 1 = i
  <2>3. t[i + 2] = s[i + 1]
    BY <1>1
  <2>4. BytesUpTo(s)[i] \in Int /\ Size(s[i + 1]) \in Nat /\ Size(e) \in Nat
    BY BytesUpToInt, SizeIsNat
  <2> QED BY <2>1, <2>2, <2>3, <2>4
<1>4. \A i \in 0..Len(s) : i \in S
  <2> HIDE DEF S
  <2> QED BY <1>2, <1>3, UpTo, LenProperties
<1>5. Bytes(t) = Bytes(s) + Size(e)
  BY <1>1, <1>4, Len(s) \in 0..Len(s) DEF Bytes
<1> QED BY <1>1, <1>5 DEF t

-----------------------------------------------------------------------------
(* The list.                                                               *)

KeysIn(s) == {s[i].key : i \in DOMAIN s}

LEMMA PlaceOf ==
    ASSUME NEW s \in Seq(Entry), OneEach(s), NEW i \in DOMAIN s
    PROVE  Has(s, s[i].key) /\ Place(s, s[i].key) = i
BY DEF OneEach, Has, Place

LEMMA PlaceIn ==
    ASSUME NEW s \in Seq(Entry), NEW k, Has(s, k)
    PROVE  Place(s, k) \in DOMAIN s /\ s[Place(s, k)].key = k
BY DEF Has, Place

\* What stays when k is taken out, and where.
LEMMA WithoutKey ==
    ASSUME NEW s \in Seq(Entry), OneEach(s), NEW k
    PROVE  /\ Without(s, k) \in Seq(Entry)
           /\ OneEach(Without(s, k))
           /\ KeysIn(Without(s, k)) = KeysIn(s) \ {k}
           /\ Len(Without(s, k)) = IF Has(s, k) THEN Len(s) - 1 ELSE Len(s)
           /\ \A i \in DOMAIN Without(s, k) : \E j \in DOMAIN s :
                 /\ Without(s, k)[i] = s[j]
                 /\ j = IF Has(s, k) /\ i >= Place(s, k) THEN i + 1 ELSE i
<1>1. CASE ~Has(s, k)
  BY <1>1 DEF Without, Has, KeysIn
<1>2. CASE Has(s, k)
  <2> DEFINE t == Without(s, k)
             p == Place(s, k)
  <2>1. p \in 1..Len(s) /\ s[p].key = k
    BY <1>2, PlaceIn
  <2>2. /\ t \in Seq(Entry) /\ Len(t) = Len(s) - 1
        /\ \A i \in 1..Len(s) - 1 : t[i] = IF i < p THEN s[i] ELSE s[i + 1]
    BY <1>2, <2>1, BytesRemoveAt DEF Without
  <2> HIDE DEF t, p
  <2>3. DOMAIN s = 1..Len(s) /\ DOMAIN t = 1..Len(s) - 1
    BY <2>2
  <2>4. \A i \in DOMAIN t : \E j \in DOMAIN s :
          t[i] = s[j] /\ j = IF i >= p THEN i + 1 ELSE i
    BY <2>1, <2>2, <2>3
  <2>5. OneEach(t)
    <3> SUFFICES ASSUME NEW i \in DOMAIN t, NEW j \in DOMAIN t, t[i].key = t[j].key
                 PROVE  i = j
      BY DEF OneEach
    <3> DEFINE F(x) == IF x < p THEN x ELSE x + 1
    <3>1. F(i) \in DOMAIN s /\ F(j) \in DOMAIN s /\ t[i] = s[F(i)] /\ t[j] = s[F(j)]
      BY <2>1, <2>2, <2>3
    <3> HIDE DEF F
    <3>2. F(i) = F(j)
      BY <3>1 DEF OneEach
    <3> QED BY <2>1, <2>3, <3>2 DEF F
  <2>6. KeysIn(t) = KeysIn(s) \ {k}
    <3>1. ASSUME NEW i \in DOMAIN t PROVE t[i].key \in KeysIn(s) \ {k}
      BY <2>1, <2>2, <2>3 DEF KeysIn, OneEach
    <3>2. ASSUME NEW j \in DOMAIN s, s[j].key # k PROVE s[j].key \in KeysIn(t)
      <4>1. CASE j < p
        BY <2>1, <2>2, <2>3, <4>1 DEF KeysIn
      <4>2. CASE j > p
        BY <2>1, <2>2, <2>3, <4>2, j - 1 \in DOMAIN t, t[j - 1] = s[j] DEF KeysIn
      <4> QED BY <2>1, <2>3, <3>2, <4>1, <4>2
    <3> QED BY <3>1, <3>2 DEF KeysIn
  <2> QED BY <1>2, <2>2, <2>4, <2>5, <2>6 DEF t, p
<1> QED BY <1>1, <1>2

LEMMA BytesWithout ==
    ASSUME NEW s \in Seq(Entry), NEW k, Has(s, k)
    PROVE  Bytes(Without(s, k)) = Bytes(s) - Size(s[Place(s, k)])
BY PlaceIn, BytesRemoveAt DEF Without

\* Where the entries of t come from that are not in front.
Behind(t, s, k) ==
    \A i \in 2..Len(t) : \E j \in DOMAIN s :
        /\ t[i] = s[j] /\ s[j].key # k
        /\ j = IF Has(s, k) /\ i > Place(s, k) THEN i ELSE i - 1

\* An entry e in front of what is left without its key.
LEMMA FrontAndRest ==
    ASSUME NEW s \in Seq(Entry), OneEach(s), NEW e \in Entry,
           NEW t, t = MoveToFront(s, e)
    PROVE  /\ t \in Seq(Entry) /\ OneEach(t)
           /\ KeysIn(t) = KeysIn(s) \cup {e.key}
           /\ Len(t) = (IF Has(s, e.key) THEN Len(s) ELSE Len(s) + 1)
           /\ t[1] = e /\ Has(t, e.key) /\ Place(t, e.key) = 1
           /\ Behind(t, s, e.key)
<1> DEFINE w == Without(s, e.key)
<1>1. /\ w \in Seq(Entry) /\ OneEach(w)
      /\ KeysIn(w) = KeysIn(s) \ {e.key}
      /\ Len(w) = IF Has(s, e.key) THEN Len(s) - 1 ELSE Len(s)
      /\ \A i \in DOMAIN w : \E j \in DOMAIN s :
            w[i] = s[j] /\ j = IF Has(s, e.key) /\ i >= Place(s, e.key) THEN i + 1 ELSE i
  BY WithoutKey
<1>2. /\ t \in Seq(Entry) /\ Len(t) = Len(w) + 1
      /\ \A i \in 1..Len(w) + 1 : t[i] = IF i = 1 THEN e ELSE w[i - 1]
  BY <1>1, BytesPushFront DEF MoveToFront
<1> HIDE DEF w
<1>3. DOMAIN t = 1..Len(w) + 1 /\ DOMAIN w = 1..Len(w) /\ Len(w) \in Nat
  BY <1>1, <1>2
<1>4. \A i \in DOMAIN w : w[i].key # e.key
  BY <1>1 DEF KeysIn
<1>5. OneEach(t)
  <2>1. ASSUME NEW i \in DOMAIN t, NEW j \in DOMAIN t, t[i].key = t[j].key PROVE i = j
    <3>1. CASE i = 1 /\ j = 1
      BY <3>1
    <3>2. CASE i = 1 /\ j # 1
      BY <1>2, <1>3, <1>4, <2>1, <3>2, j - 1 \in DOMAIN w
    <3>3. CASE i # 1 /\ j = 1
      BY <1>2, <1>3, <1>4, <2>1, <3>3, i - 1 \in DOMAIN w
    <3>4. CASE i # 1 /\ j # 1
      <4>1. w[i - 1].key = w[j - 1].key /\ i - 1 \in DOMAIN w /\ j - 1 \in DOMAIN w
        BY <1>2, <1>3, <2>1, <3>4
      <4>2. i - 1 = j - 1
        BY <1>1, <4>1 DEF OneEach
      <4> QED BY <1>3, <4>2
    <3> QED BY <3>1, <3>2, <3>3, <3>4
  <2> QED BY <2>1 DEF OneEach
<1>6. KeysIn(t) = KeysIn(s) \cup {e.key}
  <2>1. \A i \in DOMAIN t : t[i].key \in KeysIn(w) \cup {e.key}
    <3>1. ASSUME NEW i \in DOMAIN t, i # 1 PROVE i - 1 \in DOMAIN w /\ t[i] = w[i - 1]
      BY <1>2, <1>3, <3>1
    <3>2. t[1] = e
      BY <1>2, <1>3
    <3> QED BY <3>1, <3>2 DEF KeysIn
  <2>2. \A i \in DOMAIN w : i + 1 \in DOMAIN t /\ t[i + 1] = w[i]
    BY <1>2, <1>3
  <2>3. 1 \in DOMAIN t /\ t[1].key = e.key
    BY <1>2, <1>3
  <2>4. KeysIn(t) = KeysIn(w) \cup {e.key}
    BY <2>1, <2>2, <2>3 DEF KeysIn
  <2>5. e.key \in KeysIn(t)
    BY <2>3 DEF KeysIn
  <2> QED BY <1>1, <2>4, <2>5
<1>7. t[1] = e /\ Has(t, e.key) /\ Place(t, e.key) = 1
  <2>1. 1 \in DOMAIN t /\ t[1] = e
    BY <1>2, <1>3
  <2> QED BY <1>2, <1>5, <2>1, PlaceOf
<1>8. ASSUME NEW i \in 2..Len(t)
      PROVE  \E j \in DOMAIN s :
                 /\ t[i] = s[j] /\ s[j].key # e.key
                 /\ j = IF Has(s, e.key) /\ i > Place(s, e.key) THEN i ELSE i - 1
  <2>1. i - 1 \in DOMAIN w /\ t[i] = w[i - 1]
    BY <1>2, <1>3
  <2>2. PICK j \in DOMAIN s :
          w[i - 1] = s[j] /\ j = IF Has(s, e.key) /\ i - 1 >= Place(s, e.key)
                                 THEN (i - 1) + 1 ELSE i - 1
    BY <1>1, <2>1
  <2>3. Has(s, e.key) => Place(s, e.key) \in Nat
    BY PlaceIn
  <2> QED BY <1>4, <2>1, <2>2, <2>3
<1>9. Len(t) = IF Has(s, e.key) THEN Len(s) ELSE Len(s) + 1
  BY <1>1, <1>2
<1> QED BY <1>2, <1>5, <1>6, <1>7, <1>8, <1>9 DEF Behind

\* Where another key is then.
LEMMA PlaceMoved ==
    ASSUME NEW s \in Seq(Entry), OneEach(s), NEW e \in Entry,
           NEW t, t = MoveToFront(s, e),
           NEW k, k # e.key, Has(s, k)
    PROVE  /\ Has(t, k) /\ t[Place(t, k)] = s[Place(s, k)]
           /\ Place(t, k) = IF Has(s, e.key) /\ Place(s, k) > Place(s, e.key)
                            THEN Place(s, k) ELSE Place(s, k) + 1
<1>1. /\ t \in Seq(Entry) /\ OneEach(t)
      /\ KeysIn(t) = KeysIn(s) \cup {e.key}
      /\ t[1] = e /\ Behind(t, s, e.key)
  BY FrontAndRest
<1>2. Has(t, k)
  BY <1>1 DEF KeysIn, Has
<1>3. Place(t, k) \in 2..Len(t) /\ t[Place(t, k)].key = k
  BY <1>1, <1>2, PlaceIn
<1>4. PICK j \in DOMAIN s :
        /\ t[Place(t, k)] = s[j]
        /\ j = IF Has(s, e.key) /\ Place(t, k) > Place(s, e.key)
               THEN Place(t, k) ELSE Place(t, k) - 1
  BY <1>1, <1>3 DEF Behind
<1>5. j = Place(s, k)
  BY <1>3, <1>4, PlaceOf
<1>6. Has(s, e.key) => Place(s, e.key) \in DOMAIN s /\ Place(s, e.key) # j
  BY <1>3, <1>4, PlaceIn
<1> QED BY <1>2, <1>3, <1>4, <1>5, <1>6

\* The entries of l are those that u has for their keys, in the order of u.
InOrderOf(l, u) ==
    /\ \A i \in DOMAIN l : Has(u, l[i].key) /\ l[i] = u[Place(u, l[i].key)]
    /\ \A i, j \in DOMAIN l : i < j => Place(u, l[i].key) < Place(u, l[j].key)

LEMMA OrderKept ==
    ASSUME NEW l \in Seq(Entry), OneEach(l), NEW u \in Seq(Entry), OneEach(u),
           InOrderOf(l, u), NEW e \in Entry,
           NEW t, t = MoveToFront(l, e),
           NEW v, v = MoveToFront(u, e)
    PROVE  InOrderOf(t, v)
<1>1. t \in Seq(Entry) /\ t[1] = e /\ Behind(t, l, e.key)
  BY FrontAndRest
<1>2. v \in Seq(Entry) /\ v[1] = e /\ Has(v, e.key) /\ Place(v, e.key) = 1
  BY FrontAndRest
<1>3. ASSUME NEW j \in DOMAIN l, l[j].key # e.key
      PROVE  /\ Has(v, l[j].key) /\ v[Place(v, l[j].key)] = l[j]
             /\ Place(u, l[j].key) \in Nat \ {0}
             /\ Has(u, e.key) => Place(u, l[j].key) # Place(u, e.key)
             /\ Place(v, l[j].key) =
                  IF Has(u, e.key) /\ Place(u, l[j].key) > Place(u, e.key)
                  THEN Place(u, l[j].key) ELSE Place(u, l[j].key) + 1
  <2>1. Has(u, l[j].key) /\ u[Place(u, l[j].key)] = l[j]
    BY DEF InOrderOf
  <2> QED BY <1>3, <2>1, PlaceMoved, PlaceIn
<1>4. Has(u, e.key) => Place(u, e.key) \in Nat \ {0}
  BY PlaceIn
<1>5. ASSUME NEW i \in DOMAIN t
      PROVE  Has(v, t[i].key) /\ t[i] = v[Place(v, t[i].key)]
  <2>1. CASE i = 1
    BY <1>1, <1>2, <2>1
  <2>2. CASE i \in 2..Len(t)
    BY <1>1, <1>3, <2>2 DEF Behind
  <2> QED BY <1>1, <2>1, <2>2
<1>6. ASSUME NEW i \in DOMAIN t, NEW j \in DOMAIN t, i < j
      PROVE  Place(v, t[i].key) < Place(v, t[j].key)
  <2>1. j \in 2..Len(t)
    BY <1>1, <1>6
  <2>2. PICK b \in DOMAIN l :
          /\ t[j] = l[b] /\ l[b].key # e.key
          /\ b = IF Has(l, e.key) /\ j > Place(l, e.key) THEN j ELSE j - 1
    BY <1>1, <2>1 DEF Behind
  <2>3. CASE i = 1
    <3>1. Place(v, l[b].key) > 1
      BY <1>3, <1>4, <2>2
    <3> QED BY <1>1, <1>2, <2>2, <2>3, <3>1
  <2>4. CASE i \in 2..Len(t)
    <3>1. PICK a \in DOMAIN l :
            /\ t[i] = l[a] /\ l[a].key # e.key
            /\ a = IF Has(l, e.key) /\ i > Place(l, e.key) THEN i ELSE i - 1
      BY <1>1, <2>4 DEF Behind
    <3>2. a < b
      <4>1. Has(l, e.key) => Place(l, e.key) \in Nat
        BY PlaceIn
      <4> QED BY <1>6, <2>1, <2>2, <2>4, <3>1, <4>1
    <3>3. Place(u, l[a].key) < Place(u, l[b].key)
      BY <3>2 DEF InOrderOf
    <3> QED BY <1>3, <1>4, <2>2, <3>1, <3>3, SMTT(40)
  <2> QED BY <1>1, <2>3, <2>4
<1> QED BY <1>5, <1>6 DEF InOrderOf

-----------------------------------------------------------------------------
(* The steps of the cache.                                                 *)

LEMMA BytesMoved ==
    ASSUME NEW s \in Seq(Entry), OneEach(s), NEW e \in Entry
    PROVE  Bytes(MoveToFront(s, e)) =
             IF Has(s, e.key) THEN Bytes(s) - Size(s[Place(s, e.key)]) + Size(e)
             ELSE Bytes(s) + Size(e)
<1>1. /\ Without(s, e.key) \in Seq(Entry)
      /\ Bytes(Without(s, e.key)) =
           IF Has(s, e.key) THEN Bytes(s) - Size(s[Place(s, e.key)]) ELSE Bytes(s)
  BY WithoutKey, BytesWithout DEF Without
<1> QED BY <1>1, BytesPushFront DEF MoveToFront

\* Evict leaves list, map and count as consistent as they were handed to it.
LEMMA Evicted ==
    ASSUME NEW s \in Seq(Entry), OneEach(s), s # <<>>, Evict(s, Bytes(s), KeysIn(s))
    PROVE  /\ ll' \in Seq(Entry) /\ OneEach(ll')
           /\ cache' = KeysIn(ll') /\ nBytes' = Bytes(ll')
           /\ \/ ll' = s
              \/ Bytes(s) > maxBytes /\ ll' = Front(s) /\ Len(ll') = Len(s) - 1
           /\ nBytes' > maxBytes => Len(ll') = Len(s) - 1
<1>1. CASE ~(Bytes(s) > maxBytes)
  BY <1>1 DEF Evict
<1>2. CASE Bytes(s) > maxBytes
  <2>1. /\ ll' = Front(s) /\ nBytes' = Bytes(s) - Size(Last(s))
        /\ cache' = KeysIn(s) \ {Last(s).key}
    BY <1>2 DEF Evict, RemoveOldest
  <2>2. /\ Front(s) \in Seq(Entry) /\ Len(Front(s)) = Len(s) - 1
        /\ \A i \in 1..Len(s) - 1 : Front(s)[i] = s[i]
        /\ Bytes(Front(s)) = Bytes(s) - Size(Last(s))
    BY BytesFront
  <2>3. Len(s) \in Nat \ {0} /\ DOMAIN s = 1..Len(s) /\ DOMAIN Front(s) = 1..Len(s) - 1
    BY <2>2, EmptySeq, LenProperties
  <2>4. OneEach(Front(s))
    BY <2>2, <2>3 DEF OneEach
  <2>5. KeysIn(Front(s)) = KeysIn(s) \ {Last(s).key}
    BY <2>2, <2>3 DEF KeysIn, Last, OneEach
  <2> QED BY <1>2, <2>1, <2>2, <2>4, <2>5
<1> QED BY <1>1, <1>2

LEMMA OrderFront ==
    ASSUME NEW l \in Seq(Entry), NEW u, l # <<>>, InOrderOf(l, u)
    PROVE  InOrderOf(Front(l), u)
<1>1. /\ Front(l) \in Seq(Entry) /\ Len(Front(l)) = Len(l) - 1
      /\ \A i \in 1..Len(l) - 1 : Front(l)[i] = l[i]
  BY BytesFront
<1>2. \A i \in DOMAIN Front(l) : i \in DOMAIN l /\ Front(l)[i] = l[i]
  BY <1>1
<1> QED BY <1>2 DEF InOrderOf

\* The entry that a Get finds.
LEMMA CachedEntry ==
    ASSUME LruInv, NEW k \in cache
    PROVE  Has(ll, k) /\ Cached(k) \in Entry /\ Cached(k).key = k
<1>1. Has(ll, k)
  BY DEF LruInv, Has
<1>2. Place(ll, k) \in DOMAIN ll /\ ll[Place(ll, k)].key = k
  BY <1>1, PlaceIn DEF LruInv, TypeOK
<1> QED BY <1>1, <1>2 DEF Cached, LruInv, TypeOK

\* What a list is after the use of an entry.
LEMMA MovedList ==
    ASSUME NEW s \in Seq(Entry), OneEach(s), NEW e \in Entry
    PROVE  /\ MoveToFront(s, e) \in Seq(Entry) /\ OneEach(MoveToFront(s, e))
           /\ KeysIn(MoveToFront(s, e)) = KeysIn(s) \cup {e.key}
           /\ Len(MoveToFront(s, e)) = IF Has(s, e.key) THEN Len(s) ELSE Len(s) + 1
           /\ MoveToFront(s, e) # <<>> /\ Head(MoveToFront(s, e)) = e
<1> DEFINE t == MoveToFront(s, e)
<1>1. /\ t \in Seq(Entry) /\ OneEach(t)
      /\ KeysIn(t) = KeysIn(s) \cup {e.key}
      /\ Len(t) = (IF Has(s, e.key) THEN Len(s) ELSE Len(s) + 1)
      /\ t[1] = e /\ Has(t, e.key)
  BY FrontAndRest
<1> HIDE DEF t
<1>2. t # <<>>
  BY <1>1 DEF Has
<1> QED BY <1>1, <1>2 DEF t

LEMMA HitStep ==
    ASSUME LruInv, LeastRecentLast, NEW k \in Keys, Hit(k)
    PROVE  LruInv' /\ LeastRecentLast' /\ result' # {}
<1> DEFINE e == Cached(k)
<1>1. Has(ll, k) /\ e \in Entry /\ e.key = k /\ e = ll[Place(ll, k)]
  BY CachedEntry DEF Hit, Cached
<1>2. e = [key |-> k, value |-> e.value] /\ e.value \in Values /\ k \in Keys
  BY <1>1 DEF Entry
<1> HIDE DEF e
<1>3. /\ ll' = MoveToFront(ll, e) /\ uses' = MoveToFront(uses, e)
      /\ result' = {<<k, e.value>>} /\ UNCHANGED <<cache, nBytes, maxBytes>>
  <2>1. uses' = <<[key |-> k, value |-> e.value]>> \o Without(uses, k)
    BY DEF Hit, Used, e
  <2> QED BY <1>1, <1>2, <2>1 DEF Hit, MoveToFront, e
<1>4. /\ ll \in Seq(Entry) /\ OneEach(ll) /\ uses \in Seq(Entry) /\ OneEach(uses)
      /\ cache = KeysIn(ll) /\ nBytes = Bytes(ll) /\ InOrderOf(ll, uses)
      /\ cache \subseteq Keys /\ nBytes \in Int
  BY DEF LruInv, TypeOK, LeastRecentLast, KeysIn, InOrderOf
<1>5. /\ ll' \in Seq(Entry) /\ OneEach(ll') /\ uses' \in Seq(Entry) /\ OneEach(uses')
      /\ KeysIn(ll') = KeysIn(ll) \cup {k} /\ Len(ll') = Len(ll) /\ Head(uses') = e
  BY <1>1, <1>3, <1>4, MovedList
<1>6. nBytes' = Bytes(ll')
  <2>1. Bytes(ll') = Bytes(ll) - Size(e) + Size(e)
    BY <1>1, <1>3, <1>4, BytesMoved
  <2> QED BY <1>1, <1>3, <1>4, <2>1, SizeIsNat
<1>7. InOrderOf(ll', uses')
  BY <1>1, <1>3, <1>4, OrderKept
<1>8. result' \subseteq Keys \X (Values \cup {None})
  BY <1>2, <1>3
<1>9. LruInv'
  <2>1. k \in cache
    BY DEF Hit
  <2>2. cache' = KeysIn(ll')
    BY <1>3, <1>4, <1>5, <2>1
  <2>3. cache' = {ll'[i].key : i \in DOMAIN ll'}
    BY <2>2 DEF KeysIn
  <2>4. cache' \subseteq Keys /\ nBytes' \in Int
    BY <1>3, <1>4
  <2>5. maxBytes' \in Limits
    BY <1>3 DEF LruInv, TypeOK
  <2> QED BY <1>5, <1>6, <1>8, <2>3, <2>4, <2>5 DEF LruInv, TypeOK
<1>10. LeastRecentLast'
  BY <1>2, <1>3, <1>5, <1>7 DEF LeastRecentLast, InOrderOf
<1> QED BY <1>3, <1>9, <1>10

\* Add at the limit.
AtLimit ==
    /\ nBytes' > maxBytes => Len(ll') <= Len(ll)
    /\ IF ll' = <<>> THEN Size(Head(uses')) > maxBytes ELSE Head(ll') = Head(uses')

LEMMA AddStep ==
    ASSUME LruInv, LeastRecentLast, NEW k \in Keys, NEW v \in Values, Add(k, v)
    PROVE  LruInv' /\ LeastRecentLast' /\ AtLimit
<1> DEFINE e == [key |-> k, value |-> v]
           s == MoveToFront(ll, e)
<1>1. e \in Entry /\ e.key = k /\ e.value = v
  BY DEF Entry
<1>2. /\ ll \in Seq(Entry) /\ OneEach(ll) /\ uses \in Seq(Entry) /\ OneEach(uses)
      /\ cache = KeysIn(ll) /\ nBytes = Bytes(ll) /\ InOrderOf(ll, uses)
      /\ cache \subseteq Keys /\ nBytes \in Int
  BY DEF LruInv, TypeOK, LeastRecentLast, KeysIn, InOrderOf
<1>3. uses' = MoveToFront(uses, e) /\ result' = {} /\ maxBytes' = maxBytes
  BY <1>1 DEF Add, Update, Insert, Used, MoveToFront
<1>4. /\ s \in Seq(Entry) /\ OneEach(s) /\ s # <<>> /\ Head(s) = e
      /\ KeysIn(s) = KeysIn(ll) \cup {k}
      /\ Len(s) = IF Has(ll, k) THEN Len(ll) ELSE Len(ll) + 1
      /\ uses' \in Seq(Entry) /\ OneEach(uses') /\ Head(uses') = e
      /\ InOrderOf(s, uses')
  BY <1>1, <1>2, <1>3, MovedList, OrderKept
<1>5. Evict(s, Bytes(s), KeysIn(s))
  <2>1. CASE Update(k, v)
    <3>1. Has(ll, k) /\ Cached(k) = ll[Place(ll, k)] /\ Cached(k) \in Entry /\ Cached(k).key = k
      BY <2>1, CachedEntry DEF Update, Cached
    <3>2. Bytes(s) = Bytes(ll) - Size(Cached(k)) + Size(e)
      BY <1>1, <1>2, <3>1, BytesMoved
    <3>3. /\ LenOf[k] \in Nat /\ LenOf[v] \in Nat /\ LenOf[Cached(k).value] \in Nat
      BY <3>1, LruAssumption DEF Entry
    <3>4. Bytes(s) = nBytes + LenOf[v] - LenOf[Cached(k).value]
      BY <1>1, <1>2, <3>1, <3>2, <3>3 DEF Size
    <3>5. KeysIn(s) = cache
      BY <1>2, <1>4, <2>1 DEF Update
    <3> QED BY <2>1, <3>4, <3>5 DEF Update
  <2>2. CASE Insert(k, v)
    <3>1. ~Has(ll, k)
      BY <1>2, <2>2 DEF Insert, Has, KeysIn
    <3>2. s = <<e>> \o ll
      BY <1>1, <3>1 DEF MoveToFront, Without
    <3>3. Bytes(s) = Bytes(ll) + Size(e)
      BY <1>1, <1>2, <3>1, BytesMoved
    <3>4. LenOf[k] \in Nat /\ LenOf[v] \in Nat
      BY LruAssumption
    <3>5. Bytes(s) = nBytes + LenOf[k] + LenOf[v]
      BY <1>1, <1>2, <3>3, <3>4 DEF Size
    <3>6. KeysIn(s) = cache \cup {k}
      BY <1>2, <1>4
    <3>7. Evict(<<e>> \o ll, nBytes + LenOf[k] + LenOf[v], cache \cup {k})
      BY <2>2 DEF Insert
    <3> QED BY <3>2, <3>5, <3>6, <3>7
  <2> QED BY <2>1, <2>2 DEF Add
<1> HIDE DEF s, e
<1>6. /\ ll' \in Seq(Entry) /\ OneEach(ll')
      /\ cache' = KeysIn(ll') /\ nBytes' = Bytes(ll')
      /\ \/ ll' = s
         \/ Bytes(s) > maxBytes /\ ll' = Front(s) /\ Len(ll') = Len(s) - 1
      /\ nBytes' > maxBytes => Len(ll') = Len(s) - 1
  BY <1>4, <1>5, Evicted
<1>7. InOrderOf(ll', uses')
  BY <1>4, <1>6, OrderFront
<1>8. cache' \subseteq Keys /\ nBytes' \in Int
  <2>1. cache' \subseteq Keys
    <3>1. \A i \in DOMAIN ll' : ll'[i] \in Entry
      BY <1>6
    <3>2. \A i \in DOMAIN ll' : ll'[i].key \in Keys
      BY <3>1 DEF Entry
    <3> QED BY <1>6, <3>2 DEF KeysIn
  <2>2. Bytes(ll') \in Int
    BY <1>6, BytesUpToInt, LenProperties DEF Bytes
  <2> QED BY <1>6, <2>1, <2>2
<1>9. LruInv'
  <2>1. maxBytes' \in Limits
    BY <1>3 DEF LruInv, TypeOK
  <2> QED BY <1>3, <1>4, <1>6, <1>8, <2>1 DEF LruInv, TypeOK, KeysIn
<1>10. LeastRecentLast'
  BY <1>3, <1>7 DEF LeastRecentLast, InOrderOf
<1>11. nBytes' > maxBytes => Len(ll') <= Len(ll)
  BY <1>2, <1>4, <1>6, LenProperties
<1>12. IF ll' = <<>> THEN Size(e) > maxBytes ELSE Head(ll') = e
  <2>1. CASE ll' = s
    BY <1>4, <2>1
  <2>2. CASE Bytes(s) > maxBytes /\ ll' = Front(s) /\ Len(ll') = Len(s) - 1
    <3>1. /\ Front(s) \in Seq(Entry) /\ Len(Front(s)) = Len(s) - 1
          /\ \A i \in 1..Len(s) - 1 : Front(s)[i] = s[i]
          /\ Bytes(Front(s)) = Bytes(s) - Size(Last(s))
      BY <1>4, BytesFront
    <3>2. CASE ll' = <<>>
      <4>1. Len(s) = 1 /\ Last(s) = e
        BY <1>4, <2>2, <3>1, <3>2 DEF Last
      <4>2. Bytes(<<>>) = 0
        BY BytesUpToDef, <<>> \in Seq(Entry), Len(<<>>) = 0 DEF Bytes
      <4>3. Bytes(s) \in Int /\ Size(e) \in Nat
        BY <1>1, <1>4, BytesUpToInt, SizeIsNat, LenProperties DEF Bytes
      <4>4. Bytes(s) = Size(e)
        BY <2>2, <3>1, <3>2, <4>1, <4>2, <4>3
      <4> QED BY <2>2, <3>2, <4>4
    <3>3. CASE ll' # <<>>
      <4>1. Len(s) - 1 \in Nat \ {0} /\ 1 \in 1..Len(s) - 1
        BY <1>4, <2>2, <3>1, <3>3
      <4>2. Front(s)[1] = s[1]
        BY <3>1, <4>1
      <4> QED BY <1>4, <2>2, <3>3, <4>2
    <3> QED BY <3>2, <3>3
  <2> QED BY <1>6, <2>1, <2>2
<1> QED BY <1>4, <1>9, <1>10, <1>11, <1>12 DEF AtLimit

-----------------------------------------------------------------------------
(* The theorems.                                                           *)

\* Both invariants hold at the start and every operation keeps them.
LEMMA LruInit == Init => LruInv /\ LeastRecentLast
<1> SUFFICES ASSUME Init PROVE LruInv /\ LeastRecentLast
  OBVIOUS
<1>1. <<>> \in Seq(Entry) /\ DOMAIN <<>> = {} /\ Len(<<>>) = 0
  OBVIOUS
<1>2. Bytes(<<>>) = 0
  BY <1>1, BytesUpToDef DEF Bytes
<1> QED BY <1>1, <1>2 DEF Init, LruInv, LeastRecentLast, TypeOK, OneEach

LEMMA LruStep == LruInv /\ LeastRecentLast /\ [Next]_vars => (LruInv /\ LeastRecentLast)'
<1> SUFFICES ASSUME LruInv, LeastRecentLast, [Next]_vars PROVE (LruInv /\ LeastRecentLast)'
  OBVIOUS
<1>1. CASE UNCHANGED vars
  BY <1>1 DEF vars, LruInv, LeastRecentLast, TypeOK, OneEach
<1>2. ASSUME NEW k \in Keys, Hit(k) PROVE (LruInv /\ LeastRecentLast)'
  BY <1>2, HitStep
<1>3. ASSUME NEW k \in Keys, Miss(k) PROVE (LruInv /\ LeastRecentLast)'
  BY <1>3 DEF Miss, LruInv, LeastRecentLast, TypeOK, OneEach
<1>4. ASSUME NEW k \in Keys, NEW v \in Values, Add(k, v) PROVE (LruInv /\ LeastRecentLast)'
  BY <1>4, AddStep
<1> QED BY <1>1, <1>2, <1>3, <1>4 DEF Next, Get

\* List, map and byte count of the cache agree for any keys, values, lengths and limit.
THEOREM CountsAgree == Spec => []LruInv
<1>1. Spec => [](LruInv /\ LeastRecentLast)
  BY LruInit, LruStep, PTL DEF Spec
<1> QED BY <1>1, PTL

\* The list is in the order of use and holds what each key was given last: what
\* removeOldest takes is the least recently used entry.
THEOREM VictimLeastRecent == Spec => []LeastRecentLast
<1>1. Spec => [](LruInv /\ LeastRecentLast)
  BY LruInit, LruStep, PTL DEF Spec
<1> QED BY <1>1, PTL

\* An Add that ends over the limit leaves no more entries than there were, and what was
\* added is in front unless it is larger than the limit.
THEOREM LimitKept == Spec => AddAtLimit
<1>1. Spec => [](LruInv /\ LeastRecentLast)
  BY LruInit, LruStep, PTL DEF Spec
<1>2. LruInv /\ LeastRecentLast /\ [Next]_vars => [result' = {} => AtLimit]_vars
  <2> SUFFICES ASSUME LruInv, LeastRecentLast, Next, result' = {} PROVE AtLimit
    OBVIOUS
  <2>1. ASSUME NEW k \in Keys, Get(k) PROVE FALSE
    BY <2>1, HitStep DEF Get, Miss
  <2>2. ASSUME NEW k \in Keys, NEW v \in Values, Add(k, v) PROVE AtLimit
    BY <2>2, AddStep
  <2> QED BY <2>1, <2>2 DEF Next
<1>3. AddAtLimit <=> [][result' = {} => AtLimit]_vars
  BY DEF AddAtLimit, AtLimit
<1> QED BY <1>1, <1>2, <1>3, PTL DEF Spec
==============================================================================
