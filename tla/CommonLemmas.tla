---------------------------- MODULE CommonLemmas ----------------------------
(***************************************************************************)
(* What the proofs of several components rest on: what pushing to and      *)
(* popping from a list does to its members, the arithmetic of the tiles of *)
(* an axis, and what sequences are joined to.                              *)
(***************************************************************************)
EXTENDS Lists, SequencesExt, SequenceTheorems, FunctionTheorems, FiniteSetTheorems,
        WellFoundedInduction, TLAPS

(* An element pushed at the front of a list it is not in.                  *)
LEMMA PushFront ==
  ASSUME NEW S, NEW q \in Seq(S), NEW e \in S, NoRepeat(q), e \notin Elems(q)
  PROVE  /\ <<e>> \o q \in Seq(S)
         /\ NoRepeat(<<e>> \o q)
         /\ Elems(<<e>> \o q) = Elems(q) \union {e}
         /\ Len(<<e>> \o q) = Len(q) + 1
<1> DEFINE r == <<e>> \o q
<1>1. /\ r \in Seq(S) /\ Len(r) = Len(q) + 1 /\ r[1] = e
      /\ \A i \in 1..Len(q) : r[i + 1] = q[i]
      /\ \A i \in 2..Len(r) : r[i] = q[i - 1] /\ i - 1 \in 1..Len(q)
  OBVIOUS
<1>2. NoRepeat(r)
  BY <1>1 DEF NoRepeat, Elems
<1>3. Elems(r) = Elems(q) \union {e}
  <2>1. ASSUME NEW x \in Elems(r) PROVE x \in Elems(q) \union {e}
    <3>1. PICK i \in 1..Len(r) : x = r[i]
      BY <2>1 DEF Elems
    <3>2. CASE i = 1
      BY <3>1, <3>2, <1>1
    <3>3. CASE i # 1
      BY <3>1, <3>3, <1>1 DEF Elems
    <3> QED BY <3>2, <3>3
  <2>2. e \in Elems(r)
    BY <1>1 DEF Elems
  <2>3. ASSUME NEW x \in Elems(q) PROVE x \in Elems(r)
    <3>1. PICK i \in 1..Len(q) : x = q[i]
      BY DEF Elems
    <3>2. i + 1 \in 1..Len(r) /\ r[i + 1] = x
      BY <3>1, <1>1
    <3> QED BY <3>2 DEF Elems
  <2> QED BY <2>1, <2>2, <2>3
<1> QED BY <1>1, <1>2, <1>3

(* The last element taken off the back of a list.                          *)
LEMMA PopBack ==
  ASSUME NEW S, NEW q \in Seq(S), q # <<>>, NoRepeat(q)
  PROVE  /\ q[Len(q)] \in S
         /\ SubSeq(q, 1, Len(q) - 1) \in Seq(S)
         /\ NoRepeat(SubSeq(q, 1, Len(q) - 1))
         /\ Elems(SubSeq(q, 1, Len(q) - 1)) = Elems(q) \ {q[Len(q)]}
         /\ q[Len(q)] \in Elems(q)
         /\ Len(SubSeq(q, 1, Len(q) - 1)) = Len(q) - 1
<1> DEFINE n == Len(q)
           r == SubSeq(q, 1, n - 1)
<1>1. n \in Nat /\ n > 0
  OBVIOUS
<1>2. /\ r \in Seq(S) /\ Len(r) = n - 1
      /\ \A i \in 1..n - 1 : r[i] = q[i]
  <2>1. n - 1 \in Int /\ \A i \in 1..n - 1 : q[i] \in S
    BY <1>1
  <2>2. /\ r \in Seq(S)
        /\ Len(r) = IF 1 <= n - 1 THEN n - 1 - 1 + 1 ELSE 0
        /\ \A i \in 1..n - 1 - 1 + 1 : r[i] = q[1 + i - 1]
    BY <2>1, SubSeqProperties
  <2>3. 1..n - 1 - 1 + 1 = 1..n - 1 /\ \A i \in 1..n - 1 : 1 + i - 1 = i
    BY <1>1
  <2> HIDE DEF n, r
  <2>4. \A i \in 1..n - 1 : r[i] = q[i]
    BY <2>2, <2>3
  <2>5. Len(r) = n - 1
    <3>1. CASE 1 <= n - 1
      <4>1. Len(r) = n - 1 - 1 + 1
        BY <2>2, <3>1
      <4> QED BY <4>1, <1>1
    <3>2. CASE ~(1 <= n - 1)
      <4>1. Len(r) = 0
        BY <2>2, <3>2
      <4>2. n = 1
        BY <1>1, <3>2
      <4> QED BY <4>1, <4>2
    <3> QED BY <3>1, <3>2
  <2> QED BY <2>2, <2>4, <2>5
<1>3. NoRepeat(r)
  BY <1>1, <1>2 DEF NoRepeat
<1>4. q[n] \in S /\ q[n] \in Elems(q)
  BY <1>1 DEF Elems
<1>5. ASSUME NEW x \in Elems(r) PROVE x \in Elems(q) \ {q[n]}
  <2>1. PICK i \in 1..n - 1 : x = q[i]
    BY <1>2 DEF Elems
  <2>2. i \in 1..n /\ n \in 1..n /\ i # n
    BY <1>1
  <2> QED BY <2>1, <2>2 DEF Elems, NoRepeat
<1>6. ASSUME NEW x \in Elems(q), x # q[n] PROVE x \in Elems(r)
  <2>1. PICK i \in 1..n : x = q[i]
    BY DEF Elems
  <2>2. i \in 1..n - 1
    BY <2>1, <1>6, <1>1
  <2> QED BY <2>1, <2>2, <1>2 DEF Elems
<1> QED BY <1>2, <1>3, <1>4, <1>5, <1>6

(* An element put at the back of a list it is not in.                      *)
LEMMA PushBack ==
  ASSUME NEW S, NEW q \in Seq(S), NEW e \in S, NoRepeat(q), e \notin Elems(q)
  PROVE  /\ Append(q, e) \in Seq(S)
         /\ NoRepeat(Append(q, e))
         /\ Elems(Append(q, e)) = Elems(q) \union {e}
         /\ Len(Append(q, e)) = Len(q) + 1
<1> DEFINE r == Append(q, e)
<1>1. /\ r \in Seq(S) /\ Len(r) = Len(q) + 1 /\ r[Len(q) + 1] = e
      /\ \A i \in 1..Len(q) : r[i] = q[i]
  OBVIOUS
<1>2. NoRepeat(r)
  BY <1>1 DEF NoRepeat, Elems
<1>3. Elems(r) = Elems(q) \union {e}
  BY <1>1 DEF Elems
<1> QED BY <1>1, <1>2, <1>3

(* The first element taken off the front of a list.                        *)
LEMMA PopFront ==
  ASSUME NEW S, NEW q \in Seq(S), q # <<>>, NoRepeat(q)
  PROVE  /\ Head(q) \in S /\ Head(q) \in Elems(q)
         /\ Tail(q) \in Seq(S)
         /\ NoRepeat(Tail(q))
         /\ Elems(Tail(q)) = Elems(q) \ {Head(q)}
         /\ Len(Tail(q)) = Len(q) - 1
<1> DEFINE r == Tail(q)
<1>1. /\ Len(q) \in Nat /\ Len(q) > 0 /\ Head(q) = q[1] /\ q[1] \in S
      /\ r \in Seq(S) /\ Len(r) = Len(q) - 1
      /\ \A i \in 1..Len(r) : r[i] = q[i + 1]
  OBVIOUS
<1>2. NoRepeat(r)
  BY <1>1 DEF NoRepeat
<1>3. Head(q) \in Elems(q)
  BY <1>1 DEF Elems
<1>4. ASSUME NEW x \in Elems(r) PROVE x \in Elems(q) \ {Head(q)}
  <2>1. PICK i \in 1..Len(r) : x = q[i + 1]
    BY <1>1 DEF Elems
  <2>2. i + 1 \in 1..Len(q) /\ 1 \in 1..Len(q) /\ i + 1 # 1
    BY <1>1
  <2> QED BY <2>1, <2>2, <1>1 DEF Elems, NoRepeat
<1>5. ASSUME NEW x \in Elems(q), x # Head(q) PROVE x \in Elems(r)
  <2>1. PICK i \in 1..Len(q) : x = q[i]
    BY DEF Elems
  <2>2. i - 1 \in 1..Len(r) /\ r[i - 1] = x
    BY <2>1, <1>5, <1>1
  <2> QED BY <2>2 DEF Elems
<1> QED BY <1>1, <1>2, <1>3, <1>4, <1>5

-----------------------------------------------------------------------------
(* The quotient and the remainder.                                         *)
LEMMA Division ==
  ASSUME NEW y \in Nat, NEW t \in Nat \ {0}
  PROVE  y \div t \in Int /\ y % t \in 0..t - 1 /\ y = t * (y \div t) + (y % t)
OBVIOUS

(* The quotient and the remainder are the only ones that fit.               *)
LEMMA Digits ==
  ASSUME NEW q \in Nat \ {0}, NEW u \in Nat, NEW r \in 0..q - 1
  PROVE  (q * u + r) \div q = u
<1> DEFINE y == q * u + r
           a == y \div q
           b == y % q
<1>1. y \in Nat
  OBVIOUS
<1> HIDE DEF y
<1>2. a \in Int /\ b \in 0..q - 1 /\ y = q * a + b
  BY <1>1, Division
<1> HIDE DEF a, b
<1>3. q * a + b = q * u + r
  BY <1>2 DEF y
<1>4. CASE a < u
  <2>1. q * (a + 1) <= q * u
    BY <1>2, <1>4
  <2>2. q * (a + 1) = q * a + q
    BY <1>2
  <2>3. PICK m \in Int, n \in Int : m = q * a /\ n = q * u
    BY <1>2
  <2> QED
    BY <1>2, <1>3, <2>1, <2>2, <2>3
<1>5. CASE u < a
  <2>1. q * (u + 1) <= q * a
    BY <1>2, <1>5
  <2>2. q * (u + 1) = q * u + q
    OBVIOUS
  <2>3. PICK m \in Int, n \in Int : m = q * a /\ n = q * u
    BY <1>2
  <2> QED
    BY <1>2, <1>3, <2>1, <2>2, <2>3
<1> QED
  BY <1>2, <1>4, <1>5 DEF a, y

(* Pixels further on are not in tiles further back.                         *)
LEMMA DivMonotone ==
  ASSUME NEW x \in Nat, NEW y \in Nat, NEW t \in Nat \ {0}, x <= y
  PROVE  0 <= x \div t /\ x \div t <= y \div t
<1> DEFINE a == x \div t
           b == y \div t
<1>1. /\ a \in Int /\ b \in Int /\ x % t \in 0..t - 1 /\ y % t \in 0..t - 1
      /\ x = t * a + (x % t) /\ y = t * b + (y % t)
  BY Division
<1> HIDE DEF a, b
<1>2. 0 <= a
  <2>1. CASE a < 0
    <3>1. t * a <= 0 - t
      BY <1>1, <2>1
    <3> QED
      BY <1>1, <3>1
  <2> QED
    BY <1>1, <2>1
<1>3. a <= b
  <2>1. CASE b + 1 <= a
    <3>1. t * (b + 1) <= t * a
      BY <1>1, <2>1
    <3>2. t * (b + 1) = t * b + t
      BY <1>1
    <3> QED
      BY <1>1, <3>1, <3>2
  <2> QED
    BY <1>1, <2>1
<1> QED
  BY <1>2, <1>3 DEF a, b

(* The quotient rounded up.                                                *)
LEMMA CeilBounds ==
  ASSUME NEW x \in Nat, NEW t \in Nat \ {0}
  PROVE  /\ (x + t - 1) \div t \in Nat
         /\ ((x + t - 1) \div t) * t >= x
         /\ ((x + t - 1) \div t) * t < x + t
<1> DEFINE s == x + t - 1
           q == s \div t
           m == s % t
<1>1. s \in Nat
  OBVIOUS
<1> HIDE DEF s
<1>2. q \in Int /\ m \in 0..t - 1
  BY <1>1
<1>3. s = t * q + m
  BY <1>1
<1> HIDE DEF q, m
<1>4. q * t >= x /\ q * t < x + t
  BY <1>1, <1>2, <1>3 DEF s
<1>5. q \in Nat
  <2>1. CASE q < 0
    <3>1. t * q <= 0 - t
      BY <2>1, <1>2
    <3> QED BY <3>1, <1>1, <1>2, <1>3
  <2> QED BY <2>1, <1>2
<1> QED BY <1>4, <1>5 DEF q, s

(* A row of tiles has as many tiles as its ends are apart.                 *)
LEMMA IntervalCount ==
  ASSUME NEW m \in Int, NEW n \in Int, m <= n
  PROVE  IsFiniteSet(m..n - 1) /\ Cardinality(m..n - 1) = n - m
<1>1. n - 1 \in Int /\ (m > n - 1 <=> m = n) /\ (n - 1) - m + 1 = n - m
  OBVIOUS
<1>2. /\ IsFiniteSet(m..n - 1)
      /\ Cardinality(m..n - 1) = IF m > n - 1 THEN 0 ELSE (n - 1) - m + 1
  BY <1>1, FS_Interval
<1>3. CASE m = n
  BY <1>1, <1>2, <1>3
<1>4. CASE m # n
  BY <1>1, <1>2, <1>4
<1> QED BY <1>3, <1>4

-----------------------------------------------------------------------------
(* A non-empty set of natural numbers has a least one.                      *)
LEMMA LeastNumber ==
  ASSUME NEW T \in SUBSET Nat, T # {}
  PROVE  \E m \in T : \A n \in T : m <= n
<1> DEFINE R == OpToRel(<, Nat)
<1>1. IsWellFoundedOn(R, Nat)
  BY NatLessThanWellFounded
<1>2. \A x, y \in Nat : x < y => <<x, y>> \in R
  BY DEF OpToRel
<1> HIDE DEF R
<1>3. PICK m \in T : \A n \in T : <<n, m>> \notin R
  BY <1>1, WFMin
<1>4. ASSUME NEW n \in T  PROVE m <= n
  <2>1. ~(n < m)
    BY <1>2, <1>3
  <2> QED
    BY <2>1
<1> QED
  BY <1>4

(* Finitely many numbers have a greatest one.                               *)
LEMMA GreatestNumber ==
  ASSUME NEW S \in SUBSET Nat, IsFiniteSet(S), S # {}
  PROVE  Max(S) \in S /\ \A n \in S : n <= Max(S)
<1> DEFINE Above(m) == {n \in S : m < n}
           T == {Cardinality(Above(m)) : m \in S}
<1>1. ASSUME NEW m \in S  PROVE IsFiniteSet(Above(m)) /\ Cardinality(Above(m)) \in Nat
  <2>1. Above(m) \subseteq S
    OBVIOUS
  <2> HIDE DEF Above
  <2> QED
    BY <2>1, FS_Subset, FS_CardinalityType
<1>2. T \in SUBSET Nat /\ T # {}
  BY <1>1
<1>3. PICK c \in T : \A d \in T : c <= d
  BY <1>2, LeastNumber
<1>4. PICK m \in S : c = Cardinality(Above(m))
  OBVIOUS
<1>5. ASSUME NEW n \in S, m < n  PROVE FALSE
  <2>1. Above(n) \subseteq Above(m) /\ n \in Above(m) /\ n \notin Above(n)
    <3>1. m \in Nat /\ n \in Nat /\ \A k \in S : k \in Nat
      OBVIOUS
    <3>2. ~(n < n) /\ \A k \in S : n < k => m < k
      BY <1>5, <3>1
    <3> QED
      BY <1>5, <3>2
  <2>2. Cardinality(Above(n)) < Cardinality(Above(m))
    <3>1. IsFiniteSet(Above(m)) /\ IsFiniteSet(Above(n)) /\ Above(n) # Above(m)
      BY <1>1, <2>1
    <3> HIDE DEF Above
    <3>2. Cardinality(Above(n)) <= Cardinality(Above(m)) /\ Cardinality(Above(n)) # Cardinality(Above(m))
      BY <2>1, <3>1, FS_Subset
    <3> QED
      BY <1>1, <3>2
  <2>3. Cardinality(Above(n)) \in T
    OBVIOUS
  <2> HIDE DEF Above, T
  <2> QED
    BY <1>1, <1>3, <1>4, <2>2, <2>3
<1>6. \A n \in S : m >= n
  BY <1>5
<1>7. Max(S) \in S /\ \A n \in S : Max(S) >= n
  BY <1>6 DEF Max
<1> QED
  BY <1>7

-----------------------------------------------------------------------------
(* What FlattenSeq makes of a sequence of sequences.                         *)

(* How FlattenSeq joins the first n sequences.                              *)
Flattening(seqs, n, f) ==
  f = [i \in 1..n |-> IF i = 1 THEN seqs[i] ELSE f[i - 1] \o seqs[i]]

(* There is a way to join any number of sequences.                          *)
LEMMA FlatteningExists ==
  ASSUME NEW seqs, NEW n \in Nat
  PROVE  \E f : Flattening(seqs, n, f)
<1> DEFINE T == {m \in Nat : ~\E f : Flattening(seqs, m, f)}
<1>1. SUFFICES ASSUME T # {}  PROVE FALSE
  BY <1>1
<1>2. PICK m \in T : \A k \in T : m <= k
  <2> T \in SUBSET Nat
    OBVIOUS
  <2> QED
    BY <1>1, LeastNumber
<1>3. m \in Nat /\ ~\E f : Flattening(seqs, m, f)
  OBVIOUS
<1>4. m # 0
  <2> DEFINE g == [i \in 1..0 |-> <<>>]
  <2>1. ASSUME m = 0  PROVE Flattening(seqs, m, g)
    BY <2>1 DEF Flattening
  <2> QED
    BY <1>3, <2>1
<1>5. m - 1 \in Nat /\ ~(m <= m - 1)
  BY <1>3, <1>4
<1>6. m - 1 \notin T
  BY <1>2, <1>5
<1>7. PICK f : Flattening(seqs, m - 1, f)
  BY <1>5, <1>6
<1> HIDE DEF T
<1> DEFINE g == [i \in 1..m |-> IF i = m THEN (IF i = 1 THEN seqs[i] ELSE f[i - 1] \o seqs[i])
                                         ELSE f[i]]
<1>8. \A i \in 1..m : i # m => i \in 1..m - 1 /\ g[i] = f[i]
  BY <1>3
<1>9. \A i \in 1..m : i # 1 => i - 1 \in 1..m - 1 /\ g[i - 1] = f[i - 1]
  BY <1>3
<1>10. \A i \in 1..m - 1 : f[i] = IF i = 1 THEN seqs[i] ELSE f[i - 1] \o seqs[i]
  BY <1>7 DEF Flattening
<1>11. ASSUME NEW i \in 1..m
       PROVE  g[i] = IF i = 1 THEN seqs[i] ELSE g[i - 1] \o seqs[i]
  <2>1. CASE i = m
    BY <2>1, <1>9
  <2>2. CASE i # m
    <3>1. g[i] = f[i] /\ f[i] = IF i = 1 THEN seqs[i] ELSE f[i - 1] \o seqs[i]
      BY <1>8, <1>10, <2>2
    <3> HIDE DEF g
    <3> QED
      BY <3>1, <1>9
  <2> QED
    BY <2>1, <2>2
<1>12. g = [i \in 1..m |-> g[i]]
  OBVIOUS
<1> HIDE DEF g
<1>13. Flattening(seqs, m, g)
  BY <1>11, <1>12 DEF Flattening
<1> QED
  BY <1>3, <1>13

(* Where each of n sequences begins in s, which they make up.               *)
Parts(seqs, n, s, off) ==
  /\ off \in [0..n -> Nat]
  /\ off[0] = 0 /\ off[n] = Len(s)
  /\ \A i \in 1..n : /\ off[i] = off[i - 1] + Len(seqs[i])
                     /\ off[i] <= Len(s)
                     /\ \A k \in 1..Len(seqs[i]) : s[off[i - 1] + k] = seqs[i][k]

(* The sequences joined so far make up what they are joined to.             *)
LEMMA FlatteningParts ==
  ASSUME NEW S, NEW seqs \in Seq(Seq(S)), NEW f, Flattening(seqs, Len(seqs), f),
         NEW n \in 1..Len(seqs)
  PROVE  f[n] \in Seq(S) /\ \E off : Parts(seqs, n, f[n], off)
<1> DEFINE T == {m \in 1..Len(seqs) : ~(f[m] \in Seq(S) /\ \E off : Parts(seqs, m, f[m], off))}
<1>1. SUFFICES ASSUME T # {}  PROVE FALSE
  BY <1>1
<1>2. PICK m \in T : \A k \in T : m <= k
  <2> T \in SUBSET Nat
    OBVIOUS
  <2> QED
    BY <1>1, LeastNumber
<1>3. m \in 1..Len(seqs) /\ ~(f[m] \in Seq(S) /\ \E off : Parts(seqs, m, f[m], off))
  OBVIOUS
<1>4. /\ seqs[m] \in Seq(S) /\ m \in Nat /\ m > 0
      /\ f[m] = IF m = 1 THEN seqs[m] ELSE f[m - 1] \o seqs[m]
  <2>1. m \in Nat /\ m > 0 /\ seqs[m] \in Seq(S)
    BY <1>3, ElementOfSeq
  <2> QED
    BY <1>3, <2>1 DEF Flattening
<1>5. CASE m = 1
  <2> DEFINE off == [i \in 0..1 |-> IF i = 0 THEN 0 ELSE Len(seqs[1])]
  <2>1. f[1] = seqs[1] /\ seqs[1] \in Seq(S)
    BY <1>4, <1>5
  <2>2. off \in [0..1 -> Nat] /\ off[0] = 0 /\ off[1] = Len(seqs[1])
    BY <2>1
  <2> HIDE DEF off
  <2>3. Parts(seqs, 1, f[1], off)
    BY <2>1, <2>2 DEF Parts
  <2> QED
    BY <1>3, <1>5, <2>1, <2>3
<1>6. CASE m # 1
  <2> DEFINE l == m - 1
             s == f[l]
  <2>1. l \in 1..Len(seqs) /\ l \in Nat /\ m = l + 1 /\ ~(m <= l)
    BY <1>3, <1>4, <1>6
  <2>2. l \notin T
    BY <1>2, <2>1
  <2>3. s \in Seq(S) /\ \E off : Parts(seqs, l, s, off)
    BY <2>1, <2>2
  <2>4. PICK off : Parts(seqs, l, s, off)
    BY <2>3
  <2> DEFINE g == [i \in 0..m |-> IF i = m THEN off[l] + Len(seqs[m]) ELSE off[i]]
             t == s \o seqs[m]
  <2>5. f[m] = t
    BY <1>4, <1>6
  <2> HIDE DEF s, l, T
  <2>6. /\ off \in [0..l -> Nat] /\ off[0] = 0 /\ off[l] = Len(s)
        /\ \A i \in 1..l : /\ off[i] = off[i - 1] + Len(seqs[i])
                           /\ off[i] <= Len(s)
                           /\ \A k \in 1..Len(seqs[i]) : s[off[i - 1] + k] = seqs[i][k]
    BY <2>4 DEF Parts
  <2>7. /\ t \in Seq(S) /\ Len(t) = Len(s) + Len(seqs[m])
        /\ Len(s) \in Nat /\ Len(seqs[m]) \in Nat
        /\ \A k \in 1..Len(s) : t[k] = s[k]
        /\ \A k \in 1..Len(seqs[m]) : t[Len(s) + k] = seqs[m][k]
    BY <1>4, <2>3
  <2> HIDE DEF t
  <2>8. /\ g \in [0..m -> Nat] /\ g[m] = Len(t) /\ g[0] = 0
        /\ \A i \in 0..l : g[i] = off[i]
    <3>1. \A i \in 0..m : i # m => i \in 0..l
      BY <1>4, <2>1
    <3>2. g[m] = Len(t) /\ g[m] \in Nat
      BY <1>4, <2>6, <2>7
    <3>3. \A i \in 0..l : g[i] = off[i] /\ off[i] \in Nat
      BY <2>1, <2>6
    <3>4. 0 \in 0..l
      BY <2>1
    <3>5. g = [i \in 0..m |-> g[i]]
      OBVIOUS
    <3> HIDE DEF g
    <3>6. g \in [0..m -> Nat]
      BY <3>1, <3>2, <3>3, <3>5
    <3> QED
      BY <2>6, <3>2, <3>3, <3>4, <3>6
  <2> HIDE DEF g
  <2>9. ASSUME NEW i \in 1..m
        PROVE  /\ g[i] = g[i - 1] + Len(seqs[i])
               /\ g[i] <= Len(t)
               /\ \A k \in 1..Len(seqs[i]) : t[g[i - 1] + k] = seqs[i][k]
    <3>1. CASE i = m
      <4>1. g[i - 1] = Len(s) /\ g[i] = Len(t)
        BY <2>1, <2>6, <2>8, <3>1
      <4> QED
        BY <2>7, <3>1, <4>1
    <3>2. CASE i # m
      <4>1. i \in 1..l /\ i \in 0..l /\ i - 1 \in 0..l
        BY <2>1, <3>2
      <4>2. g[i] = off[i] /\ g[i - 1] = off[i - 1] /\ off[i - 1] \in Nat /\ off[i] \in Nat
        BY <2>6, <2>8, <4>1
      <4>3. /\ off[i] = off[i - 1] + Len(seqs[i]) /\ off[i] <= Len(s)
            /\ \A k \in 1..Len(seqs[i]) : s[off[i - 1] + k] = seqs[i][k]
        BY <2>6, <4>1
      <4>4. Len(seqs[i]) \in Nat
        BY <2>1, <4>1
      <4>5. ASSUME NEW k \in 1..Len(seqs[i])  PROVE t[g[i - 1] + k] = seqs[i][k]
        <5> DEFINE a == off[i - 1]
                   b == Len(seqs[i])
                   c == Len(s)
        <5>2. a \in Nat /\ b \in Nat /\ c \in Nat /\ a + b <= c /\ k \in 1..b
          BY <2>7, <4>2, <4>3, <4>4
        <5>3. a + k \in 1..c
          <6> HIDE DEF a, b, c
          <6> QED
            BY <5>2
        <5>1. a + k \in 1..Len(s)
          BY <5>3
        <5> QED
          BY <2>7, <4>2, <4>3, <5>1
      <4> QED
        BY <2>7, <4>2, <4>3, <4>5
    <3> QED
      BY <3>1, <3>2
  <2>10. Parts(seqs, m, t, g)
    BY <2>8, <2>9 DEF Parts
  <2> QED
    BY <1>3, <2>5, <2>7, <2>10
<1> QED
  BY <1>5, <1>6

(* What FlattenSeq joins, the sequences make up.                            *)
LEMMA FlattenSeqParts ==
  ASSUME NEW S, NEW seqs \in Seq(Seq(S))
  PROVE  FlattenSeq(seqs) \in Seq(S) /\ \E off : Parts(seqs, Len(seqs), FlattenSeq(seqs), off)
<1>1. CASE Len(seqs) = 0
  <2> DEFINE off == [i \in 0..0 |-> 0]
  <2>1. FlattenSeq(seqs) = seqs /\ seqs = <<>>
    BY <1>1 DEF FlattenSeq
  <2>2. off \in [0..0 -> Nat] /\ off[0] = 0
    OBVIOUS
  <2> HIDE DEF off
  <2>3. Parts(seqs, 0, seqs, off)
    BY <1>1, <2>2 DEF Parts
  <2> QED
    BY <1>1, <2>1, <2>3
<1>2. CASE Len(seqs) # 0
  <2> DEFINE n == Len(seqs)
             f == CHOOSE h : Flattening(seqs, n, h)
  <2>1. n \in 1..n /\ n \in Nat
    BY <1>2
  <2>2. Flattening(seqs, n, f)
    BY <2>1, FlatteningExists
  <2>3. FlattenSeq(seqs) = f[n]
    BY <1>2 DEF FlattenSeq, Flattening
  <2> HIDE DEF f
  <2> QED
    BY <2>1, <2>2, <2>3, FlatteningParts
<1> QED
  BY <1>1, <1>2

(* Sequences of sequences: where an element of what FlattenSeq joins them   *)
(* to comes from.                                                           *)
LEMMA PartOf ==
  ASSUME NEW S, NEW seqs \in Seq(Seq(S)), NEW s, Len(s) \in Nat, NEW off,
         Parts(seqs, Len(seqs), s, off), NEW i \in 1..Len(s)
  PROVE  \E k \in 1..Len(seqs) : \E j \in 1..Len(seqs[k]) :
           i = off[k - 1] + j /\ s[i] = seqs[k][j]
<1> DEFINE n == Len(seqs)
           T == {k \in 0..n : i <= off[k]}
<1>1. /\ n \in Nat /\ off \in [0..n -> Nat] /\ off[0] = 0 /\ off[n] = Len(s)
      /\ \A k \in 1..n : /\ off[k] = off[k - 1] + Len(seqs[k])
                         /\ \A j \in 1..Len(seqs[k]) : s[off[k - 1] + j] = seqs[k][j]
  BY DEF Parts
<1> HIDE DEF n
<1>2. T \in SUBSET Nat /\ n \in T
  BY <1>1
<1>3. PICK k \in T : \A l \in T : k <= l
  BY <1>2, LeastNumber
<1>4. k # 0 /\ k \in 1..n /\ k - 1 \in 0..n /\ ~(k <= k - 1)
  BY <1>1
<1>5. k - 1 \notin T
  BY <1>3, <1>4
<1>6. off[k - 1] \in Nat /\ off[k - 1] < i /\ i <= off[k] /\ off[k] \in Nat
  BY <1>1, <1>4, <1>5
<1> DEFINE a == off[k - 1]
           j == i - a
<1>7. Len(seqs[k]) \in Nat
  BY <1>4 DEF n
<1>8. off[k] = a + Len(seqs[k])
  BY <1>1, <1>4
<1>9. a \in Nat /\ a < i /\ i <= off[k]
  BY <1>6
<1> HIDE DEF a
<1>10. j \in 1..Len(seqs[k]) /\ i = a + j
  BY <1>7, <1>8, <1>9
<1> HIDE DEF j
<1>11. s[a + j] = seqs[k][j]
  BY <1>1, <1>4, <1>10 DEF a
<1> QED
  BY <1>4, <1>10, <1>11 DEF a, n

(* Sequences that have no element twice, and none in common, are joined to  *)
(* one that has none twice.                                                 *)
LEMMA FlattenOnce ==
  ASSUME NEW S, NEW seqs \in Seq(Seq(S)),
         \A k \in 1..Len(seqs) : NoRepeat(seqs[k]),
         \A k, l \in 1..Len(seqs) : k # l => Elems(seqs[k]) \intersect Elems(seqs[l]) = {}
  PROVE  /\ FlattenSeq(seqs) \in Seq(S) /\ NoRepeat(FlattenSeq(seqs))
         /\ \A x : x \in Elems(FlattenSeq(seqs)) <=> \E k \in 1..Len(seqs) : x \in Elems(seqs[k])
<1> DEFINE s == FlattenSeq(seqs)
           n == Len(seqs)
<1>1. s \in Seq(S) /\ \E off : Parts(seqs, n, s, off)
  BY FlattenSeqParts
<1>2. PICK off : Parts(seqs, n, s, off)
  BY <1>1
<1> HIDE DEF s
<1>3. Len(s) \in Nat
  BY <1>1
<1>4. ASSUME NEW i \in 1..Len(s)
      PROVE  \E k \in 1..n : \E j \in 1..Len(seqs[k]) :
               i = off[k - 1] + j /\ s[i] = seqs[k][j]
  BY <1>2, <1>3, PartOf
<1>5. ASSUME NEW x, NEW y \in 1..Len(s), NEW z \in 1..Len(s), s[y] = s[z]
      PROVE  y = z
  <2>1. PICK k \in 1..n : \E j \in 1..Len(seqs[k]) : y = off[k - 1] + j /\ s[y] = seqs[k][j]
    BY <1>4
  <2>2. PICK j \in 1..Len(seqs[k]) : y = off[k - 1] + j /\ s[y] = seqs[k][j]
    BY <2>1
  <2>3. PICK l \in 1..n : \E m \in 1..Len(seqs[l]) : z = off[l - 1] + m /\ s[z] = seqs[l][m]
    BY <1>4
  <2>4. PICK m \in 1..Len(seqs[l]) : z = off[l - 1] + m /\ s[z] = seqs[l][m]
    BY <2>3
  <2>5. s[y] \in Elems(seqs[k]) /\ s[y] \in Elems(seqs[l])
    BY <1>5, <2>2, <2>4 DEF Elems
  <2>6. k = l
    BY <2>5
  <2>7. j = m
    BY <1>5, <2>2, <2>4, <2>6 DEF NoRepeat
  <2> QED
    BY <2>2, <2>4, <2>6, <2>7
<1>6. ASSUME NEW x, x \in Elems(s)  PROVE \E k \in 1..n : x \in Elems(seqs[k])
  BY <1>4, <1>6 DEF Elems
<1>7. ASSUME NEW x, NEW k \in 1..n, x \in Elems(seqs[k])  PROVE x \in Elems(s)
  <2>1. PICK j \in 1..Len(seqs[k]) : x = seqs[k][j]
    BY <1>7 DEF Elems
  <2> DEFINE a == off[k - 1]
             b == Len(seqs[k])
  <2>2. /\ a \in Nat /\ b \in Nat /\ a + b <= Len(s)
        /\ \A i \in 1..b : s[a + i] = seqs[k][i]
    <3>1. /\ off[k] <= Len(s) /\ off[k] = a + b /\ off \in [0..n -> Nat]
          /\ \A i \in 1..b : s[a + i] = seqs[k][i]
      BY <1>2 DEF Parts
    <3>2. k - 1 \in 0..n /\ seqs[k] \in Seq(S)
      OBVIOUS
    <3>3. b \in Nat
      BY <3>2
    <3>4. off \in [0..n -> Nat]
      BY <3>1
    <3>5. a \in Nat
      BY <3>2, <3>4
    <3> QED
      BY <3>1, <3>3, <3>5
  <2> HIDE DEF a
  <2>3. a + j \in 1..Len(s) /\ s[a + j] = x
    BY <1>3, <2>1, <2>2
  <2> QED
    BY <2>3 DEF Elems
<1> QED
  BY <1>1, <1>5, <1>6, <1>7 DEF NoRepeat, s

(* So are two of them.                                                      *)
LEMMA ConcatOnce ==
  ASSUME NEW S, NEW s \in Seq(S), NEW t \in Seq(S), NoRepeat(s), NoRepeat(t),
         Elems(s) \intersect Elems(t) = {}
  PROVE  /\ s \o t \in Seq(S) /\ NoRepeat(s \o t)
         /\ Elems(s \o t) = Elems(s) \union Elems(t)
<1> DEFINE u == s \o t
           m == Len(s)
           n == Len(t)
<1>1. /\ u \in Seq(S) /\ Len(u) = m + n /\ m \in Nat /\ n \in Nat
      /\ \A i \in 1..m : u[i] = s[i]
      /\ \A i \in 1..n : u[m + i] = t[i]
  OBVIOUS
<1> HIDE DEF u
<1>2. ASSUME NEW i \in 1..m + n, ~(i \in 1..m)
      PROVE  i - m \in 1..n /\ u[i] = t[i - m] /\ u[i] \in Elems(t)
  <2>1. i - m \in 1..n /\ m + (i - m) = i
    BY <1>1, <1>2
  <2> QED
    BY <1>1, <2>1 DEF Elems
<1>3. ASSUME NEW i \in 1..m  PROVE u[i] = s[i] /\ u[i] \in Elems(s) /\ i \in 1..m + n
  BY <1>1 DEF Elems
<1>4. ASSUME NEW i \in 1..n  PROVE m + i \in 1..m + n /\ u[m + i] = t[i]
  BY <1>1
<1>5. ASSUME NEW i \in 1..m + n, NEW j \in 1..m + n, u[i] = u[j]
      PROVE  i = j
  <2>1. CASE i \in 1..m /\ j \in 1..m
    BY <1>3, <1>5, <2>1 DEF NoRepeat
  <2>2. CASE ~(i \in 1..m) /\ ~(j \in 1..m)
    <3>1. i - m \in 1..n /\ j - m \in 1..n /\ t[i - m] = t[j - m]
      BY <1>2, <1>5, <2>2
    <3>2. i - m = j - m
      BY <3>1 DEF NoRepeat
    <3> QED
      BY <1>1, <3>2
  <2>3. CASE i \in 1..m /\ ~(j \in 1..m)
    BY <1>2, <1>3, <1>5, <2>3
  <2>4. CASE ~(i \in 1..m) /\ j \in 1..m
    BY <1>2, <1>3, <1>5, <2>4
  <2> QED
    BY <2>1, <2>2, <2>3, <2>4
<1>6. NoRepeat(u)
  BY <1>1, <1>5 DEF NoRepeat
<1>7. Elems(u) = Elems(s) \union Elems(t)
  <2>1. ASSUME NEW x \in Elems(u)  PROVE x \in Elems(s) \union Elems(t)
    <3>1. PICK i \in 1..m + n : x = u[i]
      BY <1>1 DEF Elems
    <3> QED
      BY <1>2, <1>3, <3>1
  <2>2. ASSUME NEW x \in Elems(s)  PROVE x \in Elems(u)
    BY <1>1, <1>3 DEF Elems
  <2>3. ASSUME NEW x \in Elems(t)  PROVE x \in Elems(u)
    BY <1>1, <1>4 DEF Elems
  <2> QED
    BY <2>1, <2>2, <2>3
<1> QED
  BY <1>1, <1>6, <1>7 DEF u
=============================================================================
