------------------------- MODULE ViewAssemblyProofs -------------------------
(***************************************************************************)
(* Proofs about the parts of the tiles that make a view, for images, tiles  *)
(* and radiuses of any size.                                               *)
(***************************************************************************)
EXTENDS ViewAssembly, CommonLemmas

-----------------------------------------------------------------------------
(* Along an axis.                                                          *)

(* The tiles overlapped are those that hold the lines to copy.             *)
LEMMA TilesHoldTheLines ==
  ASSUME NEW a, IsAxis(a)
  PROVE  /\ a.index \in Nat /\ a.tile \in Nat \ {0} /\ a.radius \in Nat /\ a.image \in Nat \ {0}
         /\ MinCentralTile(a) \in Nat
         /\ IndexMinTile(a) \in Nat /\ IndexMaxTile(a) \in Nat
         /\ IndexMinTile(a) < IndexMaxTile(a)
         /\ MinFile(a) \in Nat /\ MaxFile(a) \in Nat /\ MinFile(a) < MaxFile(a)
         /\ MaxFile(a) <= a.image
         /\ IndexMinTile(a) * a.tile <= MinFile(a)
         /\ MinFile(a) < (IndexMinTile(a) + 1) * a.tile
         /\ MaxFile(a) <= IndexMaxTile(a) * a.tile
         /\ (IndexMaxTile(a) - 1) * a.tile < MaxFile(a)
<1> DEFINE I == a.image
           T == a.tile
           R == a.radius
           x == a.index
           k == Ceil(R, T)
           n == Ceil(I, T)
           m == IndexMinTile(a)
           M == IndexMaxTile(a)
           lo == MinFile(a)
           hi == MaxFile(a)
           u == MinCentralTile(a)
<1>1. /\ x \in Nat /\ T \in Nat \ {0} /\ R \in Nat /\ I \in Nat \ {0}
      /\ x < n
  BY DEF IsAxis, NumberTiles
<1>2. /\ k \in Nat /\ k * T >= R /\ k * T < R + T
      /\ n \in Nat /\ n * T >= I /\ n * T < I + T
  BY <1>1, CeilBounds DEF Ceil
<1>3. u = x * T /\ u \in Nat
  BY <1>1 DEF MinCentralTile
<1>4. /\ m \in Nat
      /\ (m = x - k /\ x - k >= 0) \/ (m = 0 /\ x - k < 0)
  <2> HIDE DEF k
  <2>1. m = Most(x - k, 0)
    BY DEF IndexMinTile, k
  <2> QED BY <1>1, <1>2, <2>1 DEF Most
<1>5. /\ M \in Nat /\ M <= n /\ M <= x + k + 1 /\ M > x
      /\ M = n \/ M = x + k + 1
  <2> HIDE DEF k, n
  <2>1. M = Least(x + k + 1, n)
    BY DEF IndexMaxTile, NumberTiles, k, n
  <2> QED BY <1>1, <1>2, <2>1 DEF Least
<1>6. /\ lo \in Nat /\ lo <= u
      /\ (lo = u - R /\ u - R >= 0) \/ (lo = 0 /\ u - R < 0)
  <2> HIDE DEF u
  <2>1. lo = Most(u - R, 0)
    BY DEF MinFile, u
  <2> QED BY <1>1, <1>3, <2>1 DEF Most
<1>7. /\ hi \in Nat /\ hi <= I /\ hi <= u + T + R
      /\ hi = I \/ hi = u + T + R
  <2> HIDE DEF u
  <2>1. (x + 1) * T = u + T
    BY <1>1, <1>3
  <2>2. hi = Least(u + T + R, I)
    BY <2>1 DEF MaxFile
  <2> QED BY <1>1, <1>3, <2>2 DEF Least
<1> HIDE DEF I, T, R, x, k, n, m, M, lo, hi, u
<1>8. u < I
  <2>1. (x + 1) * T <= n * T
    BY <1>1, <1>2
  <2> QED BY <1>1, <1>2, <1>3, <2>1
<1>9. lo < hi
  BY <1>1, <1>3, <1>6, <1>7, <1>8
<1>10. m * T <= lo /\ lo < (m + 1) * T
  <2>1. CASE m = x - k /\ x - k >= 0
    <3>1. m * T = u - k * T /\ (m + 1) * T = u - k * T + T
      BY <1>1, <1>2, <1>3, <2>1
    <3>2. (m + 1) * T > 0
      BY <1>1, <1>4
    <3> DEFINE kT == k * T
               mT == m * T
               mT1 == (m + 1) * T
    <3>3. /\ kT \in Int /\ kT >= R /\ kT < R + T
          /\ mT = u - kT /\ mT1 = u - kT + T /\ mT1 > 0
      BY <1>1, <1>2, <3>1, <3>2
    <3>4. m * T = mT /\ (m + 1) * T = mT1
      OBVIOUS
    <3> HIDE DEF kT, mT, mT1
    <3>5. mT <= lo /\ lo < mT1
      BY <1>1, <1>3, <1>6, <3>3
    <3> QED BY <3>4, <3>5
  <2>2. CASE m = 0 /\ x - k < 0
    <3>1. (x + 1) * T <= k * T
      BY <1>1, <1>2, <2>2
    <3>2. (x + 1) * T = u + T
      BY <1>1, <1>3
    <3>3. u < R
      BY <1>1, <1>2, <1>3, <3>1, <3>2
    <3>4. m * T = 0 /\ (m + 1) * T = T
      BY <1>1, <2>2
    <3>5. lo = 0
      BY <1>1, <1>3, <1>6, <3>3
    <3> QED BY <1>1, <3>4, <3>5
  <2> QED BY <1>4, <2>1, <2>2
<1>11. hi <= M * T
  <2>1. CASE M = n
    BY <1>1, <1>2, <1>7, <2>1
  <2>2. CASE M = x + k + 1
    <3>1. M * T = u + T + k * T
      BY <1>1, <1>2, <1>3, <2>2
    <3> QED BY <1>1, <1>2, <1>3, <1>7, <3>1
  <2> QED BY <1>5, <2>1, <2>2
<1>12. (M - 1) * T < hi
  <2>1. (M - 1) * T <= (n - 1) * T
    BY <1>1, <1>2, <1>5
  <2>2. (n - 1) * T = n * T - T
    BY <1>1, <1>2
  <2>3. (M - 1) * T <= (x + k) * T
    BY <1>1, <1>2, <1>5
  <2>4. (x + k) * T = u + k * T
    BY <1>1, <1>2, <1>3
  <2>5. /\ (M - 1) * T \in Int /\ n * T \in Int /\ k * T \in Int
    BY <1>1, <1>2, <1>5
  <2> QED BY <1>1, <1>2, <1>3, <1>7, <2>1, <2>2, <2>3, <2>4, <2>5
<1> QED BY <1>1, <1>3, <1>4, <1>5, <1>6, <1>7, <1>9, <1>10, <1>11, <1>12
       DEF I, T, R, x, m, M, lo, hi, u

(* The part of each tile lies where it should, and each part starts where  *)
(* the one before it ends, from the first line to copy to the last.        *)
LEMMA PartsFollow ==
  ASSUME NEW a, IsAxis(a), NEW t \in Overlapped(a)
  PROVE  /\ t \in Nat /\ From(a, t) \in Nat /\ ToCopy(a, t) \in Nat \ {0}
         /\ DestOf(a, t) \in Nat /\ EndOf(a, t) \in Nat
         /\ InPlace(a, t, From(a, t), DestOf(a, t), ToCopy(a, t))
         /\ EndOf(a, t) <= (t + 1) * a.tile
         /\ t * a.tile <= t * a.tile + From(a, t)
         /\ t = IndexMinTile(a) => DestOf(a, t) = FillBefore(a)
         /\ t + 1 \in Overlapped(a) => DestOf(a, t + 1) = DestOf(a, t) + ToCopy(a, t)
<1> DEFINE I == a.image
           T == a.tile
           R == a.radius
           m == IndexMinTile(a)
           M == IndexMaxTile(a)
           lo == MinFile(a)
           hi == MaxFile(a)
           u == MinCentralTile(a)
           f == From(a, t)
           w == ToCopy(a, t)
           tT == t * T
           tT1 == (t + 1) * T
<1>1. /\ T \in Nat \ {0} /\ R \in Nat /\ I \in Nat \ {0} /\ u \in Nat
      /\ m \in Nat /\ M \in Nat /\ lo \in Nat /\ hi \in Nat /\ lo < hi /\ hi <= I
      /\ m * T <= lo /\ lo < (m + 1) * T /\ hi <= M * T /\ (M - 1) * T < hi
  BY TilesHoldTheLines
<1>2. t \in Nat /\ m <= t /\ t <= M - 1
  BY <1>1 DEF Overlapped
<1>3. /\ lo = Most(u - R, 0) /\ lo \in Nat
      /\ hi = Least((a.index + 1) * T + R, I)
      /\ a.index \in Nat /\ u = a.index * T
  BY TilesHoldTheLines DEF MinFile, MaxFile, MinCentralTile
<1>4. (a.index + 1) * T = u + T
  BY <1>1, <1>3
<1>5. hi <= u + T + R /\ lo >= u - R /\ (u - R >= 0 => lo = u - R) /\ (u - R < 0 => lo = 0)
  <2> HIDE DEF lo, hi, u
  <2>1. hi = Least(u + T + R, I)
    BY <1>3, <1>4
  <2> QED BY <1>1, <1>3, <2>1 DEF Least, Most
<1>6. /\ tT \in Nat /\ tT1 = tT + T /\ tT1 \in Nat
      /\ tT < hi /\ tT1 > lo
  <2>1. t * T <= (M - 1) * T /\ (m + 1) * T <= (t + 1) * T
    BY <1>1, <1>2
  <2>2. t * T \in Nat /\ (t + 1) * T = t * T + T
    BY <1>1, <1>2
  <2>3. (M - 1) * T \in Int /\ (m + 1) * T \in Int
    BY <1>1
  <2> QED BY <1>1, <2>1, <2>2, <2>3
<1>7. f = IF tT <= lo THEN lo - tT ELSE 0
  BY DEF From
<1>8. w = Least(hi, tT + T) - f - tT
  BY DEF ToCopy
<1>9. /\ DestOf(a, t) = tT + f - u + R /\ EndOf(a, t) = tT + f + w
  BY DEF DestOf, EndOf
<1>10. InPlace(a, t, f, DestOf(a, t), w) <=>
          /\ f >= 0 /\ w > 0 /\ f + w <= T
          /\ tT + f + w <= I
          /\ DestOf(a, t) >= 0 /\ DestOf(a, t) + w <= T + 2 * R
          /\ tT + f - DestOf(a, t) = u - R
  BY DEF InPlace, ViewSize
<1>11. t = m => tT <= lo
  BY <1>1
<1>12. FillBefore(a) = lo - u + R
  <2>1. FillBefore(a) = IF u - R < 0 THEN R - u ELSE 0
    BY DEF FillBefore
  <2> HIDE DEF lo, u
  <2> QED BY <1>1, <1>5, <2>1
<1>13. t + 1 \in Overlapped(a) => tT1 < hi /\ DestOf(a, t + 1) = tT1 - u + R
  <2> SUFFICES ASSUME t + 1 \in Overlapped(a)
               PROVE  tT1 < hi /\ DestOf(a, t + 1) = tT1 - u + R
    OBVIOUS
  <2>1. t + 1 <= M - 1
    BY <1>1, <1>2 DEF Overlapped
  <2>2. (t + 1) * T <= (M - 1) * T /\ (M - 1) * T \in Int
    BY <1>1, <1>2, <2>1
  <2>3. tT1 < hi
    BY <1>1, <1>6, <2>2
  <2>4. From(a, t + 1) = 0
    <3>1. From(a, t + 1) = IF tT1 <= lo THEN lo - tT1 ELSE 0
      BY DEF From
    <3> HIDE DEF tT1, lo
    <3> QED BY <1>1, <1>6, <3>1
  <2> QED BY <1>1, <1>2, <2>3, <2>4 DEF DestOf
<1> HIDE DEF I, T, R, m, M, lo, hi, u, f, w, tT, tT1
<1>14. f \in Nat /\ tT + f >= lo /\ tT + f < hi /\ tT + f < tT1 /\ (tT <= lo => tT + f = lo)
  BY <1>1, <1>6, <1>7
<1>15. /\ tT + f + w <= hi /\ tT + f + w <= tT1 /\ w > 0 /\ w \in Nat
       /\ tT1 < hi => tT + f + w = tT1
  BY <1>1, <1>6, <1>8, <1>14 DEF Least
<1>16. /\ DestOf(a, t) \in Nat /\ EndOf(a, t) \in Nat
       /\ DestOf(a, t) + w <= T + 2 * R
  BY <1>1, <1>5, <1>6, <1>9, <1>14, <1>15
<1>17. InPlace(a, t, f, DestOf(a, t), w)
  BY <1>1, <1>6, <1>9, <1>10, <1>14, <1>15, <1>16
<1>18. t = m => DestOf(a, t) = FillBefore(a)
  <2>1. tT <= lo => tT + f = lo
    BY <1>14
  <2>2. DestOf(a, t) = tT + f - u + R
    BY <1>9
  <2>3. tT + f = lo => DestOf(a, t) = FillBefore(a)
    BY <1>1, <1>6, <1>12, <1>14, <2>2
  <2> QED BY <1>11, <2>1, <2>3
<1>19. t + 1 \in Overlapped(a) => DestOf(a, t + 1) = DestOf(a, t) + w
  BY <1>1, <1>6, <1>9, <1>13, <1>14, <1>15
<1>20. EndOf(a, t) <= tT1 /\ tT <= tT + f
  BY <1>6, <1>9, <1>14, <1>15
<1> QED BY <1>2, <1>14, <1>15, <1>16, <1>17, <1>18, <1>19, <1>20 DEF f, w, tT, tT1, m, T

(* The parts of two tiles do not overlap in the view.                      *)
LEMMA PartsAreApart ==
  ASSUME NEW a, IsAxis(a), NEW s \in Overlapped(a), NEW t \in Overlapped(a), s < t
  PROVE  DestOf(a, s) + ToCopy(a, s) <= DestOf(a, t)
<1> DEFINE T == a.tile
           u == MinCentralTile(a)
<1>1. /\ s \in Nat /\ From(a, s) \in Nat /\ ToCopy(a, s) \in Nat
      /\ t \in Nat /\ From(a, t) \in Nat
      /\ EndOf(a, s) <= (s + 1) * T
      /\ T \in Nat \ {0} /\ u \in Nat /\ a.radius \in Nat
  BY PartsFollow, TilesHoldTheLines
<1>2. (s + 1) * T <= t * T
  BY <1>1
<1>3. /\ (s + 1) * T \in Nat /\ t * T \in Nat /\ s * T \in Nat
  BY <1>1
<1>4. /\ DestOf(a, s) = s * T + From(a, s) - u + a.radius
      /\ DestOf(a, t) = t * T + From(a, t) - u + a.radius
      /\ EndOf(a, s) = s * T + From(a, s) + ToCopy(a, s)
  BY DEF DestOf, EndOf
<1> HIDE DEF T, u
<1> QED BY <1>1, <1>2, <1>3, <1>4

(* A line of the view that the image has lies in the part of some tile;    *)
(* the lines before those are nearest to the first of them, and the lines  *)
(* after them to the last.                                                 *)
LEMMA NearestOnAxis ==
  ASSUME NEW a, IsAxis(a)
  PROVE  LET first == FillBefore(a)
             last == ViewSize(a) - FillAfter(a) - 1
         IN  /\ ViewSize(a) \in Nat /\ first \in Nat /\ last \in Nat
             /\ first <= last /\ last < ViewSize(a)
             /\ \A i \in first..last :
                  /\ Nearest(a, i) = MinCentralTile(a) - a.radius + i
                  /\ \E t \in Overlapped(a) : i \in DestOf(a, t)..DestOf(a, t) + ToCopy(a, t) - 1
             /\ \A i \in 0..first - 1 : Nearest(a, i) = Nearest(a, first)
             /\ \A i \in last + 1..ViewSize(a) - 1 : Nearest(a, i) = Nearest(a, last)
<1> DEFINE I == a.image
           T == a.tile
           R == a.radius
           m == IndexMinTile(a)
           M == IndexMaxTile(a)
           lo == MinFile(a)
           hi == MaxFile(a)
           u == MinCentralTile(a)
           first == FillBefore(a)
           after == FillAfter(a)
           VS == ViewSize(a)
           last == VS - after - 1
<1>1. /\ T \in Nat \ {0} /\ R \in Nat /\ I \in Nat \ {0} /\ u \in Nat
      /\ m \in Nat /\ M \in Nat /\ lo \in Nat /\ hi \in Nat /\ lo < hi /\ hi <= I
      /\ m * T <= lo /\ hi <= M * T
      /\ a.index \in Nat
  BY TilesHoldTheLines
<1>2. /\ lo = Most(u - R, 0)
      /\ hi = Least(u + T + R, I)
  <2>1. (a.index + 1) * T = u + T
    BY <1>1 DEF MinCentralTile
  <2> QED BY <2>1 DEF MinFile, MaxFile
<1>3. VS = T + 2 * R
  BY DEF ViewSize
<1>4. first = IF u - R < 0 THEN R - u ELSE 0
  BY DEF FillBefore
<1>5. after = IF first + (hi - lo) < VS THEN VS - (first + (hi - lo)) ELSE 0
  BY DEF FillAfter, FilledFromFile
<1>6. \A i : Nearest(a, i) = Least(Most(u - R + i, 0), I - 1)
  BY DEF Nearest
<1>7. ASSUME NEW i \in Int, lo <= u - R + i, u - R + i < hi
      PROVE  \E t \in Overlapped(a) : i \in DestOf(a, t)..DestOf(a, t) + ToCopy(a, t) - 1
  <2> DEFINE y == u - R + i
             t == y \div T
             k == y % T
             tT == t * T
  <2>1. y \in Nat /\ lo <= y /\ y < hi
    BY <1>1, <1>7
  <2> HIDE DEF y
  <2>2. t \in Int /\ k \in 0..T - 1
    BY <1>1, <2>1, Division
  <2>3. y = T * t + k
    <3> HIDE DEF T
    <3> QED BY <1>1, <2>1, Division
  <2> HIDE DEF t, k
  <2>4. t * T <= y /\ y < (t + 1) * T
    BY <1>1, <2>2, <2>3
  <2>5. m <= t
    <3>1. m * T < (t + 1) * T
      BY <1>1, <2>1, <2>2, <2>4
    <3>2. m < t + 1
      <4>1. CASE t + 1 <= m
        <5>1. (t + 1) * T <= m * T
          BY <1>1, <2>2, <4>1
        <5>2. (t + 1) * T \in Int /\ m * T \in Int
          BY <1>1, <2>2
        <5> QED BY <3>1, <5>1, <5>2
      <4> QED BY <1>1, <2>2, <4>1
    <3> QED BY <1>1, <2>2, <3>2
  <2>6. t < M
    <3>1. t * T < M * T
      BY <1>1, <2>1, <2>2, <2>4
    <3>2. CASE M <= t
      <4>1. M * T <= t * T
        BY <1>1, <2>2, <3>2
      <4>2. M * T \in Int /\ t * T \in Int
        BY <1>1, <2>2
      <4> QED BY <3>1, <4>1, <4>2
    <3> QED BY <1>1, <2>2, <3>2
  <2>7. t \in Overlapped(a)
    BY <1>1, <2>2, <2>5, <2>6 DEF Overlapped
  <2>8. /\ tT \in Int /\ (t + 1) * T = tT + T /\ tT <= y /\ y < tT + T
    BY <1>1, <2>2, <2>4
  <2>9. From(a, t) = IF tT <= lo THEN lo - tT ELSE 0
    BY DEF From
  <2>10. ToCopy(a, t) = Least(hi, tT + T) - From(a, t) - tT
    BY DEF ToCopy
  <2>11. DestOf(a, t) = tT + From(a, t) - u + R
    BY DEF DestOf
  <2> HIDE DEF tT, lo, hi, u, I, T, R
  <2>12. From(a, t) \in Nat /\ tT + From(a, t) <= y
    BY <1>1, <2>1, <2>8, <2>9
  <2>13. tT + From(a, t) + ToCopy(a, t) > y /\ ToCopy(a, t) \in Int
    BY <1>1, <2>1, <2>8, <2>10, <2>12 DEF Least
  <2>14. i = y - u + R
    BY <1>1, <1>7 DEF y
  <2>15. i \in DestOf(a, t)..DestOf(a, t) + ToCopy(a, t) - 1
    BY <1>1, <1>7, <2>1, <2>8, <2>11, <2>12, <2>13, <2>14
  <2> QED BY <2>7, <2>15
<1> HIDE DEF I, T, R, m, M, lo, hi, u, VS
<1>8. /\ lo >= 0 /\ lo >= u - R /\ (u - R >= 0 => lo = u - R) /\ (u - R < 0 => lo = 0)
      /\ hi <= u + T + R /\ hi <= I /\ (hi = I \/ hi = u + T + R)
  BY <1>1, <1>2 DEF Least, Most
<1> HIDE DEF first, after
<1>9. first \in Nat /\ first = lo - u + R
  BY <1>1, <1>4, <1>8
<1>10. after \in Nat /\ VS - after = hi - u + R /\ (after > 0 => hi = I)
  BY <1>1, <1>3, <1>5, <1>8, <1>9
<1>11. last = hi - u + R - 1
  BY <1>1, <1>3, <1>10
<1> HIDE DEF last
<1>12. /\ VS \in Nat /\ last \in Nat /\ first <= last /\ last < VS
  BY <1>1, <1>3, <1>8, <1>9, <1>10, <1>11 DEF last
<1>13. ASSUME NEW i \in first..last
       PROVE  /\ Nearest(a, i) = u - R + i
              /\ \E t \in Overlapped(a) : i \in DestOf(a, t)..DestOf(a, t) + ToCopy(a, t) - 1
  <2>1. i \in Int /\ lo <= u - R + i /\ u - R + i < hi
    BY <1>1, <1>9, <1>11, <1>12
  <2>2. Nearest(a, i) = u - R + i
    BY <1>1, <1>6, <1>8, <2>1 DEF Least, Most
  <2> QED BY <1>7, <2>1, <2>2
<1>14. ASSUME NEW i \in 0..first - 1 PROVE Nearest(a, i) = Nearest(a, first)
  <2>1. first > 0 /\ i \in Int /\ u - R + i < 0 /\ u - R + first = 0
    BY <1>1, <1>8, <1>9
  <2> QED BY <1>1, <1>6, <1>9, <2>1 DEF Least, Most
<1>15. ASSUME NEW i \in last + 1..VS - 1 PROVE Nearest(a, i) = Nearest(a, last)
  <2>1. after > 0 /\ i \in Int
    BY <1>10, <1>12 DEF last
  <2>2. hi = I /\ u - R + i >= I /\ u - R + last = I - 1
    BY <1>1, <1>10, <1>11, <1>12, <2>1
  <2> QED BY <1>1, <1>6, <1>12, <2>1, <2>2 DEF Least, Most
<1> QED BY <1>9, <1>12, <1>13, <1>14, <1>15 DEF first, last, VS, after, u, R

(* The lines of a view that the image has, counted from the central tile:  *)
(* each lies in the view and is nearest to itself, and those of the        *)
(* central tile are among them.                                            *)
LEMMA LocalOnAxis ==
  ASSUME NEW a, IsAxis(a)
  PROVE  /\ \A i \in Local(a) :
              /\ i + a.radius \in 0..ViewSize(a) - 1
              /\ Nearest(a, i + a.radius) = MinCentralTile(a) + i
         /\ 0..MaxCenterTileLocal(a) - 1 \subseteq Local(a)
<1> DEFINE I == a.image
           T == a.tile
           R == a.radius
           u == MinCentralTile(a)
           lo == MinFile(a)
           hi == MaxFile(a)
<1>1. /\ T \in Nat \ {0} /\ R \in Nat /\ I \in Nat \ {0} /\ u \in Nat
      /\ lo \in Nat /\ hi \in Nat /\ hi <= I
      /\ a.index \in Nat
  BY TilesHoldTheLines
<1>2. lo = Most(u - R, 0) /\ hi = Least(u + T + R, I)
  <2>1. (a.index + 1) * T = u + T
    BY <1>1 DEF MinCentralTile
  <2> QED BY <2>1 DEF MinFile, MaxFile
<1>3. /\ 0..ViewSize(a) - 1 = 0..T + 2 * R - 1
      /\ Local(a) = lo - u..hi - u - 1
      /\ MaxCenterTileLocal(a) = Least(I, u + T) - u
      /\ \A i : Nearest(a, i) = Least(Most(u - R + i, 0), I - 1)
  <2>1. 0..ViewSize(a) - 1 = 0..T + 2 * R - 1
    BY <1>1 DEF ViewSize
  <2>2. Local(a) = lo - u..hi - u - 1
    BY DEF Local, MinRealPixelLocal, MaxRealPixelLocal
  <2>3. MaxCenterTileLocal(a) = Least(I, u + T) - u
    BY DEF MaxCenterTileLocal
  <2>4. \A i : Nearest(a, i) = Least(Most(u - R + i, 0), I - 1)
    BY DEF Nearest
  <2> QED BY <2>1, <2>2, <2>3, <2>4
<1> HIDE DEF I, T, R, u, lo, hi
<1>4. ASSUME NEW i \in lo - u..hi - u - 1
      PROVE  /\ i + R \in 0..T + 2 * R - 1
             /\ Least(Most(u - R + (i + R), 0), I - 1) = u + i
  BY <1>1, <1>2, <1>4 DEF Least, Most
<1>5. 0..Least(I, u + T) - u - 1 \subseteq lo - u..hi - u - 1
  BY <1>1, <1>2 DEF Least, Most
<1>6. ASSUME NEW i \in Local(a)
      PROVE  i + R \in 0..ViewSize(a) - 1 /\ Nearest(a, i + R) = u + i
  <2>1. i \in lo - u..hi - u - 1
    BY <1>3
  <2>2. Nearest(a, i + R) = Least(Most(u - R + (i + R), 0), I - 1)
    BY <1>3
  <2>3. i + R \in 0..T + 2 * R - 1 /\ Least(Most(u - R + (i + R), 0), I - 1) = u + i
    BY <1>4, <2>1
  <2>4. i + R \in 0..ViewSize(a) - 1
    BY <1>3, <2>3
  <2>5. Nearest(a, i + R) = u + i
    BY <2>2, <2>3
  <2> QED BY <2>4, <2>5
<1>7. 0..MaxCenterTileLocal(a) - 1 \subseteq Local(a)
  BY <1>3, <1>5
<1> QED BY <1>6, <1>7 DEF R, u

-----------------------------------------------------------------------------
(* The requests of one view.                                               *)

LEMMA AxesOfRequest ==
  ASSUME rows \in Rows, cols \in Cols
  PROVE  IsAxis(rows) /\ IsAxis(cols)
BY AxesAssumption

(* A tile's request tells which tile it is, lies where it should, and      *)
(* writes pixels of the view that no other one writes.                     *)
LEMMA RequestsApart ==
  ASSUME IsAxis(rows), IsAxis(cols), NEW s \in OverlappedTile, NEW t \in OverlappedTile
  PROVE  /\ RequestOf(s) = RequestOf(t) => s = t
         /\ Written(RequestOf(t)) \subseteq ViewPixel
         /\ s # t => Written(RequestOf(s)) \intersect Written(RequestOf(t)) = {}
<1>1. /\ s[1] \in Overlapped(rows) /\ t[1] \in Overlapped(rows)
      /\ s[2] \in Overlapped(cols) /\ t[2] \in Overlapped(cols)
      /\ s = <<s[1], s[2]>> /\ t = <<t[1], t[2]>>
  BY DEF OverlappedTile
<1>2. RequestOf(s) = RequestOf(t) => s = t
  <2>1. /\ RequestOf(s).row = s[1] /\ RequestOf(s).col = s[2]
        /\ RequestOf(t).row = t[1] /\ RequestOf(t).col = t[2]
    BY DEF RequestOf
  <2> QED BY <1>1, <2>1
<1>3. /\ Written(RequestOf(s)) = (DestOf(rows, s[1])..DestOf(rows, s[1]) + ToCopy(rows, s[1]) - 1)
                                 \X (DestOf(cols, s[2])..DestOf(cols, s[2]) + ToCopy(cols, s[2]) - 1)
      /\ Written(RequestOf(t)) = (DestOf(rows, t[1])..DestOf(rows, t[1]) + ToCopy(rows, t[1]) - 1)
                                 \X (DestOf(cols, t[2])..DestOf(cols, t[2]) + ToCopy(cols, t[2]) - 1)
  BY DEF RequestOf, Written
<1>4. Written(RequestOf(t)) \subseteq ViewPixel
  <2>1. ASSUME NEW a, IsAxis(a), NEW i \in Overlapped(a)
        PROVE  DestOf(a, i)..DestOf(a, i) + ToCopy(a, i) - 1 \subseteq 0..ViewSize(a) - 1
    <3>1. /\ DestOf(a, i) \in Nat /\ ToCopy(a, i) \in Nat
          /\ DestOf(a, i) + ToCopy(a, i) <= ViewSize(a)
      BY <2>1, PartsFollow DEF InPlace
    <3>2. ViewSize(a) \in Nat
      BY <2>1, NearestOnAxis
    <3> QED BY <3>1, <3>2
  <2> QED BY <1>1, <1>3, <2>1 DEF ViewPixel
<1>5. ASSUME NEW a, IsAxis(a), NEW i \in Overlapped(a), NEW j \in Overlapped(a), i # j
      PROVE  (DestOf(a, i)..DestOf(a, i) + ToCopy(a, i) - 1)
                \intersect (DestOf(a, j)..DestOf(a, j) + ToCopy(a, j) - 1) = {}
  <2>1. /\ i \in Nat /\ j \in Nat /\ DestOf(a, i) \in Nat /\ DestOf(a, j) \in Nat
        /\ ToCopy(a, i) \in Nat /\ ToCopy(a, j) \in Nat
    BY <1>5, PartsFollow
  <2>2. CASE i < j
    <3>1. DestOf(a, i) + ToCopy(a, i) <= DestOf(a, j)
      BY <1>5, <2>2, PartsAreApart
    <3> QED BY <2>1, <3>1
  <2>3. CASE j < i
    <3>1. DestOf(a, j) + ToCopy(a, j) <= DestOf(a, i)
      BY <1>5, <2>3, PartsAreApart
    <3> QED BY <2>1, <3>1
  <2> QED BY <1>5, <2>1, <2>2, <2>3
<1>6. ASSUME s # t PROVE Written(RequestOf(s)) \intersect Written(RequestOf(t)) = {}
  <2>1. CASE s[1] # t[1]
    <3>1. (DestOf(rows, s[1])..DestOf(rows, s[1]) + ToCopy(rows, s[1]) - 1)
             \intersect (DestOf(rows, t[1])..DestOf(rows, t[1]) + ToCopy(rows, t[1]) - 1) = {}
      BY <1>1, <1>5, <2>1
    <3> QED BY <1>3, <3>1
  <2>2. CASE s[2] # t[2]
    <3>1. (DestOf(cols, s[2])..DestOf(cols, s[2]) + ToCopy(cols, s[2]) - 1)
             \intersect (DestOf(cols, t[2])..DestOf(cols, t[2]) + ToCopy(cols, t[2]) - 1) = {}
      BY <1>1, <1>5, <2>2
    <3> QED BY <1>3, <3>1
  <2> QED BY <1>1, <1>6, <2>1, <2>2
<1> QED BY <1>2, <1>4, <1>6

(* There are as many requests as the counter expects: one, when there is   *)
(* no radius.                                                              *)
AllRequests == {RequestOf(t) : t \in OverlappedTile}

LEMMA RequestCount ==
  ASSUME IsAxis(rows), IsAxis(cols)
  PROVE  /\ IsFiniteSet(AllRequests)
         /\ Cardinality(AllRequests) = NumberTilesToLoad(rows, cols)
<1> DEFINE f == [t \in OverlappedTile |-> RequestOf(t)]
<1>1. ASSUME NEW a, IsAxis(a)
      PROVE  /\ IsFiniteSet(Overlapped(a))
             /\ Cardinality(Overlapped(a)) = IndexMaxTile(a) - IndexMinTile(a)
  <2>1. /\ IndexMinTile(a) \in Int /\ IndexMaxTile(a) \in Int
        /\ IndexMinTile(a) <= IndexMaxTile(a)
    BY <1>1, TilesHoldTheLines
  <2> QED BY <2>1, IntervalCount DEF Overlapped
<1>2. /\ IsFiniteSet(OverlappedTile)
      /\ Cardinality(OverlappedTile) = NumberTilesToLoad(rows, cols)
  BY <1>1, FS_Product DEF OverlappedTile, NumberTilesToLoad
<1>3. f \in Bijection(OverlappedTile, AllRequests)
  <2>1. f \in [OverlappedTile -> AllRequests]
    BY DEF AllRequests
  <2>2. \A s, t \in OverlappedTile : f[s] = f[t] => s = t
    BY RequestsApart
  <2>3. \A q \in AllRequests : \E t \in OverlappedTile : f[t] = q
    BY DEF AllRequests
  <2> QED BY <2>1, <2>2, <2>3, Fun_IsBij
<1>4. ExistsBijection(OverlappedTile, AllRequests)
  BY <1>3 DEF ExistsBijection
<1> QED BY <1>2, <1>4, FS_Bijection

LEMMA NoRadiusOneTile ==
  ASSUME IsAxis(rows), IsAxis(cols), rows.radius = 0, cols.radius = 0
  PROVE  NumberTilesToLoad(rows, cols) = 1
<1>1. ASSUME NEW a, IsAxis(a), a.radius = 0
      PROVE  IndexMaxTile(a) - IndexMinTile(a) = 1
  <2> DEFINE k == Ceil(a.radius, a.tile)
  <2>1. /\ a.index \in Nat /\ a.tile \in Nat \ {0} /\ a.radius \in Nat /\ a.image \in Nat \ {0}
        /\ a.index < NumberTiles(a)
    BY <1>1 DEF IsAxis
  <2>0. k \in Nat /\ k * a.tile < a.radius + a.tile
    BY <2>1, CeilBounds DEF Ceil
  <2> HIDE DEF k
  <2>2. k \in Nat /\ k * a.tile < a.tile
    BY <1>1, <2>0, <2>1
  <2>3. k = 0
    <3>1. CASE k >= 1
      <4>1. k * a.tile >= a.tile
        BY <2>1, <2>2, <3>1
      <4>2. k * a.tile \in Nat
        BY <2>1, <2>2
      <4> QED BY <2>1, <2>2, <4>1, <4>2
    <3> QED BY <2>2, <3>1
  <2>4. NumberTiles(a) \in Nat
    BY <2>1, CeilBounds DEF Ceil, NumberTiles
  <2>5. /\ IndexMinTile(a) = Most(a.index - k, 0)
        /\ IndexMaxTile(a) = Least(a.index + k + 1, NumberTiles(a))
    BY DEF IndexMinTile, IndexMaxTile, k
  <2> QED BY <2>1, <2>3, <2>4, <2>5 DEF Most, Least
<1> QED BY <1>1 DEF NumberTilesToLoad

-----------------------------------------------------------------------------
(* The invariant.                                                          *)

FinalInv == LoopInv /\ ViewShowsNearestPixels

LEMMA FinalInvInit == Init => FinalInv
<1> SUFFICES ASSUME Init PROVE FinalInv
  OBVIOUS
<1>1. IsAxis(rows) /\ IsAxis(cols)
  BY AxesOfRequest DEF Init
<1>2. /\ r = IndexMinTile(rows) /\ c = IndexMinTile(cols)
      /\ r \in Overlapped(rows) /\ c \in Overlapped(cols)
      /\ r \in IndexMinTile(rows)..IndexMaxTile(rows) /\ r < IndexMaxTile(rows)
  BY <1>1, TilesHoldTheLines DEF Init, Overlapped
<1>3. rowAlreadyFilled = DestOf(rows, r) /\ colAlreadyFilled = DestOf(cols, c)
  BY <1>1, <1>2, PartsFollow DEF Init
<1>4. SentTile = {}
  <2>1. ASSUME NEW t \in OverlappedTile PROVE ~(t[1] < r \/ (t[1] = r /\ t[2] < c))
    <3>1. t[1] \in Overlapped(rows) /\ t[2] \in Overlapped(cols)
      BY DEF OverlappedTile
    <3>2. t[1] \in Int /\ t[1] >= r /\ t[2] \in Int /\ t[2] >= c
      BY <1>1, <1>2, <3>1, TilesHoldTheLines DEF Overlapped
    <3>3. r \in Int /\ c \in Int
      BY <1>1, <1>2, TilesHoldTheLines
    <3> QED BY <3>2, <3>3
  <2> QED BY <2>1 DEF SentTile
<1>5. ~(r = IndexMaxTile(rows))
  BY <1>1, <1>2, TilesHoldTheLines
<1> QED BY <1>2, <1>3, <1>4, <1>5 DEF Init, FinalInv, LoopInv, ViewShowsNearestPixels

(* The view loader sends the request of the tile it is at.                 *)
LEMMA SendKeepsInv ==
  ASSUME FinalInv, SendTileRequest
  PROVE  FinalInv'
<1> DEFINE mR == IndexMinTile(rows)
           MR == IndexMaxTile(rows)
           mC == IndexMinTile(cols)
           MC == IndexMaxTile(cols)
<1>1. LoopInv /\ r < MR /\ ready = FALSE
  BY DEF FinalInv, LoopInv, SendTileRequest
<1>2. IsAxis(rows) /\ IsAxis(cols)
  BY <1>1, AxesOfRequest DEF LoopInv
<1>3. /\ mR \in Nat /\ MR \in Nat /\ mC \in Nat /\ MC \in Nat /\ mC < MC
  BY <1>2, TilesHoldTheLines
<1>4. /\ r \in Nat /\ mR <= r /\ c \in Nat /\ mC <= c /\ c < MC
      /\ r \in Overlapped(rows) /\ c \in Overlapped(cols)
  BY <1>1, <1>3 DEF LoopInv, Overlapped
<1>5. UNCHANGED <<rows, cols, copied, view, ready>>
  BY DEF SendTileRequest
<1>6. TileRequest = RequestOf(<<r, c>>)
  BY <1>1 DEF TileRequest, RequestOf, LoopInv
<1>7. asked' = asked \union {RequestOf(<<r, c>>)}
  BY <1>6 DEF SendTileRequest
<1>8. \A t \in OverlappedTile : /\ t[1] \in Nat /\ mR <= t[1] /\ t[1] < MR
                                /\ t[2] \in Nat /\ mC <= t[2] /\ t[2] < MC
                                /\ t = <<t[1], t[2]>>
  BY <1>3 DEF OverlappedTile, Overlapped
<1>9. <<r, c>> \in OverlappedTile
  BY <1>4 DEF OverlappedTile
<1>10. /\ r' \in mR..MR /\ c' \in Overlapped(cols)
       /\ r' = MR => c' = mC
       /\ r' < MR => rowAlreadyFilled' = DestOf(rows, r')
       /\ colAlreadyFilled' = DestOf(cols, c')
       /\ SentTile' = SentTile \union {<<r, c>>}
  <2>1. CASE /\ c + 1 < MC /\ c' = c + 1
             /\ colAlreadyFilled' = colAlreadyFilled + ToCopy(cols, c)
             /\ UNCHANGED <<r, rowAlreadyFilled>>
    <3>1. c + 1 \in Overlapped(cols)
      BY <1>3, <1>4, <2>1 DEF Overlapped
    <3>2. DestOf(cols, c + 1) = DestOf(cols, c) + ToCopy(cols, c)
      BY <1>2, <1>4, <3>1, PartsFollow
    <3>3. colAlreadyFilled = DestOf(cols, c) /\ rowAlreadyFilled = DestOf(rows, r)
      BY <1>1 DEF LoopInv
    <3>4. SentTile' = SentTile \union {<<r, c>>}
      <4>1. SentTile' = {t \in OverlappedTile : t[1] < r \/ (t[1] = r /\ t[2] < c + 1)}
        BY <1>5, <2>1 DEF SentTile, OverlappedTile
      <4>2. ASSUME NEW t \in OverlappedTile
            PROVE  (t[1] < r \/ (t[1] = r /\ t[2] < c + 1))
                     <=> ((t[1] < r \/ (t[1] = r /\ t[2] < c)) \/ t = <<r, c>>)
        <5>1. /\ t[1] \in Nat /\ t[2] \in Nat /\ t = <<t[1], t[2]>>
          BY <1>8
        <5>2. t = <<r, c>> <=> t[1] = r /\ t[2] = c
          BY <5>1
        <5>3. t[2] < c + 1 <=> t[2] < c \/ t[2] = c
          BY <1>4, <5>1
        <5> QED BY <5>2, <5>3
      <4> QED BY <1>9, <4>1, <4>2 DEF SentTile
    <3> QED BY <1>1, <1>3, <1>4, <2>1, <3>1, <3>2, <3>3, <3>4
  <2>2. CASE /\ c + 1 >= MC /\ r' = r + 1
             /\ rowAlreadyFilled' = rowAlreadyFilled + ToCopy(rows, r)
             /\ c' = mC /\ colAlreadyFilled' = FillBefore(cols)
    <3>1. mC \in Overlapped(cols)
      BY <1>3 DEF Overlapped
    <3>2. FillBefore(cols) = DestOf(cols, mC)
      BY <1>2, <3>1, PartsFollow
    <3>3. rowAlreadyFilled = DestOf(rows, r)
      BY <1>1 DEF LoopInv
    <3>4. ASSUME r + 1 < MR PROVE DestOf(rows, r + 1) = DestOf(rows, r) + ToCopy(rows, r)
      <4>1. r + 1 \in Overlapped(rows)
        BY <1>3, <1>4, <3>4 DEF Overlapped
      <4> QED BY <1>2, <1>4, <4>1, PartsFollow
    <3>5. SentTile' = SentTile \union {<<r, c>>}
      <4>1. SentTile' = {t \in OverlappedTile : t[1] < r + 1 \/ (t[1] = r + 1 /\ t[2] < mC)}
        BY <1>5, <2>2 DEF SentTile, OverlappedTile
      <4>2. ASSUME NEW t \in OverlappedTile
            PROVE  (t[1] < r + 1 \/ (t[1] = r + 1 /\ t[2] < mC))
                     <=> ((t[1] < r \/ (t[1] = r /\ t[2] < c)) \/ t = <<r, c>>)
        <5>1. /\ t[1] \in Nat /\ t[2] \in Nat /\ mC <= t[2] /\ t[2] < MC /\ t = <<t[1], t[2]>>
          BY <1>8
        <5>2. t = <<r, c>> <=> t[1] = r /\ t[2] = c
          BY <5>1
        <5>3. ~(t[2] < mC) /\ (t[2] < c \/ t[2] = c)
          BY <1>3, <1>4, <2>2, <5>1
        <5>4. t[1] < r + 1 <=> t[1] < r \/ t[1] = r
          BY <1>4, <5>1
        <5> QED BY <5>2, <5>3, <5>4
      <4> QED BY <1>9, <4>1, <4>2 DEF SentTile
    <3>6. r + 1 \in mR..MR
      BY <1>1, <1>3, <1>4
    <3> QED BY <2>2, <3>1, <3>2, <3>3, <3>4, <3>5, <3>6
  <2> QED BY <2>1, <2>2 DEF SendTileRequest
<1>11. (asked \union copied)' = {RequestOf(t) : t \in SentTile'}
  BY <1>1, <1>5, <1>7, <1>10 DEF LoopInv
<1>12. (asked \intersect copied)' = {}
  <2>1. RequestOf(<<r, c>>) \notin copied
    <3>1. SUFFICES ASSUME RequestOf(<<r, c>>) \in copied PROVE FALSE
      OBVIOUS
    <3>2. PICK t \in SentTile : RequestOf(<<r, c>>) = RequestOf(t)
      BY <1>1, <3>1 DEF LoopInv
    <3>3. t \in OverlappedTile /\ (t[1] < r \/ (t[1] = r /\ t[2] < c))
      BY DEF SentTile
    <3>4. t = <<r, c>>
      BY <1>2, <1>9, <3>2, <3>3, RequestsApart
    <3>5. t[1] = r /\ t[2] = c
      BY <3>4
    <3> QED BY <1>4, <3>3, <3>5
  <2> QED BY <1>1, <1>5, <1>7, <2>1 DEF LoopInv
<1>13. \A t : RequestOf(t)' = RequestOf(t)
  BY <1>5 DEF RequestOf
<1>14. LoopInv'
  BY <1>1, <1>5, <1>10, <1>11, <1>12, <1>13 DEF LoopInv, Overlapped, ViewPixel, Written, CopiedFrom
<1> QED BY <1>1, <1>5, <1>14 DEF FinalInv, ViewShowsNearestPixels

(* A tile loader copies a part: the others stay as they are.               *)
LEMMA CopyKeepsInv ==
  ASSUME FinalInv, NEW q \in asked, CopyTileToView(q)
  PROVE  FinalInv'
<1>1. LoopInv /\ ready = FALSE
  BY DEF FinalInv, LoopInv
<1>2. IsAxis(rows) /\ IsAxis(cols)
  BY <1>1, AxesOfRequest DEF LoopInv
<1>3. /\ UNCHANGED <<rows, cols, r, c, rowAlreadyFilled, colAlreadyFilled, ready>>
      /\ asked' = asked \ {q} /\ copied' = copied \union {q}
      /\ view' = [p \in DOMAIN view |-> IF p \in Written(q) THEN CopiedFrom(q, p) ELSE view[p]]
  BY DEF CopyTileToView
<1>4. PICK s \in OverlappedTile : q = RequestOf(s)
  BY <1>1 DEF LoopInv, SentTile
<1>5. ASSUME NEW o \in copied, NEW p \in Written(o)
      PROVE  p \in DOMAIN view /\ view'[p] = CopiedFrom(o, p)
  <2>1. PICK t \in OverlappedTile : o = RequestOf(t)
    BY <1>1 DEF LoopInv, SentTile
  <2>2. o # q
    BY <1>1 DEF LoopInv
  <2>3. p \notin Written(q) /\ p \in ViewPixel
    BY <1>2, <1>4, <2>1, <2>2, RequestsApart
  <2> QED BY <1>1, <1>3, <2>3 DEF LoopInv
<1>6. ASSUME NEW p \in Written(q) PROVE view'[p] = CopiedFrom(q, p)
  <2>1. p \in ViewPixel
    BY <1>2, <1>4, RequestsApart
  <2> QED BY <1>1, <1>3, <2>1 DEF LoopInv
<1>7. \A o, p : CopiedFrom(o, p)' = CopiedFrom(o, p) /\ Written(o)' = Written(o)
  BY <1>3 DEF CopiedFrom, Written
<1>8. (~ready => \A o \in copied : \A p \in Written(o) : view[p] = CopiedFrom(o, p))'
  BY <1>3, <1>5, <1>6, <1>7
<1>9. /\ (asked \union copied)' = asked \union copied
      /\ (asked \intersect copied)' = {}
      /\ SentTile' = SentTile /\ ViewPixel' = ViewPixel
      /\ \A t : RequestOf(t)' = RequestOf(t)
  BY <1>1, <1>3 DEF LoopInv, SentTile, OverlappedTile, ViewPixel, RequestOf
<1>10. LoopInv'
  BY <1>1, <1>3, <1>8, <1>9 DEF LoopInv
<1> QED BY <1>1, <1>3, <1>10 DEF FinalInv, ViewShowsNearestPixels

(* The view counter has counted all the requests.                          *)
LEMMA AllCopied ==
  ASSUME FinalInv, FinishView
  PROVE  copied = AllRequests /\ r = IndexMaxTile(rows) /\ asked = {}
<1>1. LoopInv /\ IsAxis(rows) /\ IsAxis(cols) /\ cols.radius = rows.radius
  BY AxesOfRequest DEF FinalInv, LoopInv
<1> DEFINE n == NumberTilesToLoad(rows, cols)
<1>2. /\ IsFiniteSet(AllRequests) /\ Cardinality(AllRequests) = n
      /\ copied \subseteq AllRequests /\ asked \subseteq AllRequests
  BY <1>1, RequestCount DEF LoopInv, AllRequests, SentTile
<1>3. /\ IsFiniteSet(copied) /\ Cardinality(copied) <= n
      /\ Cardinality(copied) = n => copied = AllRequests
  BY <1>2, FS_Subset
<1>4. copied = AllRequests
  <2>1. CASE Cardinality(copied) = n
    BY <1>3, <2>1
  <2>2. CASE (n = 1 \/ rows.radius = 0) /\ copied # {}
    <3>1. n = 1
      BY <1>1, <2>2, NoRadiusOneTile
    <3>2. Cardinality(copied) \in Nat /\ Cardinality(copied) # 0
      BY <1>3, <2>2, FS_CardinalityType, FS_EmptySet
    <3> QED BY <1>3, <3>1, <3>2
  <2> QED BY <2>1, <2>2 DEF FinishView
<1>5. asked = {}
  BY <1>1, <1>2, <1>4 DEF LoopInv
<1>6. r = IndexMaxTile(rows)
  <2> DEFINE t == <<IndexMaxTile(rows) - 1, IndexMaxTile(cols) - 1>>
  <2>1. /\ IndexMaxTile(rows) \in Nat /\ IndexMaxTile(cols) \in Nat
        /\ IndexMinTile(rows) \in Nat /\ IndexMinTile(cols) \in Nat
        /\ IndexMinTile(rows) < IndexMaxTile(rows) /\ IndexMinTile(cols) < IndexMaxTile(cols)
    BY <1>1, TilesHoldTheLines
  <2>2. t \in OverlappedTile
    BY <2>1 DEF OverlappedTile, Overlapped
  <2>3. RequestOf(t) \in copied
    BY <1>4, <2>2 DEF AllRequests
  <2>4. PICK s \in SentTile : RequestOf(t) = RequestOf(s)
    BY <1>1, <2>3 DEF LoopInv
  <2>5. s = t
    BY <1>1, <2>2, <2>4, RequestsApart DEF SentTile
  <2>6. t[1] < r \/ (t[1] = r /\ t[2] < c)
    BY <2>4, <2>5 DEF SentTile
  <2>7. /\ r \in IndexMinTile(rows)..IndexMaxTile(rows)
        /\ c \in IndexMinTile(cols)..IndexMaxTile(cols) - 1
    BY <1>1 DEF LoopInv, Overlapped
  <2> QED BY <2>1, <2>6, <2>7
<1> QED BY <1>4, <1>5, <1>6

LEMMA FinishKeepsInv ==
  ASSUME FinalInv, FinishView
  PROVE  FinalInv'
<1>1. /\ LoopInv /\ IsAxis(rows) /\ IsAxis(cols) /\ cols.radius = rows.radius
      /\ DOMAIN view = ViewPixel /\ ready = FALSE
  BY AxesOfRequest DEF FinalInv, LoopInv, FinishView
<1>2. /\ UNCHANGED <<rows, cols, r, c, rowAlreadyFilled, colAlreadyFilled, asked, copied>>
      /\ view' = Fill(view) /\ ready' = TRUE
  BY DEF FinishView
<1> DEFINE R1 == FirstRow
           R2 == LastRow
           C1 == FirstCol
           C2 == LastCol
           HR == ViewSize(rows)
           HC == ViewSize(cols)
           N(i, j) == <<Nearest(rows, i), Nearest(cols, j)>>
<1>3. /\ HR \in Nat /\ R1 \in Nat /\ R2 \in Nat /\ R1 <= R2 /\ R2 < HR
      /\ HC \in Nat /\ C1 \in Nat /\ C2 \in Nat /\ C1 <= C2 /\ C2 < HC
      /\ \A i \in 0..R1 - 1 : Nearest(rows, i) = Nearest(rows, R1)
      /\ \A i \in R2 + 1..HR - 1 : Nearest(rows, i) = Nearest(rows, R2)
      /\ \A j \in 0..C1 - 1 : Nearest(cols, j) = Nearest(cols, C1)
      /\ \A j \in C2 + 1..HC - 1 : Nearest(cols, j) = Nearest(cols, C2)
  BY <1>1, NearestOnAxis DEF FirstRow, LastRow, FirstCol, LastCol
<1>4. \A i \in R1..R2, j \in C1..C2 : view[<<i, j>>] = N(i, j)
  <2> TAKE i \in R1..R2, j \in C1..C2
  <2>1. PICK s \in Overlapped(rows) : i \in DestOf(rows, s)..DestOf(rows, s) + ToCopy(rows, s) - 1
    BY <1>1, NearestOnAxis DEF FirstRow, LastRow
  <2>2. PICK t \in Overlapped(cols) : j \in DestOf(cols, t)..DestOf(cols, t) + ToCopy(cols, t) - 1
    BY <1>1, NearestOnAxis DEF FirstCol, LastCol
  <2>3. /\ Nearest(rows, i) = MinCentralTile(rows) - rows.radius + i
        /\ Nearest(cols, j) = MinCentralTile(cols) - cols.radius + j
    BY <1>1, NearestOnAxis DEF FirstRow, LastRow, FirstCol, LastCol
  <2> DEFINE q == RequestOf(<<s, t>>)
  <2>4. /\ q.row = s /\ q.col = t
        /\ q.rowFrom = From(rows, s) /\ q.colFrom = From(cols, t)
        /\ q.rowDest = DestOf(rows, s) /\ q.colDest = DestOf(cols, t)
        /\ q.height = ToCopy(rows, s) /\ q.width = ToCopy(cols, t)
    BY DEF RequestOf
  <2>5. q \in copied
    BY AllCopied DEF AllRequests, OverlappedTile
  <2> HIDE DEF q
  <2>6. <<i, j>> \in Written(q)
    BY <2>1, <2>2, <2>4 DEF Written
  <2>7. view[<<i, j>>] = CopiedFrom(q, <<i, j>>)
    BY <1>1, <2>5, <2>6 DEF LoopInv
  <2>8. CopiedFrom(q, <<i, j>>) = <<s * rows.tile + From(rows, s) + i - DestOf(rows, s),
                                    t * cols.tile + From(cols, t) + j - DestOf(cols, t)>>
    BY <2>4 DEF CopiedFrom
  <2>9. ASSUME NEW a, IsAxis(a), NEW k \in Overlapped(a), NEW x \in Int
        PROVE  k * a.tile + From(a, k) + x - DestOf(a, k) = MinCentralTile(a) - a.radius + x
    <3>1. /\ k \in Nat /\ From(a, k) \in Nat /\ a.tile \in Nat /\ a.radius \in Nat
          /\ MinCentralTile(a) \in Nat
      BY <2>9, PartsFollow, TilesHoldTheLines
    <3>2. k * a.tile \in Nat
      BY <3>1
    <3>3. DestOf(a, k) = k * a.tile + From(a, k) - MinCentralTile(a) + a.radius
      BY DEF DestOf
    <3> QED BY <3>1, <3>2, <3>3
  <2>10. i \in Int /\ j \in Int
    BY <1>3
  <2> QED BY <1>1, <2>3, <2>7, <2>8, <2>9, <2>10
<1>5. ASSUME NEW p \in ViewPixel PROVE view'[p] = N(p[1], p[2])
  <2> DEFINE v1 == FillSides(view)
             v2 == FillTop(v1)
  <2>1. /\ p = <<p[1], p[2]>> /\ p[1] \in 0..HR - 1 /\ p[2] \in 0..HC - 1
    BY DEF ViewPixel
  <2>2. \A i \in 0..HR - 1, j \in 0..HC - 1 : <<i, j>> \in ViewPixel
    BY DEF ViewPixel
  <2>3. DOMAIN v1 = ViewPixel /\ DOMAIN v2 = ViewPixel
    BY <1>1 DEF FillSides, FillTop
  <2> HIDE DEF HR, HC
  <2>4. \A i \in R1..R2, j \in 0..HC - 1 : v1[<<i, j>>] = N(i, j)
    <3> TAKE i \in R1..R2, j \in 0..HC - 1
    <3>1. <<i, j>> \in ViewPixel
      BY <1>3, <2>2
    <3>2. v1[<<i, j>>] = IF j < C1 THEN view[<<i, C1>>]
                         ELSE IF j > C2 THEN view[<<i, C2>>] ELSE view[<<i, j>>]
      BY <1>1, <3>1 DEF FillSides
    <3> HIDE DEF R1, R2, C1, C2, v1
    <3>3. C1 \in C1..C2 /\ C2 \in C1..C2
      BY <1>3
    <3>4. CASE j < C1
      BY <1>3, <1>4, <3>2, <3>3, <3>4
    <3>5. CASE j > C2
      <4>1. ~(j < C1) /\ j \in C2 + 1..HC - 1
        BY <1>3, <3>5
      <4> QED BY <1>3, <1>4, <3>2, <3>3, <3>5, <4>1
    <3>6. CASE ~(j < C1) /\ ~(j > C2)
      <4>1. j \in C1..C2
        BY <1>3, <3>6
      <4> QED BY <1>4, <3>2, <3>6, <4>1
    <3> QED BY <3>4, <3>5, <3>6
  <2>5. \A i \in 0..R2, j \in 0..HC - 1 : v2[<<i, j>>] = N(i, j)
    <3> TAKE i \in 0..R2, j \in 0..HC - 1
    <3>1. <<i, j>> \in ViewPixel
      BY <1>3, <2>2
    <3>2. v2[<<i, j>>] = IF i >= R1 THEN v1[<<i, j>>]
                         ELSE IF j < C1 THEN v1[<<R1, C1>>]
                         ELSE IF j > C2 THEN v1[<<R1, C2>>] ELSE v1[<<R1, j>>]
      <4> HIDE DEF v1
      <4> QED BY <2>3, <3>1 DEF FillTop
    <3> HIDE DEF R1, R2, C1, C2, v1, v2
    <3>3. R1 \in R1..R2 /\ C1 \in 0..HC - 1 /\ C2 \in 0..HC - 1
      BY <1>3
    <3>4. CASE i >= R1
      <4>1. i \in R1..R2
        BY <1>3, <3>4
      <4> QED BY <2>4, <3>2, <3>4, <4>1
    <3>5. CASE ~(i >= R1)
      <4>1. Nearest(rows, i) = Nearest(rows, R1)
        BY <1>3, <3>5
      <4>2. CASE j < C1
        BY <1>3, <2>4, <3>2, <3>3, <3>5, <4>1, <4>2
      <4>3. CASE j > C2
        <5>1. ~(j < C1) /\ j \in C2 + 1..HC - 1
          BY <1>3, <4>3
        <5> QED BY <1>3, <2>4, <3>2, <3>3, <3>5, <4>1, <4>3, <5>1
      <4>4. CASE ~(j < C1) /\ ~(j > C2)
        BY <2>4, <3>2, <3>3, <3>5, <4>1, <4>4
      <4> QED BY <4>2, <4>3, <4>4
    <3> QED BY <3>4, <3>5
  <2>6. view'[p] = IF p[1] <= R2 THEN v2[p]
                   ELSE IF p[2] < C1 THEN v2[<<R2, C1>>]
                   ELSE IF p[2] > C2 THEN v2[<<R2, C2>>] ELSE v2[<<R2, p[2]>>]
    <3> HIDE DEF v2
    <3> QED BY <1>2, <2>3 DEF FillBottom, Fill, v2
  <2> HIDE DEF R1, R2, C1, C2, v1, v2
  <2>7. R2 \in 0..R2 /\ C1 \in 0..HC - 1 /\ C2 \in 0..HC - 1
    BY <1>3
  <2>8. CASE p[1] <= R2
    <3>1. p[1] \in 0..R2
      BY <1>3, <2>1, <2>8
    <3>2. v2[<<p[1], p[2]>>] = N(p[1], p[2])
      BY <2>1, <2>5, <3>1
    <3> QED BY <2>1, <2>6, <2>8, <3>2
  <2>9. CASE ~(p[1] <= R2)
    <3>1. Nearest(rows, p[1]) = Nearest(rows, R2)
      BY <1>3, <2>1, <2>9
    <3>2. CASE p[2] < C1
      BY <1>3, <2>1, <2>5, <2>6, <2>7, <2>9, <3>1, <3>2
    <3>3. CASE p[2] > C2
      <4>1. ~(p[2] < C1) /\ p[2] \in C2 + 1..HC - 1
        BY <1>3, <2>1, <3>3
      <4> QED BY <1>3, <2>5, <2>6, <2>7, <2>9, <3>1, <3>3, <4>1
    <3>4. CASE ~(p[2] < C1) /\ ~(p[2] > C2)
      BY <2>1, <2>5, <2>6, <2>7, <2>9, <3>1, <3>4
    <3> QED BY <3>2, <3>3, <3>4
  <2> QED BY <2>8, <2>9
<1>6. ViewPixel' = ViewPixel /\ DOMAIN view' = ViewPixel
  <2>1. DOMAIN Fill(view) = DOMAIN view
    BY DEF Fill, FillBottom, FillTop, FillSides
  <2> QED BY <1>1, <1>2, <2>1 DEF ViewPixel
<1>7. ViewShowsNearestPixels'
  BY <1>2, <1>5, <1>6 DEF ViewShowsNearestPixels
<1>8. /\ SentTile' = SentTile /\ Overlapped(cols)' = Overlapped(cols)
      /\ \A t : RequestOf(t)' = RequestOf(t)
  BY <1>2 DEF SentTile, OverlappedTile, RequestOf, Overlapped
<1>9. LoopInv'
  BY <1>1, <1>2, <1>6, <1>8, AllCopied DEF LoopInv
<1> QED BY <1>7, <1>9 DEF FinalInv

LEMMA FinalInvNext == FinalInv /\ [Next]_vars => FinalInv'
<1> SUFFICES ASSUME FinalInv, [Next]_vars PROVE FinalInv'
  OBVIOUS
<1>1. CASE UNCHANGED vars
  <2>1. UNCHANGED <<rows, cols, r, c, rowAlreadyFilled, colAlreadyFilled, asked, copied, view, ready>>
    BY <1>1 DEF vars
  <2> QED BY <2>1 DEF FinalInv, LoopInv, ViewShowsNearestPixels, Overlapped, SentTile,
                      OverlappedTile, RequestOf, ViewPixel, Written, CopiedFrom
<1>2. CASE Done
  BY <1>1, <1>2 DEF Done
<1> QED BY <1>1, <1>2, SendKeepsInv, CopyKeepsInv, FinishKeepsInv DEF Next

-----------------------------------------------------------------------------
(* The theorems.                                                           *)

LEMMA Final == Spec => []FinalInv
BY FinalInvInit, FinalInvNext, PTL DEF Spec

(* The loops' positions, the requests sent and the pixels copied agree at  *)
(* every step.                                                             *)
THEOREM LoopInvariance == Spec => []LoopInv
<1>1. FinalInv => LoopInv
  BY DEF FinalInv
<1> QED BY <1>1, Final, PTL

(* No request reads outside a tile or the image, or writes outside a view, *)
(* and each puts its part where the radius wants it.                       *)
THEOREM InPlaceRequests == Spec => []RequestsAreInPlace
<1>1. FinalInv => RequestsAreInPlace
  <2> SUFFICES ASSUME FinalInv, NEW q \in asked \union copied
               PROVE  /\ InPlace(rows, q.row, q.rowFrom, q.rowDest, q.height)
                      /\ InPlace(cols, q.col, q.colFrom, q.colDest, q.width)
    BY DEF RequestsAreInPlace
  <2>1. IsAxis(rows) /\ IsAxis(cols)
    BY AxesOfRequest DEF FinalInv, LoopInv
  <2>2. PICK t \in OverlappedTile : q = RequestOf(t)
    BY DEF FinalInv, LoopInv, SentTile
  <2>3. t[1] \in Overlapped(rows) /\ t[2] \in Overlapped(cols)
    BY DEF OverlappedTile
  <2> QED BY <2>1, <2>2, <2>3, PartsFollow DEF RequestOf
<1> QED BY <1>1, Final, PTL

(* The tile loaders may write into a view at the same time.                *)
THEOREM ApartCopies == Spec => []CopiesAreApart
<1>1. FinalInv => CopiesAreApart
  <2> SUFFICES ASSUME FinalInv, NEW q1 \in asked \union copied, NEW q2 \in asked \union copied,
                      q1 # q2
               PROVE  Written(q1) \intersect Written(q2) = {}
    BY DEF CopiesAreApart
  <2>1. IsAxis(rows) /\ IsAxis(cols)
    BY AxesOfRequest DEF FinalInv, LoopInv
  <2>2. PICK s \in OverlappedTile : q1 = RequestOf(s)
    BY DEF FinalInv, LoopInv, SentTile
  <2>3. PICK t \in OverlappedTile : q2 = RequestOf(t)
    BY DEF FinalInv, LoopInv, SentTile
  <2> QED BY <2>1, <2>2, <2>3, RequestsApart
<1> QED BY <1>1, Final, PTL

(* A finished view shows in each pixel the nearest one of the image, for   *)
(* images, tiles and radiuses of any size.                                 *)
THEOREM NearestPixels == Spec => []ViewShowsNearestPixels
<1>1. FinalInv => ViewShowsNearestPixels
  BY DEF FinalInv
<1> QED BY <1>1, Final, PTL

(* The coordinates that a finished view reports are right for images,      *)
(* tiles and radiuses of any size.                                         *)
THEOREM RightCoordinates == Spec => []LocalCoordinates
<1>1. FinalInv => LocalCoordinates
  <2> SUFFICES ASSUME FinalInv, ready
               PROVE  /\ \A i \in Local(rows), j \in Local(cols) :
                           GetPixel(i, j) = <<MinCentralTile(rows) + i, MinCentralTile(cols) + j>>
                      /\ 0..MaxCenterTileLocal(rows) - 1 \subseteq Local(rows)
                      /\ 0..MaxCenterTileLocal(cols) - 1 \subseteq Local(cols)
    BY DEF LocalCoordinates
  <2>1. IsAxis(rows) /\ IsAxis(cols)
    BY AxesOfRequest DEF FinalInv, LoopInv
  <2>2. \A p \in ViewPixel : view[p] = <<Nearest(rows, p[1]), Nearest(cols, p[2])>>
    BY DEF FinalInv, ViewShowsNearestPixels
  <2>3. ASSUME NEW i \in Local(rows), NEW j \in Local(cols)
        PROVE  GetPixel(i, j) = <<MinCentralTile(rows) + i, MinCentralTile(cols) + j>>
    <3>1. <<i + rows.radius, j + cols.radius>> \in ViewPixel
      BY <2>1, LocalOnAxis DEF ViewPixel
    <3>2. GetPixel(i, j) = <<Nearest(rows, i + rows.radius), Nearest(cols, j + cols.radius)>>
      BY <2>2, <3>1 DEF GetPixel
    <3> QED BY <2>1, <3>2, LocalOnAxis
  <2> QED BY <2>1, <2>3, LocalOnAxis
<1> QED BY <1>1, Final, PTL
=============================================================================
