------------------------- MODULE SelectRandomProofs -------------------------
(***************************************************************************)
(* The draw, for any list of active sockets and any winnersCount: whatever *)
(* Math.random() returns, the winners are different active sockets, as     *)
(* many as are wanted and there are; and every set of that many sockets is *)
(* drawn by the same number of values of Math.random().                    *)
(*                                                                         *)
(* The loop is followed by induction over its passes: were there a number  *)
(* of passes for which a claim fails, there would be a least one.          *)
(***************************************************************************)
EXTENDS SelectRandom, FiniteSetTheorems, FunctionTheorems, WellFoundedInduction, TLAPS

Less == OpToRel(<, Nat)

\* What a claim about the naturals up to m has to satisfy to hold of m.
LEMMA UpTo ==
  ASSUME NEW m \in Nat, NEW True \in SUBSET (0..m), 0 \in True,
         \A n \in 1..m : n - 1 \in True => n \in True
  PROVE  True = 0..m
<1> DEFINE False == {n \in 0..m : n \notin True}
<1>1. SUFFICES ASSUME False # {} PROVE FALSE
  OBVIOUS
<1>2. IsWellFoundedOn(Less, Nat)
  BY NatLessThanWellFounded, Zenon DEF Less
<1>3. False \in SUBSET Nat
  OBVIOUS
<1>4. PICK x \in False : \A y \in False : ~ (<<y, x>> \in Less)
  BY <1>1, <1>2, <1>3, WFMin
<1>5. x \in 1..m /\ x \notin True
  OBVIOUS
<1>6. x - 1 \in 0..m /\ x - 1 \in Nat /\ x \in Nat /\ x - 1 < x
  BY <1>5
<1>7. <<x - 1, x>> \in Less
  BY <1>6, Zenon DEF Less, OpToRel
<1>8. x - 1 \in True
  BY <1>4, <1>6, <1>7
<1> QED  BY <1>5, <1>8
-----------------------------------------------------------------------------
\* f[n] is the array after n passes of the loop.
Passes(f, m, array, r) ==
  f = [n \in 0..m |->
        IF n = 0 THEN array
        ELSE LET i == Len(array) + 1 - n IN Swapped(f[n - 1], i, r[i])]

LEMMA PassesExist ==
  ASSUME NEW m \in Nat, NEW array, NEW r
  PROVE  \E f : Passes(f, m, array, r)
<1> DEFINE Pass(f, n) ==
             LET i == Len(array) + 1 - n IN Swapped(f[n - 1], i, r[i])
           Found == {k \in 0..m : \E f : Passes(f, k, array, r)}
<1>1. 0 \in Found
  <2>1. Passes([n \in 0..0 |-> array], 0, array, r)
    BY DEF Passes
  <2> QED  BY <2>1
<1>2. ASSUME NEW k \in 1..m, k - 1 \in Found PROVE k \in Found
  <2>1. PICK g : Passes(g, k - 1, array, r)
    BY <1>2
  <2> DEFINE f == [n \in 0..k |-> IF n = k THEN Pass(g, n) ELSE g[n]]
  <2>2. \A n \in 0..k - 1 : g[n] = IF n = 0 THEN array ELSE Pass(g, n)
    BY <2>1 DEF Passes
  <2>3. \A n \in 1..k : f[n - 1] = g[n - 1]
    OBVIOUS
  <2>4. \A n \in 0..k : f[n] = IF n = 0 THEN array ELSE Pass(f, n)
    BY <2>2, <2>3
  <2>5. f = [n \in 0..k |-> IF n = 0 THEN array ELSE Pass(f, n)]
    BY <2>4
  <2> HIDE DEF f
  <2>6. Passes(f, k, array, r)
    BY <2>5 DEF Passes
  <2> QED  BY <2>6
<1> HIDE DEF Found
<1>3. Found = 0..m
  BY <1>1, <1>2, UpTo DEF Found
<1> QED  BY <1>3 DEF Found

\* A list of n different elements of S.
Different(a, n, S) == a \in [1..n -> S] /\ IsInjective(a)

LEMMA SwapKeepsDifferent ==
  ASSUME NEW n \in Nat, NEW S, NEW a, Different(a, n, S),
         NEW i \in 1..n, NEW j \in 1..n
  PROVE  Different(Swapped(a, i, j), n, S)
<1> DEFINE b == Swapped(a, i, j)
<1>1. a \in [1..n -> S] /\ \A x, y \in 1..n : a[x] = a[y] => x = y
  BY DEF Different, IsInjective
<1>2. /\ b \in [1..n -> S]
      /\ \A x \in 1..n : b[x] = IF x = j THEN a[i] ELSE IF x = i THEN a[j] ELSE a[x]
  BY <1>1 DEF Swapped
<1> HIDE DEF b
<1>3. \A x, y \in 1..n : b[x] = b[y] => x = y
  BY <1>1, <1>2
<1> QED  BY <1>2, <1>3 DEF Different, IsInjective, b

LEMMA ShuffledIsLastPass ==
  ASSUME NEW n \in Nat \ {0}, NEW array, NEW r, Len(array) = n,
         NEW f, Passes(f, n - 1, array, r)
  PROVE  Shuffled(array, r) = f[n - 1]
<1> DEFINE g == CHOOSE h : Passes(h, n - 1, array, r)
<1>1. Shuffled(array, r) = g[n - 1]
  BY DEF Shuffled, Passes
<1>2. Passes(g, n - 1, array, r)
  OBVIOUS
<1> HIDE DEF g
<1> DEFINE Pass(h, k) ==
             LET i == Len(array) + 1 - k IN Swapped(h[k - 1], i, r[i])
           Same == {k \in 0..n - 1 : f[k] = g[k]}
<1>3. \A k \in 0..n - 1 : /\ f[k] = IF k = 0 THEN array ELSE Pass(f, k)
                          /\ g[k] = IF k = 0 THEN array ELSE Pass(g, k)
  BY <1>2 DEF Passes
<1>4. 0 \in Same
  BY <1>3
<1>5. ASSUME NEW k \in 1..n - 1, k - 1 \in Same PROVE k \in Same
  BY <1>3, <1>5
<1>6. n - 1 \in Nat /\ Same \in SUBSET (0..n - 1)
  OBVIOUS
<1> HIDE DEF Same
<1>7. Same = 0..n - 1
  BY <1>4, <1>5, <1>6, UpTo
<1> QED  BY <1>1, <1>7 DEF Same

\* f[k] is the array after the passes for the last k positions.
IsRun(f, n, array, r) ==
  /\ f[0] = array
  /\ \A k \in 1..n - 1 : f[k] = Swapped(f[k - 1], n + 1 - k, r[n + 1 - k])

LEMMA RunKeepsDifferent ==
  ASSUME NEW n \in Nat \ {0}, NEW S, NEW array, Different(array, n, S),
         NEW r \in Random(array)
  PROVE  \E f : /\ IsRun(f, n, array, r)
                /\ \A k \in 0..n - 1 : Different(f[k], n, S)
                /\ Shuffled(array, r) = f[n - 1]
<1>1. Len(array) = n /\ DOMAIN array = 1..n
  BY DEF Different
<1>2. \A i \in 2..n : r[i] \in 1..n
  BY <1>1 DEF Random, Positions
<1>3. PICK f : Passes(f, n - 1, array, r)
  BY PassesExist
<1>4. Shuffled(array, r) = f[n - 1]
  BY <1>1, <1>3, ShuffledIsLastPass
<1>5. IsRun(f, n, array, r)
  BY <1>1, <1>3 DEF Passes, IsRun
<1> DEFINE True == {k \in 0..n - 1 : Different(f[k], n, S)}
<1>6. 0 \in True
  BY <1>5 DEF IsRun
<1>7. ASSUME NEW k \in 1..n - 1, k - 1 \in True PROVE k \in True
  <2> DEFINE i == n + 1 - k
  <2>1. i \in 1..n /\ r[i] \in 1..n
    BY <1>2
  <2>2. f[k] = Swapped(f[k - 1], i, r[i])
    BY <1>5 DEF IsRun
  <2> HIDE DEF i
  <2>3. Different(f[k - 1], n, S)
    BY <1>7
  <2>4. Different(f[k], n, S)
    BY <2>1, <2>2, <2>3, SwapKeepsDifferent
  <2> QED  BY <2>4
<1>8. n - 1 \in Nat /\ True \in SUBSET (0..n - 1)
  OBVIOUS
<1> HIDE DEF True
<1>9. True = 0..n - 1
  BY <1>6, <1>7, <1>8, UpTo
<1> QED  BY <1>4, <1>5, <1>9 DEF True

LEMMA ShuffledIsDifferent ==
  ASSUME NEW n \in Nat \ {0}, NEW S, NEW array, Different(array, n, S),
         NEW r \in Random(array)
  PROVE  Different(Shuffled(array, r), n, S)
<1>1. n - 1 \in 0..n - 1
  OBVIOUS
<1> QED  BY <1>1, RunKeepsDifferent

LEMMA LeastOfTwo ==
  ASSUME NEW a \in Nat, NEW b \in Nat
  PROVE  Min({a, b}) = IF a <= b THEN a ELSE b
<1> DEFINE m == IF a <= b THEN a ELSE b
<1>1. m \in {a, b} /\ \A y \in {a, b} : m <= y
  OBVIOUS
<1>2. \A x \in {a, b} : (\A y \in {a, b} : x <= y) => x = m
  OBVIOUS
<1> QED  BY <1>1, <1>2 DEF Min

\* The winners are as many different active sockets as are wanted and there
\* are, whatever the random numbers.
THEOREM WinnersDiffer == Spec => []WinnersAreDifferent
<1> DEFINE Drawn == active \in Lists /\ winnersCount \in WinnersCounts
<1>1. Init => Drawn /\ WinnersAreDifferent
  BY DEF Init, WinnersAreDifferent
<1>2. ASSUME Drawn, WinnersAreDifferent, [Next]_vars PROVE Drawn' /\ WinnersAreDifferent'
  <2>1. CASE UNCHANGED vars
    BY <1>2, <2>1 DEF vars, WinnersAreDifferent
  <2>2. CASE SelectWinners
    <3>1. PICK n \in 1..Cardinality(Sockets) : active \in Injection(1..n, Sockets)
      BY <1>2 DEF Lists
    <3>2. n \in Nat \ {0}
      OBVIOUS
    <3> DEFINE S == ToSet(active)
               k == Wanted(active, winnersCount)
    <3>3. Len(active) = n /\ Different(active, n, S)
      BY <3>1, <3>2 DEF Injection, Different, ToSet
    <3>4. k \in 0..n
      BY <1>2, <3>2, <3>3, CountAssumption, LeastOfTwo DEF Wanted
    <3>5. PICK r \in Random(active) : winners' = SubSeq(Shuffled(active, r), 1, k)
      BY <2>2 DEF SelectWinners, Selected
    <3> DEFINE shuffled == Shuffled(active, r)
    <3>6. Different(shuffled, n, S)
      BY <3>2, <3>3, ShuffledIsDifferent
    <3> HIDE DEF S, k, shuffled
    <3>7. /\ winners' \in [1..k -> S] /\ Len(winners') = k
          /\ \A i \in 1..k : winners'[i] = shuffled[i]
      <4>1. /\ shuffled \in Seq(S) /\ Len(shuffled) = n
            /\ \A i \in 1..n : shuffled[i] \in S
        BY <3>2, <3>6 DEF Different
      <4>2. winners' = SubSeq(shuffled, 1, k)
        BY <3>5 DEF shuffled
      <4>3. winners' = [i \in 1..k |-> shuffled[i]]
        BY <3>2, <3>4, <4>1, <4>2
      <4> QED  BY <3>2, <3>4, <4>1, <4>3
    <3>8. IsInjective(winners') /\ ToSet(winners') \subseteq S
      BY <3>2, <3>4, <3>6, <3>7 DEF Different, IsInjective, ToSet
    <3> QED  BY <1>2, <2>2, <3>7, <3>8 DEF SelectWinners, WinnersAreDifferent, Wanted, S, k
  <2> QED  BY <1>2, <2>1, <2>2 DEF Next
<1> QED  BY <1>1, <1>2, PTL DEF Spec
-----------------------------------------------------------------------------
\* The arrays a and b agree from position i on.
AgreeFrom(a, b, i, n) == \A x \in i..n : a[x] = b[x]

LEMMA SwapOf ==
  ASSUME NEW n \in Nat, NEW S, NEW a, Different(a, n, S),
         NEW i \in 1..n, NEW j \in 1..i
  PROVE  /\ Swapped(a, i, j)[i] = a[j]
         /\ \A x \in i + 1..n : Swapped(a, i, j)[x] = a[x]
<1>1. DOMAIN a = 1..n
  BY DEF Different
<1>2. \A x \in 1..n : Swapped(a, i, j)[x] =
                        IF x = j THEN a[i] ELSE IF x = i THEN a[j] ELSE a[x]
  BY <1>1 DEF Swapped
<1> QED  BY <1>2

\* Different random values shuffle differently: what ends at a position is
\* moved there by the pass for it, and is never touched again.
LEMMA ShufflesDiffer ==
  ASSUME NEW n \in Nat \ {0}, NEW S, NEW array, Different(array, n, S),
         NEW r \in Random(array), NEW q \in Random(array),
         Shuffled(array, r) = Shuffled(array, q)
  PROVE  r = q
<1>1. PICK f : /\ IsRun(f, n, array, r)
               /\ \A k \in 0..n - 1 : Different(f[k], n, S)
               /\ Shuffled(array, r) = f[n - 1]
  BY RunKeepsDifferent
<1>2. PICK g : /\ IsRun(g, n, array, q)
               /\ \A k \in 0..n - 1 : Different(g[k], n, S)
               /\ Shuffled(array, q) = g[n - 1]
  BY RunKeepsDifferent
<1>3. /\ r \in [2..n -> 1..n] /\ \A i \in 2..n : r[i] \in 1..i
      /\ q \in [2..n -> 1..n] /\ \A i \in 2..n : q[i] \in 1..i
  BY DEF Different, Random, Positions, Partners
<1> DEFINE Told(k) == AgreeFrom(f[k], g[k], n + 1 - k, n) =>
                        /\ f[k] = g[k]
                        /\ \A i \in n + 1 - k..n : r[i] = q[i]
           True == {k \in 0..n - 1 : Told(k)}
<1>4. 0 \in True
  BY <1>1, <1>2 DEF IsRun
<1>5. ASSUME NEW k \in 1..n - 1, k - 1 \in True PROVE k \in True
  <2> DEFINE i == n + 1 - k
  <2>1. i \in 2..n /\ i \in 1..n /\ i + 1 = n + 1 - (k - 1) /\ k - 1 \in 0..n - 1
    OBVIOUS
  <2>2. SUFFICES ASSUME AgreeFrom(f[k], g[k], i, n)
                 PROVE  f[k] = g[k] /\ \A x \in i..n : r[x] = q[x]
    OBVIOUS
  <2>3. f[k] = Swapped(f[k - 1], i, r[i]) /\ g[k] = Swapped(g[k - 1], i, q[i])
    BY <1>1, <1>2 DEF IsRun
  <2>4. Told(k - 1) /\ Different(f[k - 1], n, S) /\ Different(g[k - 1], n, S)
    BY <1>1, <1>2, <1>5, <2>1
  <2> HIDE DEF i, True
  <2>5. r[i] \in 1..i /\ q[i] \in 1..i
    BY <1>3, <2>1
  <2>6. /\ f[k][i] = f[k - 1][r[i]] /\ g[k][i] = g[k - 1][q[i]]
        /\ \A x \in i + 1..n : f[k][x] = f[k - 1][x] /\ g[k][x] = g[k - 1][x]
    BY <2>1, <2>3, <2>4, <2>5, SwapOf
  <2>7. AgreeFrom(f[k - 1], g[k - 1], i + 1, n)
    BY <2>1, <2>2, <2>6 DEF AgreeFrom
  <2>8. f[k - 1] = g[k - 1] /\ \A x \in i + 1..n : r[x] = q[x]
    BY <2>1, <2>4, <2>7
  <2>9. f[k - 1][r[i]] = f[k - 1][q[i]]
    BY <2>1, <2>2, <2>6, <2>8 DEF AgreeFrom
  <2>10. r[i] = q[i]
    BY <2>1, <2>4, <2>5, <2>9 DEF Different, IsInjective
  <2> QED  BY <2>1, <2>3, <2>8, <2>10
<1>6. n - 1 \in Nat /\ True \in SUBSET (0..n - 1)
  OBVIOUS
<1> HIDE DEF True
<1>7. True = 0..n - 1
  BY <1>4, <1>5, <1>6, UpTo
<1>8. Told(n - 1)
  BY <1>7 DEF True
<1>9. \A i \in 2..n : r[i] = q[i]
  <2>1. n + 1 - (n - 1) = 2
    OBVIOUS
  <2> QED  BY <1>1, <1>2, <1>8, <2>1 DEF AgreeFrom
<1> QED  BY <1>3, <1>9

\* A list of different elements that is as long as the set is large has them all.
LEMMA DifferentIsBijection ==
  ASSUME NEW n \in Nat, NEW S, IsFiniteSet(S), Cardinality(S) = n,
         NEW a, Different(a, n, S)
  PROVE  a \in Bijection(1..n, S)
<1>1. a \in Injection(1..n, S)
  BY DEF Different, Injection
<1>2. Cardinality(1..n) = n
  BY FS_Interval
<1>3. a \in Surjection(1..n, S)
  BY <1>1, <1>2, FS_Injection
<1> QED  BY <1>1, <1>3 DEF Bijection

\* Every order of the elements is the shuffle of some random values.
LEMMA EveryOrderIsDrawn ==
  ASSUME NEW n \in Nat \ {0}, NEW S, IsFiniteSet(S), Cardinality(S) = n,
         NEW array, Different(array, n, S), NEW p, Different(p, n, S)
  PROVE  \E r \in Random(array) : Shuffled(array, r) = p
<1>1. Len(array) = n /\ DOMAIN array = 1..n
  BY DEF Different
<1>2. Random(array) = {r \in [2..n -> 1..n] : \A i \in 2..n : r[i] \in 1..i}
  BY <1>1 DEF Random, Positions, Partners
<1> DEFINE Leads(k, r, f) ==
             /\ f[0] = array
             /\ \A m \in 1..k : f[m] = Swapped(f[m - 1], n + 1 - m, r[n + 1 - m])
             /\ Different(f[k], n, S)
             /\ AgreeFrom(f[k], p, n + 1 - k, n)
           True == {k \in 0..n - 1 : \E r \in Random(array) : \E f : Leads(k, r, f)}
<1>3. 0 \in True
  <2> DEFINE r == [i \in 2..n |-> 1]
             f == [m \in {0} |-> array]
  <2>1. r \in Random(array)
    BY <1>2
  <2>2. f[0] = array
    OBVIOUS
  <2> HIDE DEF r, f
  <2>3. Leads(0, r, f)
    BY <2>2 DEF AgreeFrom
  <2> QED  BY <2>1, <2>3
<1>4. ASSUME NEW k \in 1..n - 1, k - 1 \in True PROVE k \in True
  <2>1. PICK r \in Random(array) : \E f : Leads(k - 1, r, f)
    BY <1>4
  <2>2. PICK f : Leads(k - 1, r, f)
    BY <2>1
  <2> DEFINE i == n + 1 - k
             a == f[k - 1]
  <2>3. i \in 2..n /\ i \in 1..n /\ i + 1 = n + 1 - (k - 1)
    OBVIOUS
  <2>4. Different(a, n, S) /\ AgreeFrom(a, p, i + 1, n)
    BY <2>2, <2>3
  <2>5. PICK j \in 1..n : a[j] = p[i]
    <3>1. p[i] \in S
      BY <2>3 DEF Different
    <3>2. a \in Bijection(1..n, S)
      BY <2>4, DifferentIsBijection
    <3> QED  BY <3>1, <3>2 DEF Bijection, Surjection
  <2>6. j \in 1..i
    <3>1. CASE j > i
      <4>1. a[j] = p[j]
        BY <2>3, <2>4, <3>1 DEF AgreeFrom
      <4>2. j = i
        BY <2>3, <2>5, <4>1, Zenon DEF Different, IsInjective
      <4> QED  BY <3>1, <4>2
    <3> QED  BY <2>3, <3>1
  <2> DEFINE s == [r EXCEPT ![i] = j]
             h == [m \in 0..k |-> IF m = k THEN Swapped(a, i, j) ELSE f[m]]
  <2>7. s \in Random(array)
    BY <1>2, <2>3, <2>6
  <2>8. s[i] = j /\ \A x \in i + 1..n : s[x] = r[x]
    BY <1>2, <2>3
  <2>9. h[k] = Swapped(a, i, j) /\ \A m \in 0..k - 1 : h[m] = f[m]
    OBVIOUS
  <2>10. Different(h[k], n, S)
    BY <2>3, <2>4, <2>6, <2>9, SwapKeepsDifferent
  <2>11. h[k][i] = p[i] /\ \A x \in i + 1..n : h[k][x] = a[x]
    BY <2>3, <2>4, <2>5, <2>6, <2>9, SwapOf
  <2> HIDE DEF s, h
  <2>12. AgreeFrom(h[k], p, i, n)
    BY <2>3, <2>4, <2>11 DEF AgreeFrom
  <2>13. ASSUME NEW m \in 1..k
         PROVE  h[m] = Swapped(h[m - 1], n + 1 - m, s[n + 1 - m])
    <3>1. CASE m = k
      BY <2>8, <2>9, <3>1
    <3>2. CASE m # k
      <4>1. /\ n + 1 - m \in i + 1..n /\ m \in 1..k - 1
            /\ m - 1 \in 0..k - 1 /\ m \in 0..k - 1
        BY <3>2
      <4>2. f[m] = Swapped(f[m - 1], n + 1 - m, r[n + 1 - m])
        BY <2>2, <4>1
      <4> QED  BY <2>8, <2>9, <4>1, <4>2
    <3> QED  BY <3>1, <3>2
  <2>14. h[0] = array
    BY <2>2, <2>9
  <2>15. Leads(k, s, h)
    BY <2>10, <2>12, <2>13, <2>14
  <2> QED  BY <2>7, <2>15
<1>5. n - 1 \in Nat /\ n - 1 \in 0..n - 1 /\ True \in SUBSET (0..n - 1)
  OBVIOUS
<1>6. n - 1 \in True
  <2> HIDE DEF True
  <2> QED  BY <1>3, <1>4, <1>5, UpTo
<1>7. PICK r \in Random(array) : \E f : Leads(n - 1, r, f)
  BY <1>6
<1>8. PICK f : Leads(n - 1, r, f)
  BY <1>7
<1>9. PICK g : /\ IsRun(g, n, array, r)
               /\ Shuffled(array, r) = g[n - 1]
  BY RunKeepsDifferent
<1> HIDE DEF True
<1>10. f[n - 1] = g[n - 1]
  <2> DEFINE Same == {k \in 0..n - 1 : f[k] = g[k]}
  <2>1. 0 \in Same
    BY <1>8, <1>9 DEF IsRun
  <2>2. ASSUME NEW k \in 1..n - 1, k - 1 \in Same PROVE k \in Same
    BY <1>8, <1>9, <2>2 DEF IsRun
  <2>3. Same \in SUBSET (0..n - 1)
    OBVIOUS
  <2> HIDE DEF Same
  <2>4. Same = 0..n - 1
    BY <1>5, <2>1, <2>2, <2>3, UpTo
  <2> QED  BY <1>5, <2>4 DEF Same
<1>11. f[n - 1] = p
  <2> DEFINE a == f[n - 1]
  <2>1. Different(a, n, S) /\ AgreeFrom(a, p, 2, n)
    BY <1>8
  <2>2. PICK x \in 1..n : p[x] = a[1]
    <3>1. a[1] \in S
      BY <2>1 DEF Different
    <3>2. p \in Bijection(1..n, S)
      BY DifferentIsBijection
    <3> QED  BY <3>1, <3>2 DEF Bijection, Surjection
  <2>3. x = 1
    <3>1. CASE x # 1
      <4>1. a[x] = a[1]
        BY <2>1, <2>2, <3>1 DEF AgreeFrom
      <4> QED  BY <2>1, <4>1 DEF Different, IsInjective
    <3> QED  BY <3>1
  <2>4. \A y \in 1..n : a[y] = p[y]
    BY <2>1, <2>2, <2>3 DEF AgreeFrom
  <2> HIDE DEF a
  <2> QED  BY <2>1, <2>4 DEF Different, a
<1> QED  BY <1>7, <1>9, <1>10, <1>11
-----------------------------------------------------------------------------
LEMMA SelectedAre ==
  ASSUME NEW n \in Nat \ {0}, NEW S, NEW array, Different(array, n, S),
         NEW k \in 0..n, NEW r \in Random(array)
  PROVE  /\ ToSet(Selected(array, k, r)) = {Shuffled(array, r)[i] : i \in 1..k}
         /\ ToSet(Selected(array, k, r)) \in SUBSET S
<1> DEFINE shuffled == Shuffled(array, r)
<1>1. Different(shuffled, n, S)
  BY ShuffledIsDifferent
<1> HIDE DEF shuffled
<1>2. shuffled \in Seq(S) /\ Len(shuffled) = n
  BY <1>1 DEF Different
<1>3. Selected(array, k, r) = [i \in 1..k |-> shuffled[i]]
  BY <1>2 DEF Selected, shuffled
<1>4. \A i \in 1..k : shuffled[i] \in S
  BY <1>1 DEF Different
<1> QED  BY <1>3, <1>4 DEF ToSet, shuffled

LEMMA RandomIsFinite ==
  ASSUME NEW n \in Nat \ {0}, NEW array, DOMAIN array = 1..n, Len(array) = n
  PROVE  IsFiniteSet(Random(array))
<1> DEFINE Pairs == (2..n) \X (1..n)
           graph == [r \in Random(array) |-> {<<i, r[i]>> : i \in 2..n}]
<1>1. \A r \in Random(array) : r \in [2..n -> 1..n]
  BY DEF Random, Positions
<1>2. IsFiniteSet(SUBSET Pairs)
  <2>1. IsFiniteSet(2..n) /\ IsFiniteSet(1..n)
    BY FS_Interval
  <2>2. IsFiniteSet(Pairs)
    BY <2>1, FS_Product
  <2> HIDE DEF Pairs
  <2> QED  BY <2>2, FS_SUBSET
<1>3. graph \in [Random(array) -> SUBSET Pairs]
  BY <1>1
<1>4. ASSUME NEW r \in Random(array), NEW q \in Random(array), graph[r] = graph[q]
      PROVE  r = q
  <2>1. ASSUME NEW i \in 2..n PROVE r[i] = q[i]
    <3>1. <<i, r[i]>> \in graph[r]
      OBVIOUS
    <3>2. <<i, r[i]>> \in {<<j, q[j]>> : j \in 2..n}
      BY <1>4, <3>1
    <3> QED  BY <3>2
  <2> QED  BY <1>1, <2>1
<1> HIDE DEF graph, Pairs
<1>5. graph \in Injection(Random(array), SUBSET Pairs)
  BY <1>3, <1>4, Fun_IsInj
<1> QED  BY <1>2, <1>5, FS_Injection

\* s renames the elements of S so that those of W become those of V.
Renames(s, S, W, V) ==
  /\ s \in Bijection(S, S)
  /\ \A x \in S : s[x] \in V <=> x \in W

LEMMA RenamingExists ==
  ASSUME NEW S, IsFiniteSet(S), NEW W \in SUBSET S, NEW V \in SUBSET S,
         Cardinality(W) = Cardinality(V)
  PROVE  \E s : Renames(s, S, W, V)
<1>1. IsFiniteSet(W) /\ IsFiniteSet(V)
  BY FS_Subset
<1>2. PICK f : f \in Bijection(W, V)
  BY <1>1, FS_SameCardinalityBij, Fun_ExistsBij
<1>3. /\ IsFiniteSet(S \ W) /\ IsFiniteSet(S \ V)
      /\ Cardinality(S \ W) = Cardinality(S \ V)
  <2>1. S \cap W = W /\ S \cap V = V
    OBVIOUS
  <2> QED  BY <2>1, FS_Difference
<1>4. PICK g : g \in Bijection(S \ W, S \ V)
  BY <1>3, FS_SameCardinalityBij, Fun_ExistsBij
<1> DEFINE s == [x \in S |-> IF x \in W THEN f[x] ELSE g[x]]
<1>5. /\ f \in [W -> V] /\ \A a, b \in W : f[a] = f[b] => a = b
      /\ \A v \in V : \E w \in W : f[w] = v
  BY <1>2, Fun_BijectionProperties
<1>6. /\ g \in [S \ W -> S \ V] /\ \A a, b \in S \ W : g[a] = g[b] => a = b
      /\ \A v \in S \ V : \E w \in S \ W : g[w] = v
  <2> DEFINE A == S \ W
             B == S \ V
  <2>1. g \in Bijection(A, B)
    BY <1>4
  <2> HIDE DEF A, B
  <2>2. /\ g \in [A -> B] /\ \A a, b \in A : g[a] = g[b] => a = b
        /\ \A v \in B : \E w \in A : g[w] = v
    BY <2>1, Fun_BijectionProperties
  <2> QED  BY <2>2 DEF A, B
<1>7. /\ s \in [S -> S]
      /\ \A x \in W : s[x] = f[x] /\ s[x] \in V
      /\ \A x \in S \ W : s[x] = g[x] /\ s[x] \in S \ V
  BY <1>5, <1>6
<1> HIDE DEF s
<1>8. \A a, b \in S : s[a] = s[b] => a = b
  BY <1>5, <1>6, <1>7
<1>9. \A v \in S : \E w \in S : s[w] = v
  BY <1>5, <1>6, <1>7
<1>10. s \in Bijection(S, S)
  BY <1>7, <1>8, <1>9, Fun_IsBij
<1>11. \A x \in S : s[x] \in V <=> x \in W
  BY <1>7
<1> QED  BY <1>10, <1>11 DEF Renames

\* Every set of k sockets comes from the same share of the random values: the
\* pairs of a value that selects W and a set V correspond to all values, by
\* renaming in the shuffled array those of W to those of V.
LEMMA SharesAreEqual ==
  ASSUME NEW n \in Nat \ {0}, NEW S, IsFiniteSet(S), Cardinality(S) = n,
         NEW array, Different(array, n, S), NEW k \in 0..n,
         NEW W \in kSubset(k, S)
  PROVE  LET ways == {r \in Random(array) : ToSet(Selected(array, k, r)) = W}
         IN  Cardinality(ways) * Cardinality(kSubset(k, S)) = Cardinality(Random(array))
<1> DEFINE All == Random(array)
           sets == kSubset(k, S)
           Of(r) == Shuffled(array, r)
           Set(r) == ToSet(Selected(array, k, r))
           ways == {r \in All : Set(r) = W}
           name == [V \in sets |-> CHOOSE s : Renames(s, S, W, V)]
           Image(r, V) == [i \in 1..n |-> name[V][Of(r)[i]]]
           Draw(r, V) == CHOOSE q \in All : Of(q) = Image(r, V)
           to == [x \in ways \X sets |-> Draw(x[1], x[2])]
<1>1. \A r \in All : Different(Of(r), n, S)
  BY ShuffledIsDifferent
<1>2. \A r \in All : Set(r) = {Of(r)[i] : i \in 1..k} /\ Set(r) \in SUBSET S
  BY SelectedAre
<1>3. \A r, q \in All : Of(r) = Of(q) => r = q
  BY ShufflesDiffer
<1>4. \A p : Different(p, n, S) => \E r \in All : Of(r) = p
  BY EveryOrderIsDrawn
<1>5. IsFiniteSet(All)
  <2>1. DOMAIN array = 1..n /\ Len(array) = n
    BY DEF Different
  <2> QED  BY <2>1, RandomIsFinite
<1>6. IsFiniteSet(sets)
  <2>1. sets \in SUBSET (SUBSET S)
    BY DEF kSubset
  <2> QED  BY <2>1, FS_SUBSET, FS_Subset
<1>7. IsFiniteSet(ways)
  BY <1>5, FS_Subset
<1>8. \A V \in sets : Renames(name[V], S, W, V)
  BY RenamingExists DEF kSubset
<1> HIDE DEF All, Of, Set, name
<1>9. ASSUME NEW V \in sets
      PROVE  /\ name[V] \in [S -> S]
             /\ \A a, b \in S : name[V][a] = name[V][b] => a = b
             /\ \A v \in S : \E w \in S : name[V][w] = v
             /\ \A x \in S : name[V][x] \in V <=> x \in W
  BY <1>8, Fun_BijectionProperties DEF Renames
<1>10. ASSUME NEW r \in All PROVE Set(r) \in sets
  <2>1. /\ Of(r) \in [1..n -> S]
        /\ \A i, j \in 1..n : Of(r)[i] = Of(r)[j] => i = j
    BY <1>1 DEF Different, IsInjective
  <2> DEFINE first == [i \in 1..k |-> Of(r)[i]]
  <2>2. first \in Bijection(1..k, Set(r))
    <3>1. first \in [1..k -> Set(r)] /\ \A t \in Set(r) : \E i \in 1..k : first[i] = t
      BY <1>2
    <3>2. \A i, j \in 1..k : first[i] = first[j] => i = j
      BY <2>1
    <3> HIDE DEF first
    <3> QED  BY <3>1, <3>2, Fun_IsBij
  <2>3. Cardinality(Set(r)) = k
    <3>1. IsFiniteSet(1..k) /\ Cardinality(1..k) = k
      BY FS_Interval
    <3>2. ExistsBijection(1..k, Set(r))
      BY <2>2, Fun_ExistsBij
    <3> QED  BY <3>1, <3>2, FS_Bijection
  <2> QED  BY <1>2, <2>3 DEF kSubset
<1>11. ASSUME NEW r \in All, NEW V \in sets
       PROVE  Different(Image(r, V), n, S)
  <2>1. Of(r) \in [1..n -> S] /\ \A i, j \in 1..n : Of(r)[i] = Of(r)[j] => i = j
    BY <1>1 DEF Different, IsInjective
  <2> DEFINE s == name[V]
             o == Of(r)
             a == [i \in 1..n |-> s[o[i]]]
  <2>2. s \in [S -> S] /\ \A x, y \in S : s[x] = s[y] => x = y
    BY <1>9
  <2> HIDE DEF s, o
  <2>3. o \in [1..n -> S] /\ \A i, j \in 1..n : o[i] = o[j] => i = j
    BY <2>1 DEF o
  <2>4. \A i \in 1..n : o[i] \in S
    BY <2>3
  <2>5. a \in [1..n -> S] /\ \A i, j \in 1..n : a[i] = a[j] => i = j
    BY <2>2, <2>3, <2>4
  <2>6. Different(a, n, S)
    BY <2>5 DEF Different, IsInjective
  <2> QED  BY <2>6 DEF s, o
<1>12. ASSUME NEW r \in ways, NEW V \in sets
       PROVE  Draw(r, V) \in All /\ Of(Draw(r, V)) = Image(r, V) /\ Set(Draw(r, V)) = V
  <2> DEFINE q == Draw(r, V)
  <2>1. q \in All /\ Of(q) = Image(r, V)
    BY <1>4, <1>11
  <2> HIDE DEF q
  <2>2. Set(q) \subseteq V
    <3>1. ASSUME NEW i \in 1..k PROVE name[V][Of(r)[i]] \in V
      BY <1>2, <1>9
    <3> QED  BY <1>2, <2>1, <3>1
  <2>3. Set(q) = V
    <3>1. Cardinality(Set(q)) = k /\ Cardinality(V) = k /\ V \in SUBSET S
      BY <1>10, <2>1 DEF kSubset
    <3>2. IsFiniteSet(V)
      BY <3>1, FS_Subset
    <3> QED  BY <2>2, <3>1, <3>2, FS_Subset
  <2> QED  BY <2>1, <2>3 DEF q
<1> HIDE DEF Draw
<1>13. to \in [ways \X sets -> All]
  BY <1>12
<1>14. ASSUME NEW x \in ways \X sets, NEW y \in ways \X sets, to[x] = to[y]
       PROVE  x = y
  <2>1. PICK r \in ways, V \in sets : x = <<r, V>>
    OBVIOUS
  <2>2. PICK q \in ways, U \in sets : y = <<q, U>>
    OBVIOUS
  <2>3. V = U /\ Image(r, V) = Image(q, U)
    <3>1. Draw(r, V) = Draw(q, U)
      BY <1>14, <2>1, <2>2
    <3>2. Set(Draw(r, V)) = V /\ Of(Draw(r, V)) = Image(r, V)
      BY <1>12
    <3>3. Set(Draw(q, U)) = U /\ Of(Draw(q, U)) = Image(q, U)
      BY <1>12
    <3> QED  BY <3>1, <3>2, <3>3
  <2>4. ASSUME NEW i \in 1..n PROVE Of(r)[i] = Of(q)[i]
    <3>1. Of(r)[i] \in S /\ Of(q)[i] \in S
      BY <1>1 DEF Different
    <3>2. Image(r, V)[i] = Image(q, V)[i]
      BY <2>3
    <3>3. name[V][Of(r)[i]] = name[V][Of(q)[i]]
      BY <3>2
    <3>4. \A a, b \in S : name[V][a] = name[V][b] => a = b
      BY <1>9
    <3> QED  BY <3>1, <3>3, <3>4, Zenon
  <2>5. Of(r) = Of(q)
    BY <1>1, <2>4 DEF Different
  <2> QED  BY <1>3, <2>1, <2>2, <2>3, <2>5
<1>15. ASSUME NEW q \in All PROVE \E x \in ways \X sets : to[x] = q
  <2> DEFINE V == Set(q)
             p == [i \in 1..n |-> CHOOSE w \in S : name[V][w] = Of(q)[i]]
  <2>1. V \in sets
    BY <1>10
  <2>2. Of(q) \in [1..n -> S] /\ \A i, j \in 1..n : Of(q)[i] = Of(q)[j] => i = j
    BY <1>1 DEF Different, IsInjective
  <2>3. \A i \in 1..n : p[i] \in S /\ name[V][p[i]] = Of(q)[i]
    BY <1>9, <2>1, <2>2
  <2>4. p \in [1..n -> S] /\ DOMAIN p = 1..n
    BY <2>3
  <2> HIDE DEF p
  <2>5. Different(p, n, S)
    BY <2>2, <2>3, <2>4 DEF Different, IsInjective
  <2>6. PICK r \in All : Of(r) = p
    BY <1>4, <2>5
  <2>7. Set(r) = W
    <3>1. Set(r) = {p[i] : i \in 1..k} /\ V = {Of(q)[i] : i \in 1..k}
      BY <1>2, <2>6
    <3>2. ASSUME NEW i \in 1..k PROVE p[i] \in W
      <4>1. p[i] \in S /\ name[V][p[i]] = Of(q)[i] /\ Of(q)[i] \in V
        BY <2>3, <3>1
      <4>2. \A x \in S : name[V][x] \in V => x \in W
        BY <1>9, <2>1
      <4> QED  BY <4>1, <4>2, Zenon
    <3>3. Cardinality(Set(r)) = k /\ Cardinality(W) = k /\ W \in SUBSET S
      BY <1>10 DEF kSubset
    <3>4. IsFiniteSet(W)
      BY <3>3, FS_Subset
    <3> QED  BY <3>1, <3>2, <3>3, <3>4, FS_Subset
  <2>8. r \in ways /\ <<r, V>> \in ways \X sets
    BY <2>1, <2>7
  <2>9. Draw(r, V) \in All /\ Of(Draw(r, V)) = Image(r, V)
    BY <1>12, <2>1, <2>8
  <2>10. Image(r, V) = Of(q)
    BY <2>2, <2>3, <2>6
  <2>11. Draw(r, V) = q
    BY <1>3, <2>9, <2>10
  <2>12. to[<<r, V>>] = q
    BY <2>8, <2>11
  <2> QED  BY <2>8, <2>12
<1> HIDE DEF to, ways, sets
<1>16. to \in Bijection(ways \X sets, All)
  BY <1>13, <1>14, <1>15, Fun_IsBij
<1>17. Cardinality(ways) * Cardinality(sets) = Cardinality(ways \X sets)
  BY <1>6, <1>7, FS_Product
<1>18. Cardinality(ways \X sets) = Cardinality(All)
  <2>1. IsFiniteSet(ways \X sets)
    BY <1>6, <1>7, FS_Product
  <2>2. ExistsBijection(ways \X sets, All)
    BY <1>16, Fun_ExistsBij
  <2> QED  BY <2>1, <2>2, FS_Bijection
<1> QED  BY <1>17, <1>18 DEF ways, sets, All, Set

\* Every set of as many active sockets as win is drawn by the same share of
\* the random values.
THEOREM DrawFair == Spec => []DrawIsFair
<1> DEFINE Drawn == active \in Lists /\ winnersCount \in WinnersCounts
<1>1. Init => Drawn
  BY DEF Init
<1>2. Drawn /\ [Next]_vars => Drawn'
  BY DEF Next, SelectWinners, vars
<1>3. ASSUME Drawn PROVE DrawIsFair
  <2>1. PICK n \in 1..Cardinality(Sockets) : active \in Injection(1..n, Sockets)
    BY <1>3 DEF Lists
  <2>2. n \in Nat \ {0}
    OBVIOUS
  <2> DEFINE S == ToSet(active)
             k == Wanted(active, winnersCount)
  <2>3. Len(active) = n /\ Different(active, n, S)
    BY <2>1, <2>2 DEF Injection, Different, ToSet
  <2>4. k \in 0..n
    BY <1>3, <2>2, <2>3, CountAssumption, LeastOfTwo DEF Wanted
  <2>5. IsFiniteSet(S) /\ Cardinality(S) = n
    <3>1. active \in Bijection(1..n, S)
      BY <2>1, Fun_IsBij DEF Injection, IsInjective, ToSet
    <3> QED  BY <2>2, <3>1, FS_Interval, FS_Bijection, Fun_ExistsBij
  <2> HIDE DEF S, k
  <2>6. ASSUME NEW W \in kSubset(k, S)
        PROVE  LET ways == {r \in Random(active) : ToSet(Selected(active, k, r)) = W}
               IN  Cardinality(ways) * Cardinality(kSubset(k, S)) =
                     Cardinality(Random(active))
    BY <2>2, <2>3, <2>4, <2>5, SharesAreEqual
  <2> QED  BY <2>6 DEF DrawIsFair, S, k
<1> QED  BY <1>1, <1>2, <1>3, PTL DEF Spec
=============================================================================
