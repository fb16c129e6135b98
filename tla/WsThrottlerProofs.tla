------------------------- MODULE WsThrottlerProofs -------------------------
(***************************************************************************)
(* The sliding window of WsThrottlerGuard, for any limit, window and       *)
(* number of sockets: it lets no more through than its limit, rejects only *)
(* bursts, and keeps the promise of retryAfter.                            *)
(*                                                                         *)
(* The filter of canActivate goes through the list, so what it returns is  *)
(* shown by induction over its length: a set of naturals that is not empty *)
(* has a least element (LeastNatural), and no list is the shortest one for *)
(* which the claim fails.                                                  *)
(***************************************************************************)
EXTENDS WsThrottler, WellFoundedInduction, TLAPS

\* The list of a socket is what is younger than the window among the events let
\* through last, in the opposite order.
Remembers(ages, events) ==
  /\ Len(ages) <= Limit
  /\ \A i \in 1..Limit + 1 :
       events[i] = IF i <= Len(ages) THEN ages[Len(ages) + 1 - i] ELSE Window

\* A wait that was promised reaches to the end of the window of the event that
\* stands in the way.
Covers(wait, events) == wait # None => events[Limit] + wait >= Window

IInv ==
  /\ TypeOK
  /\ \A c \in Clients : /\ Remembers(requestCounts[c], served[c])
                         /\ Covers(promised[c], served[c])
-----------------------------------------------------------------------------
(***************************************************************************)
(* Induction.                                                              *)
(***************************************************************************)
Less == OpToRel(<, Nat)

LEMMA LeastNatural ==
  ASSUME NEW T \in SUBSET Nat, T # {}
  PROVE  \E x \in T : \A y \in T : x <= y
<1>1. IsWellFoundedOn(Less, Nat)
  BY NatLessThanWellFounded, Zenon DEF Less
<1>2. PICK x \in T : \A y \in T : ~ (<<y, x>> \in Less)
  BY <1>1, WFMin
<1>3. \A y \in Nat : <<y, x>> \in Less <=> y < x
  BY DEF Less, OpToRel
<1>4. ASSUME NEW y \in T PROVE x <= y
  <2>1. x \in Nat /\ y \in Nat
    OBVIOUS
  <2>2. ~(y < x)
    BY <1>2, <1>3, <2>1
  <2> QED  BY <2>1, <2>2
<1> QED  BY <1>4

\* What a claim about the naturals up to m has to satisfy to hold of m.
LEMMA UpTo ==
  ASSUME NEW m \in Nat, NEW True \in SUBSET (0..m), 0 \in True,
         \A n \in 1..m : n - 1 \in True => n \in True
  PROVE  True = 0..m
<1> DEFINE False == {n \in 0..m : n \notin True}
<1>1. SUFFICES ASSUME False # {} PROVE FALSE
  OBVIOUS
<1>2. False \in SUBSET Nat
  OBVIOUS
<1>3. PICK x \in False : \A y \in False : x <= y
  BY <1>1, <1>2, LeastNatural
<1>4. x \in 1..m /\ x \notin True
  OBVIOUS
<1>5. x - 1 \in 0..m /\ ~(x <= x - 1)
  BY <1>4
<1>6. x - 1 \in True
  BY <1>3, <1>5
<1> QED  BY <1>4, <1>6
-----------------------------------------------------------------------------
(***************************************************************************)
(* The filter.                                                             *)
(***************************************************************************)
\* f[n] is what is kept of the first n entries.
Filters(f, m, bound, ages) ==
  f = [n \in 0..m |->
        IF n = 0 THEN <<>>
        ELSE IF ages[n] < bound THEN Append(f[n - 1], ages[n]) ELSE f[n - 1]]

LEMMA FilterExists ==
  ASSUME NEW m \in Nat, NEW bound, NEW ages
  PROVE  \E f : Filters(f, m, bound, ages)
<1> DEFINE Next1(f, n) == IF ages[n] < bound THEN Append(f[n - 1], ages[n]) ELSE f[n - 1]
           Found == {k \in 0..m : \E f : Filters(f, k, bound, ages)}
<1>1. 0 \in Found
  <2>1. Filters([n \in 0..0 |-> <<>>], 0, bound, ages)
    BY DEF Filters
  <2> QED  BY <2>1
<1>2. ASSUME NEW k \in 1..m, k - 1 \in Found PROVE k \in Found
  <2>1. PICK g : Filters(g, k - 1, bound, ages)
    BY <1>2
  <2> DEFINE f == [n \in 0..k |-> IF n = k THEN Next1(g, n) ELSE g[n]]
  <2>2. \A n \in 0..k - 1 : g[n] = IF n = 0 THEN <<>> ELSE Next1(g, n)
    BY <2>1 DEF Filters
  <2>3. \A n \in 1..k : f[n - 1] = g[n - 1]
    OBVIOUS
  <2>4. \A n \in 0..k : f[n] = IF n = 0 THEN <<>> ELSE Next1(f, n)
    BY <2>2, <2>3
  <2>5. f = [n \in 0..k |-> IF n = 0 THEN <<>> ELSE Next1(f, n)]
    BY <2>4
  <2> HIDE DEF f
  <2>6. Filters(f, k, bound, ages)
    BY <2>5 DEF Filters
  <2> QED  BY <2>6
<1> HIDE DEF Found
<1>3. Found = 0..m
  BY <1>1, <1>2, UpTo DEF Found
<1> QED  BY <1>3 DEF Found

Steps(f, bound, ages) ==
  /\ f[0] = <<>>
  /\ \A n \in 1..Len(ages) :
       f[n] = IF ages[n] < bound THEN Append(f[n - 1], ages[n]) ELSE f[n - 1]

LEMMA FilterSteps ==
  ASSUME NEW bound, NEW ages, Len(ages) \in Nat
  PROVE  \E f : Steps(f, bound, ages) /\ YoungerThan(bound, ages) = f[Len(ages)]
<1> DEFINE f == CHOOSE f : Filters(f, Len(ages), bound, ages)
<1>1. YoungerThan(bound, ages) = f[Len(ages)]
  BY DEF YoungerThan, Filters
<1>2. Filters(f, Len(ages), bound, ages)
  BY FilterExists
<1> HIDE DEF f
<1>3. \A n \in 0..Len(ages) :
        f[n] = IF n = 0 THEN <<>>
               ELSE IF ages[n] < bound THEN Append(f[n - 1], ages[n]) ELSE f[n - 1]
  BY <1>2 DEF Filters
<1>4. Steps(f, bound, ages)
  BY <1>3 DEF Steps
<1> QED  BY <1>1, <1>4

\* The end of a list, from which the first k entries are gone.
Rest(part, k, ages) ==
  /\ k \in 0..Len(ages) /\ part \in Seq(0..Window) /\ Len(part) = Len(ages) - k
  /\ \A i \in 1..Len(part) : part[i] = ages[i + k]

Ordered(ages) ==
  /\ ages \in Seq(0..Window)
  /\ \A i, j \in 1..Len(ages) : i < j => ages[i] >= ages[j]

\* Of a list in which the oldest event comes first, the filter takes off those
\* at the front that are as old as the window.
LEMMA RecentIsRest ==
  ASSUME NEW ages, Ordered(ages)
  PROVE  \E k \in 0..Len(ages) :
           /\ Rest(Recent(ages), k, ages)
           /\ \A i \in 1..k : ages[i] = Window
           /\ \A i \in k + 1..Len(ages) : ages[i] < Window
<1> DEFINE m == Len(ages)
<1>0. m \in Nat /\ Window \in Nat /\ \A i \in 1..m : ages[i] \in 0..Window
  BY ThrottlerAssumption DEF Ordered
<1>1. PICK f : Steps(f, Window, ages) /\ Recent(ages) = f[m]
  BY <1>0, FilterSteps DEF Recent
<1>2. /\ f[0] = <<>>
      /\ \A n \in 1..m :
           f[n] = IF ages[n] < Window THEN Append(f[n - 1], ages[n]) ELSE f[n - 1]
  BY <1>1 DEF Steps
<1> DEFINE Good(n, k) ==
             /\ f[n] \in Seq(0..Window) /\ Len(f[n]) = n - k
             /\ \A i \in 1..n - k : f[n][i] = ages[i + k]
             /\ \A i \in 1..k : ages[i] = Window
             /\ \A i \in k + 1..n : ages[i] < Window
           True == {n \in 0..m : \E k \in 0..n : Good(n, k)}
<1>3. 0 \in True
  <2>1. Good(0, 0)
    BY <1>2
  <2> HIDE DEF Good
  <2> QED  BY <1>0, <2>1
<1>4. ASSUME NEW n \in 1..m, NEW k \in 0..n - 1, Good(n - 1, k)
      PROVE  Good(n, k) \/ Good(n, n)
  <2>1. CASE ages[n] < Window
    <3>1. f[n] = Append(f[n - 1], ages[n]) /\ ages[n] \in 0..Window
      BY <1>0, <1>2, <2>1
    <3>2. f[n - 1] \in Seq(0..Window) /\ Len(f[n - 1]) = n - 1 - k /\ n - k \in Nat
      BY <1>0, <1>4
    <3>3. /\ f[n] \in Seq(0..Window) /\ Len(f[n]) = n - k
          /\ \A i \in 1..n - k : f[n][i] = IF i = n - k THEN ages[n] ELSE f[n - 1][i]
      BY <3>1, <3>2
    <3>4. \A i \in 1..n - k : f[n][i] = ages[i + k]
      BY <1>0, <1>4, <3>3
    <3>5. /\ \A i \in 1..k : ages[i] = Window
          /\ \A i \in k + 1..n : ages[i] < Window
      BY <1>0, <1>4, <2>1
    <3> QED  BY <3>3, <3>4, <3>5
  <2>2. CASE ~(ages[n] < Window)
    <3>1. f[n] = f[n - 1] /\ ages[n] = Window
      BY <1>0, <1>2, <2>2
    <3>2. \A i \in 1..n - 1 : ages[i] = Window
      BY <1>0, <3>1 DEF Ordered
    <3>3. k = n - 1
      BY <1>0, <1>4, <3>2
    <3> QED  BY <1>0, <1>4, <3>1, <3>2, <3>3
  <2> QED  BY <2>1, <2>2
<1> HIDE DEF Good
<1>5. ASSUME NEW n \in 1..m, n - 1 \in True PROVE n \in True
  <2>1. PICK k \in 0..n - 1 : Good(n - 1, k)
    BY <1>5
  <2>2. Good(n, k) \/ Good(n, n)
    BY <1>4, <2>1
  <2> QED  BY <1>0, <2>2
<1>6. m \in True
  <2> HIDE DEF True
  <2>1. True = 0..m
    BY <1>0, <1>3, <1>5, UpTo DEF True
  <2> QED  BY <1>0, <2>1
<1>7. PICK k \in 0..m : Good(m, k)
  BY <1>6
<1> QED  BY <1>0, <1>1, <1>7 DEF Rest, Good
-----------------------------------------------------------------------------
(***************************************************************************)
(* What the list says of the events let through last, and what keeps it.   *)
(***************************************************************************)
Events == [1..Limit + 1 -> 0..Window]

LEMMA RecentRemembers ==
  ASSUME NEW ages, Ordered(ages), NEW events, Remembers(ages, events)
  PROVE  /\ Ordered(Recent(ages)) /\ Remembers(Recent(ages), events)
         /\ \A i \in 1..Len(Recent(ages)) : Recent(ages)[i] < Window
<1> DEFINE l == Recent(ages)
<1>0. Limit \in Nat /\ Window \in Nat /\ Len(ages) \in Nat
  BY ThrottlerAssumption DEF Ordered
<1>1. PICK k \in 0..Len(ages) : /\ Rest(l, k, ages)
                                /\ \A i \in 1..k : ages[i] = Window
                                /\ \A i \in k + 1..Len(ages) : ages[i] < Window
  BY RecentIsRest
<1> HIDE DEF l
<1>2. /\ l \in Seq(0..Window) /\ Len(l) = Len(ages) - k
      /\ \A i \in 1..Len(l) : l[i] = ages[i + k]
  BY <1>1 DEF Rest
<1>3. Ordered(l)
  <2>1. \A i, j \in 1..Len(l) : i < j => ages[i + k] >= ages[j + k]
    BY <1>0, <1>2 DEF Ordered
  <2> QED  BY <1>2, <2>1 DEF Ordered
<1>4. \A i \in 1..Len(l) : l[i] < Window
  BY <1>0, <1>1, <1>2
<1>5. ASSUME NEW i \in 1..Limit + 1
      PROVE  events[i] = IF i <= Len(l) THEN l[Len(l) + 1 - i] ELSE Window
  <2>1. events[i] = IF i <= Len(ages) THEN ages[Len(ages) + 1 - i] ELSE Window
    BY DEF Remembers
  <2>2. CASE i <= Len(l)
    <3>0. Len(l) + 1 - i \in 1..Len(l) /\ (Len(l) + 1 - i) + k = Len(ages) + 1 - i
      BY <1>0, <1>2, <2>2
    <3>1. PICK j \in 1..Len(l) : j = Len(l) + 1 - i /\ j + k = Len(ages) + 1 - i
      BY <3>0, Zenon
    <3>2. l[j] = ages[j + k]
      BY <1>2
    <3>3. i <= Len(ages)
      BY <1>0, <1>2, <2>2
    <3> QED  BY <2>1, <2>2, <3>1, <3>2, <3>3
  <2>3. CASE ~(i <= Len(l)) /\ i <= Len(ages)
    <3>1. Len(ages) + 1 - i \in 1..k
      BY <1>0, <1>2, <2>3
    <3> QED  BY <1>1, <2>1, <2>3, <3>1
  <2>4. CASE ~(i <= Len(ages))
    BY <1>0, <1>2, <2>1, <2>4
  <2> QED  BY <2>2, <2>3, <2>4
<1>6. Len(l) <= Limit
  BY <1>0, <1>2 DEF Remembers
<1> QED  BY <1>3, <1>4, <1>5, <1>6 DEF Remembers, l

\* The event is let through.
LEMMA RecordedRemembers ==
  ASSUME NEW ages, Ordered(ages), ~IsFull(ages), NEW events, Remembers(ages, events)
  PROVE  /\ Ordered(Recorded(ages))
         /\ Remembers(Recorded(ages),
                      [n \in 1..Limit + 1 |-> IF n = 1 THEN 0 ELSE events[n - 1]])
<1> DEFINE l == Recorded(ages)
           e == [n \in 1..Limit + 1 |-> IF n = 1 THEN 0 ELSE events[n - 1]]
<1>0. /\ Limit \in Nat /\ Window \in Nat /\ Len(ages) \in Nat /\ ages \in Seq(0..Window)
      /\ 0 \in 0..Window
  BY ThrottlerAssumption DEF Ordered
<1>1. /\ l \in Seq(0..Window) /\ Len(l) = Len(ages) + 1 /\ l[Len(ages) + 1] = 0
      /\ \A i \in 1..Len(ages) : l[i] = ages[i] /\ ages[i] \in 0..Window
  BY <1>0 DEF Recorded
<1> HIDE DEF l
<1>2. Ordered(l)
  <2>1. ASSUME NEW i \in 1..Len(l), NEW j \in 1..Len(l), i < j PROVE l[i] >= l[j]
    <3>1. i \in 1..Len(ages) /\ l[i] \in 0..Window
      BY <1>0, <1>1, <2>1
    <3>2. CASE j \in 1..Len(ages)
      BY <1>0, <1>1, <2>1, <3>1, <3>2 DEF Ordered
    <3>3. CASE j = Len(ages) + 1
      BY <1>1, <3>1, <3>3
    <3> QED  BY <1>0, <1>1, <3>2, <3>3
  <2> QED  BY <1>1, <2>1 DEF Ordered
<1>3. Len(l) <= Limit
  BY <1>0, <1>1 DEF IsFull
<1>4. \A i \in 1..Limit + 1 : e[i] = IF i = 1 THEN 0 ELSE events[i - 1]
  OBVIOUS
<1> HIDE DEF e
<1>5. ASSUME NEW i \in 1..Limit + 1
      PROVE  e[i] = IF i <= Len(l) THEN l[Len(l) + 1 - i] ELSE Window
  <2>1. CASE i = 1
    BY <1>0, <1>1, <1>4, <2>1
  <2>2. CASE i # 1
    <3>1. i - 1 \in 1..Limit + 1 /\ e[i] = events[i - 1]
      BY <1>0, <1>4, <2>2
    <3>2. events[i - 1] = IF i - 1 <= Len(ages) THEN ages[Len(ages) + 1 - (i - 1)] ELSE Window
      BY <3>1 DEF Remembers
    <3>3. CASE i <= Len(l)
      <4>0. Len(l) + 1 - i \in 1..Len(ages) /\ Len(l) + 1 - i = Len(ages) + 1 - (i - 1)
        BY <1>0, <1>1, <2>2, <3>3
      <4>1. PICK j \in 1..Len(ages) : j = Len(l) + 1 - i /\ j = Len(ages) + 1 - (i - 1)
        BY <4>0, Zenon
      <4>2. l[j] = ages[j] /\ i - 1 <= Len(ages)
        BY <1>0, <1>1, <3>3
      <4> QED  BY <3>1, <3>2, <3>3, <4>1, <4>2
    <3>4. CASE ~(i <= Len(l))
      BY <1>0, <1>1, <3>1, <3>2, <3>4
    <3> QED  BY <3>3, <3>4
  <2> QED  BY <2>1, <2>2
<1> QED  BY <1>2, <1>3, <1>5 DEF Remembers, l, e

\* A tick.
LEMMA OlderRemembers ==
  ASSUME NEW ages, Ordered(ages), NEW events \in Events, Remembers(ages, events)
  PROVE  /\ Ordered([i \in 1..Len(ages) |-> Older(ages[i])])
         /\ Remembers([i \in 1..Len(ages) |-> Older(ages[i])],
                      [n \in 1..Limit + 1 |-> Older(events[n])])
<1> DEFINE l == [i \in 1..Len(ages) |-> Older(ages[i])]
           e == [n \in 1..Limit + 1 |-> Older(events[n])]
<1>0. /\ Limit \in Nat /\ Window \in Nat /\ Len(ages) \in Nat
      /\ \A i \in 1..Len(ages) : ages[i] \in 0..Window
  BY ThrottlerAssumption DEF Ordered
<1>1. \A a \in 0..Window : Older(a) \in 0..Window
  BY <1>0 DEF Older
<1>2. /\ l \in Seq(0..Window) /\ Len(l) = Len(ages)
      /\ \A i \in 1..Len(l) : l[i] = Older(ages[i])
  BY <1>0, <1>1
<1>3. \A n \in 1..Limit + 1 : e[n] = Older(events[n])
  OBVIOUS
<1> HIDE DEF l, e
<1>4. Ordered(l)
  <2>1. \A a, b \in 0..Window : a >= b => Older(a) >= Older(b)
    BY <1>0 DEF Older
  <2> QED  BY <1>0, <1>2, <2>1 DEF Ordered
<1>5. ASSUME NEW i \in 1..Limit + 1
      PROVE  e[i] = IF i <= Len(l) THEN l[Len(l) + 1 - i] ELSE Window
  <2>1. events[i] = IF i <= Len(ages) THEN ages[Len(ages) + 1 - i] ELSE Window
    BY DEF Remembers
  <2>2. i <= Len(ages) => Len(ages) + 1 - i \in 1..Len(ages)
    BY <1>0
  <2>3. Older(Window) = Window
    BY <1>0 DEF Older
  <2> QED  BY <1>2, <1>3, <2>1, <2>2, <2>3
<1> QED  BY <1>2, <1>4, <1>5 DEF Remembers, l, e

\* If the list is full once it has been filtered, Limit events have been let
\* through in the window, and the first of them is the first in the list.
LEMMA FullIsBurst ==
  ASSUME NEW ages, Ordered(ages), NEW events, Remembers(ages, events),
         IsFull(Recent(ages))
  PROVE  /\ events[Limit] = Head(Recent(ages)) /\ events[Limit] \in 0..Window
         /\ events[Limit] < Window
<1> DEFINE l == Recent(ages)
<1>1. /\ Ordered(l) /\ Remembers(l, events) /\ \A i \in 1..Len(l) : l[i] < Window
  BY RecentRemembers
<1> HIDE DEF l
<1>2. /\ Limit \in Nat \ {0} /\ Len(l) \in Nat /\ l \in Seq(0..Window)
      /\ \A i \in 1..Len(l) : l[i] \in 0..Window
  BY <1>1, ThrottlerAssumption DEF Ordered
<1>3. Len(l) = Limit
  BY <1>1, <1>2 DEF Remembers, IsFull, l
<1>4. events[Limit] = l[1]
  BY <1>1, <1>2, <1>3 DEF Remembers
<1>5. Head(l) = l[1]
  BY <1>2, <1>3
<1> QED  BY <1>1, <1>2, <1>3, <1>4, <1>5 DEF l
-----------------------------------------------------------------------------
(***************************************************************************)
(* The steps.                                                              *)
(***************************************************************************)
Client(c) ==
  /\ Ordered(requestCounts[c]) /\ served[c] \in Events
  /\ connected[c] \in BOOLEAN /\ promised[c] \in 0..None
  /\ Remembers(requestCounts[c], served[c])
  /\ Covers(promised[c], served[c])

LEMMA ClientsInvariant ==
  IInv <=> /\ DOMAIN requestCounts = Clients /\ DOMAIN served = Clients
           /\ DOMAIN connected = Clients /\ DOMAIN promised = Clients
           /\ requestCounts = [c \in Clients |-> requestCounts[c]]
           /\ served = [c \in Clients |-> served[c]]
           /\ connected = [c \in Clients |-> connected[c]]
           /\ promised = [c \in Clients |-> promised[c]]
           /\ \A c \in Clients : Client(c)
  BY DEF IInv, TypeOK, Client, Ordered, Events

LEMMA InitIsInvariant == Init => IInv
<1> SUFFICES ASSUME Init PROVE IInv
  OBVIOUS
<1>0. Limit \in Nat \ {0} /\ Window \in Nat \ {0} /\ Second \in Nat \ {0}
  BY ThrottlerAssumption
<1>1. ASSUME NEW c \in Clients PROVE Client(c)
  <2>1. Ordered(<<>>) /\ Len(<<>>) = 0
    BY DEF Ordered
  <2>2. [n \in 1..Limit + 1 |-> Window] \in Events
    BY <1>0 DEF Events
  <2>3. Remembers(<<>>, [n \in 1..Limit + 1 |-> Window])
    BY <1>0, <2>1 DEF Remembers
  <2>4. None \in 0..None
    BY <1>0 DEF None
  <2> QED  BY <2>1, <2>2, <2>3, <2>4 DEF Init, Client, Covers
<1> QED  BY <1>1, ClientsInvariant DEF Init

LEMMA AcceptKeeps ==
  ASSUME IInv, NEW c \in Clients, NEW cleans \in BOOLEAN, Accept(c, cleans)
  PROVE  IInv'
<1> DEFINE recent == Recent(requestCounts[c])
           counts == [requestCounts EXCEPT ![c] = Recorded(recent)]
           e == [n \in 1..Limit + 1 |-> IF n = 1 THEN 0 ELSE served[c][n - 1]]
<1>0. /\ Limit \in Nat \ {0} /\ Window \in Nat \ {0} /\ Second \in Nat \ {0}
      /\ None \in 0..None /\ 0 \in 0..Window
  BY ThrottlerAssumption DEF None
<1>1. /\ ~IsFull(recent)
      /\ requestCounts' = IF cleans THEN Cleaned(counts) ELSE counts
      /\ served' = [served EXCEPT ![c] = e]
      /\ promised' = [promised EXCEPT ![c] = None] /\ connected' = connected
  BY DEF Accept, Serves
<1>2. \A d \in Clients : Client(d)
  BY ClientsInvariant
<1>3. /\ DOMAIN requestCounts = Clients /\ DOMAIN served = Clients
      /\ DOMAIN connected = Clients /\ DOMAIN promised = Clients
      /\ connected = [d \in Clients |-> connected[d]]
  BY ClientsInvariant
<1>4. Ordered(recent) /\ Remembers(recent, served[c])
  BY <1>2, RecentRemembers DEF Client
<1>5. Ordered(Recorded(recent)) /\ Remembers(Recorded(recent), e)
  BY <1>1, <1>4, RecordedRemembers
<1>6. e \in Events
  <2>1. \A n \in 1..Limit + 1 : n # 1 => n - 1 \in 1..Limit + 1
    BY <1>0
  <2>2. \A n \in 1..Limit + 1 : served[c][n] \in 0..Window
    BY <1>2 DEF Client, Events
  <2> QED  BY <1>0, <2>1, <2>2 DEF Events
<1> HIDE DEF recent, e
<1>7. ASSUME NEW d \in Clients
      PROVE  Ordered(counts[d]) /\ Remembers(counts[d], served'[d])
  BY <1>1, <1>2, <1>3, <1>5 DEF Client
<1>8. ASSUME NEW d \in Clients
      PROVE  /\ Ordered(Recent(counts[d])) /\ Remembers(Recent(counts[d]), served'[d])
  BY <1>7, RecentRemembers
<1>9. DOMAIN counts = Clients /\ counts = [d \in Clients |-> counts[d]]
  BY <1>3
<1>10. /\ DOMAIN requestCounts' = Clients
       /\ requestCounts' = [d \in Clients |-> requestCounts'[d]]
       /\ \A d \in Clients : requestCounts'[d] = counts[d] \/ requestCounts'[d] = Recent(counts[d])
  BY <1>1, <1>9 DEF Cleaned
<1> HIDE DEF counts
<1>11. ASSUME NEW d \in Clients PROVE Client(d)'
  <2>1. Ordered(requestCounts'[d]) /\ Remembers(requestCounts'[d], served'[d])
    BY <1>7, <1>8, <1>10
  <2>2. served'[d] \in Events
    BY <1>1, <1>2, <1>3, <1>6 DEF Client
  <2>3. /\ connected'[d] \in BOOLEAN /\ promised'[d] \in 0..None
        /\ Covers(promised'[d], served'[d])
    <3>1. CASE d = c
      BY <1>0, <1>1, <1>2, <1>3, <3>1 DEF Client, Covers
    <3>2. CASE d # c
      BY <1>1, <1>2, <1>3, <3>2 DEF Client
    <3> QED  BY <3>1, <3>2
  <2> QED  BY <2>1, <2>2, <2>3 DEF Client, Ordered, Remembers, Covers, Events, None
<1> QED
  <2>1. /\ DOMAIN served' = Clients /\ served' = [d \in Clients |-> served'[d]]
        /\ DOMAIN promised' = Clients /\ promised' = [d \in Clients |-> promised'[d]]
        /\ DOMAIN connected' = Clients /\ connected' = [d \in Clients |-> connected'[d]]
    BY <1>1, <1>3
  <2> QED  BY <1>10, <1>11, <2>1 DEF IInv, TypeOK, Client, Ordered, Events

\* Math.ceil: what is promised reaches over, by less than a second.
LEMMA RoundedUp ==
  ASSUME NEW a \in Nat, NEW b \in Nat \ {0}
  PROVE  ((a + b - 1) \div b) * b \in a..a + b - 1
  OBVIOUS

LEMMA RejectKeeps ==
  ASSUME IInv, NEW c \in Clients, Reject(c)
  PROVE  IInv' /\ Recently(Limit, c)
<1> DEFINE recent == Recent(requestCounts[c])
           ticks == RetryAfter(recent) * Second
<1>0. /\ Limit \in Nat \ {0} /\ Window \in Nat \ {0} /\ Second \in Nat \ {0}
      /\ None = Window + Second + 1
  BY ThrottlerAssumption DEF None
<1>1. /\ IsFull(recent)
      /\ promised' = [promised EXCEPT ![c] = IF ticks < promised[c] THEN ticks ELSE promised[c]]
      /\ UNCHANGED <<requestCounts, connected, served>>
  BY DEF Reject
<1>2. /\ \A d \in Clients : Client(d)
      /\ DOMAIN promised = Clients /\ promised = [d \in Clients |-> promised[d]]
  BY ClientsInvariant
<1>3. /\ served[c][Limit] = Head(recent) /\ served[c][Limit] \in 0..Window
      /\ served[c][Limit] < Window
  BY <1>1, <1>2, FullIsBurst DEF Client
<1> HIDE DEF recent
<1>4. /\ ticks \in 0..None /\ served[c][Limit] + ticks >= Window
  <2> DEFINE left == Window - Head(recent)
  <2>1. left \in Nat /\ left <= Window
    BY <1>0, <1>3
  <2> HIDE DEF left
  <2>2. ticks = ((left + Second - 1) \div Second) * Second
    BY DEF RetryAfter, left
  <2>3. ticks \in left..left + Second - 1
    BY <1>0, <2>1, <2>2, RoundedUp
  <2> HIDE DEF ticks
  <2> QED  BY <1>0, <1>3, <2>1, <2>3 DEF left
<1> HIDE DEF ticks
<1>5. ASSUME NEW d \in Clients
      PROVE  promised'[d] \in 0..None /\ Covers(promised'[d], served[d])
  <2>1. promised[d] \in 0..None /\ Covers(promised[d], served[d])
    BY <1>2 DEF Client
  <2>2. promised'[d] = promised[d] \/ (d = c /\ promised'[d] = ticks)
    BY <1>1, <1>2
  <2> QED  BY <1>4, <2>1, <2>2 DEF Covers
<1>6. promised' = [d \in Clients |-> promised'[d]]
  BY <1>1, <1>2
<1>7. IInv'
  BY <1>1, <1>5, <1>6 DEF IInv, TypeOK, Remembers, Covers, None
<1> QED  BY <1>3, <1>7 DEF Recently

LEMMA DisconnectKeeps ==
  ASSUME IInv, NEW c \in Clients, Disconnect(c)
  PROVE  IInv'
<1>0. None \in 0..None
  BY ThrottlerAssumption DEF None
<1>1. /\ connected' = [connected EXCEPT ![c] = FALSE]
      /\ promised' = [promised EXCEPT ![c] = None]
      /\ UNCHANGED <<requestCounts, served>>
  BY DEF Disconnect
<1>2. /\ connected' \in [Clients -> BOOLEAN] /\ promised' \in [Clients -> 0..None]
  BY <1>0, <1>1 DEF IInv, TypeOK
<1>3. \A d \in Clients : promised'[d] = promised[d] \/ promised'[d] = None
  BY <1>1 DEF IInv, TypeOK
<1> QED  BY <1>1, <1>2, <1>3 DEF IInv, TypeOK, Remembers, Covers, None

LEMMA TickKeeps == ASSUME IInv, Tick PROVE IInv'
<1>0. /\ Limit \in Nat \ {0} /\ Window \in Nat \ {0} /\ Second \in Nat \ {0}
      /\ None = Window + Second + 1
  BY ThrottlerAssumption DEF None
<1>1. \A c \in Clients : Client(c)
  BY ClientsInvariant
<1>2. ASSUME NEW c \in Clients
      PROVE  Ordered(requestCounts'[c]) /\ Remembers(requestCounts'[c], served'[c])
  <2>1. /\ requestCounts'[c] = [i \in 1..Len(requestCounts[c]) |-> Older(requestCounts[c][i])]
        /\ served'[c] = [n \in 1..Limit + 1 |-> Older(served[c][n])]
    BY DEF Tick
  <2>2. /\ Ordered(requestCounts[c]) /\ served[c] \in Events
        /\ Remembers(requestCounts[c], served[c])
    BY <1>1 DEF Client
  <2> QED  BY <2>1, <2>2, OlderRemembers
<1>3. ASSUME NEW c \in Clients PROVE served'[c] \in Events
  <2>1. \A n \in 1..Limit + 1 : served[c][n] \in 0..Window
    BY <1>1 DEF Client, Events
  <2>2. served'[c] = [n \in 1..Limit + 1 |-> Older(served[c][n])]
    BY DEF Tick
  <2>3. \A a \in 0..Window : Older(a) \in 0..Window
    BY <1>0 DEF Older
  <2> QED  BY <2>1, <2>2, <2>3 DEF Events
<1>4. ASSUME NEW c \in Clients
      PROVE  promised'[c] \in 0..None /\ Covers(promised'[c], served'[c])
  <2>1. /\ promised[c] \in 0..None /\ served[c][Limit] \in 0..Window
        /\ promised[c] # None => served[c][Limit] + promised[c] >= Window
    BY <1>0, <1>1 DEF Client, Covers, Events
  <2>2. /\ promised'[c] = IF promised[c] \in 1..None - 1 THEN promised[c] - 1 ELSE promised[c]
        /\ served'[c][Limit] = Older(served[c][Limit])
    BY <1>0 DEF Tick
  <2>3. promised'[c] \in 0..None
    BY <1>0, <2>1, <2>2
  <2>4. promised'[c] # None => served'[c][Limit] + promised'[c] >= Window
    BY <1>0, <2>1, <2>2 DEF Older
  <2> QED  BY <2>3, <2>4 DEF Covers
<1>5. /\ requestCounts' = [c \in Clients |-> requestCounts'[c]]
      /\ served' = [c \in Clients |-> served'[c]]
      /\ promised' = [c \in Clients |-> promised'[c]]
      /\ connected' \in [Clients -> BOOLEAN]
  BY DEF Tick, IInv, TypeOK
<1> QED  BY <1>2, <1>3, <1>4, <1>5 DEF IInv, TypeOK, Ordered, Remembers, Covers, Events, None

LEMMA StepIsInvariant == ASSUME IInv, [Next]_vars PROVE IInv'
<1>1. ASSUME NEW c \in Clients, Event(c) PROVE IInv'
  BY <1>1, AcceptKeeps, RejectKeeps DEF Event
<1>2. CASE UNCHANGED vars
  BY <1>2 DEF vars, IInv, TypeOK, Remembers, Covers, None
<1> QED  BY <1>1, <1>2, DisconnectKeeps, TickKeeps DEF Next

LEMMA Invariant == Spec => []IInv
  BY InitIsInvariant, StepIsInvariant, PTL DEF Spec
-----------------------------------------------------------------------------
(***************************************************************************)
(* The theorems.                                                           *)
(***************************************************************************)
\* The lists, the history and the promises keep their types, and a list its
\* order: the oldest event stands first, where retryAfter looks for it.
THEOREM ThrottlerTypeCorrect == Spec => []TypeOK
<1>1. IInv => TypeOK
  BY DEF IInv
<1> QED  BY <1>1, Invariant, PTL

\* However events, cleanups, disconnections and time fall, at most Limit events
\* of a socket are let through in any stretch of Window ticks.
THEOREM LimitIsKept == Spec => []AtMostLimit
<1>1. IInv => AtMostLimit
  <2> SUFFICES ASSUME IInv, NEW c \in Clients PROVE ~Recently(Limit + 1, c)
    BY DEF AtMostLimit
  <2>1. Remembers(requestCounts[c], served[c]) /\ Ordered(requestCounts[c])
    BY ClientsInvariant DEF Client
  <2>2. Limit + 1 \in 1..Limit + 1 /\ Limit \in Nat /\ Window \in Nat
        /\ Len(requestCounts[c]) \in Nat /\ Len(requestCounts[c]) <= Limit
    BY <2>1, ThrottlerAssumption DEF Ordered, Remembers
  <2>3. served[c][Limit + 1] = Window
    BY <2>1, <2>2 DEF Remembers
  <2> QED  BY <2>2, <2>3 DEF Recently
<1> QED  BY <1>1, Invariant, PTL

\* A socket that has waited for a retryAfter it was told is let through,
\* whatever it tried meanwhile and however seconds are rounded.
THEOREM WaitSuffices == Spec => []RetryAfterSuffices
<1>1. IInv => RetryAfterSuffices
  <2> SUFFICES ASSUME IInv, NEW c \in Clients, promised[c] = 0,
                      IsFull(Recent(requestCounts[c]))
               PROVE  FALSE
    BY DEF RetryAfterSuffices
  <2>0. Window \in Nat /\ None # 0
    BY ThrottlerAssumption DEF None
  <2>1. Client(c)
    BY ClientsInvariant
  <2>2. served[c][Limit] \in 0..Window /\ served[c][Limit] < Window
    BY <2>1, FullIsBurst DEF Client
  <2>3. served[c][Limit] + 0 >= Window
    BY <2>0, <2>1 DEF Client, Covers
  <2> QED  BY <2>0, <2>2, <2>3
<1> QED  BY <1>1, Invariant, PTL

\* An event is rejected only if Limit events really were let through in the
\* last Window ticks.
THEOREM OnlyBursts == Spec => OnlyBurstsRejected
<1>1. ASSUME IInv, [Next]_vars
      PROVE  [\A c \in Clients : Reject(c) => Recently(Limit, c)]_vars
  BY <1>1, RejectKeeps
<1> QED  BY <1>1, Invariant, PTL DEF Spec, OnlyBurstsRejected
=============================================================================
