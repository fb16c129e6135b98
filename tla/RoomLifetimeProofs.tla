------------------------- MODULE RoomLifetimeProofs -------------------------
(***************************************************************************)
(* Theorems about RoomController: for every number of sockets, every       *)
(* choice of the two TTLs, and however long rooms are used.                *)
(***************************************************************************)
EXTENDS RoomController, TLAPS

\* Only the sets are ever without a TTL.
Bounded == \A k \in RoomKeys \ {"members", "ready"} : ttl[k] <= Full

\* What TokenExpiresFirst rests on besides itself: an empty set is gone, so that
\* the first to join starts a new one; nobody who is not here is a member, so
\* the connection that a returning owner replaces is the one the owner has; and
\* the time to come back is part of the token's and of the cookie's.
Kept ==
  /\ Present("token") =>
       /\ ttl["token"] <= ttl["config"] /\ ttl["token"] <= ttl["title"]
       /\ \A s \in Sockets : Here(s) =>
            /\ s \in members /\ ttl["token"] <= ttl["members"]
            /\ ttl["token"] <= infoTtl[s]
            /\ s \in OwnerSockets => ttl["token"] <= ttl["owner"]
       /\ ttl["owner"] = 0 \/ ttl["token"] <= ttl["owner"]
       /\ \A s \in members : Here(s)
       /\ \A s, u \in OwnerSockets : place[s] # "away" /\ place[u] # "away" => s = u
  /\ \A s \in closing : place[s] = "away"
  /\ members = {} => ttl["members"] = 0
  /\ promise <= ttl["token"] /\ promise <= cookie

LifeInv == LifeTypeOK /\ Bounded /\ Kept

LEMMA KeyFacts ==
  /\ {"token", "title", "config", "owner", "members", "ready"} \subseteq RoomKeys
  /\ Full \in Nat /\ Grace \in Nat /\ Grace > 0 /\ Grace <= Full
  /\ OwnerSockets \subseteq Sockets /\ Forever = Full + 1 /\ Forever \in Nat
BY LifetimeAssumption DEF Forever, DecisiveKeys

\* The operators on TTLs.
LEMMA TtlTypes ==
  ASSUME NEW f \in [RoomKeys -> 0..Forever], NEW K
  PROVE  /\ Stored(f, K) \in [RoomKeys -> 0..Forever]
         /\ Deleted(f, K) \in [RoomKeys -> 0..Forever]
         /\ Extended(f) \in [RoomKeys -> 0..Forever]
BY KeyFacts, SMT DEF Stored, Deleted, Extended

LEMMA ResizedType ==
  ASSUME NEW f \in [RoomKeys -> 0..Forever], NEW k \in RoomKeys, NEW S
  PROVE  Resized(f, k, S) \in [RoomKeys -> 0..Forever]
BY KeyFacts, SMT DEF Resized

LEMMA InitLife == ASSUME LifeInit PROVE LifeInv
BY KeyFacts, SMT DEF LifeInit, LifeInv, LifeTypeOK, Bounded, Kept, Present, Here

LEMMA AgeKeeps == ASSUME LifeInv, Age PROVE LifeInv'
<1> USE KeyFacts
<1>1. LifeTypeOK'
  BY SMT DEF LifeInv, LifeTypeOK, Age, Older
<1>2. Bounded'
  BY SMT DEF LifeInv, LifeTypeOK, Bounded, Age, Older
<1>3. Kept'
  BY SMT DEF LifeInv, LifeTypeOK, Bounded, Kept, Present, Here, Age, Older
<1> QED BY <1>1, <1>2, <1>3 DEF LifeInv

LEMMA JoinedTypes ==
  ASSUME LifeTypeOK, NEW s \in Sockets, NEW f \in [RoomKeys -> 0..Forever], Joined(s, f)
  PROVE  /\ ttl' \in [RoomKeys -> 0..Forever]
         /\ infoTtl' \in [Sockets -> 0..Full]
         /\ members' \in SUBSET Sockets
         /\ place' \in [Sockets -> {"away", "joining", "here"}]
<1>1. ttl' \in [RoomKeys -> 0..Forever]
  <2>1. Resized(f, "members", members \cup {s}) \in [RoomKeys -> 0..Forever]
    BY KeyFacts, ResizedType
  <2> QED BY <2>1, TtlTypes DEF Joined
<1>2. infoTtl' \in [Sockets -> 0..Full]
  BY KeyFacts, SMT DEF LifeTypeOK, Joined
<1>3. members' \in SUBSET Sockets /\ place' \in [Sockets -> {"away", "joining", "here"}]
  BY DEF LifeTypeOK, Joined
<1> QED BY <1>1, <1>2, <1>3

\* The keys after a join.
LEMMA JoinedTtls ==
  ASSUME LifeTypeOK, NEW s \in Sockets, NEW f \in [RoomKeys -> 0..Forever], Joined(s, f)
  PROVE  /\ \A k \in {"token", "title", "owner"} : ttl'[k] = f[k]
         /\ ttl'["config"] = IF f["config"] = 0 THEN Full ELSE f["config"]
         /\ ttl'["members"] = IF f["members"] = 0 THEN Forever ELSE f["members"]
BY KeyFacts, SMT DEF LifeTypeOK, Joined, Stored, Resized

LEMMA ParticipantJoinsKeeps == ASSUME LifeInv, NEW s \in Sockets, ParticipantJoins(s) PROVE LifeInv'
<1> USE KeyFacts
<1>1. LifeTypeOK'
  <2>1. PICK unnamed \in BOOLEAN :
          Joined(s, IF unnamed THEN Stored(ttl, {"counter"}) ELSE ttl)
    BY DEF ParticipantJoins
  <2>2. (IF unnamed THEN Stored(ttl, {"counter"}) ELSE ttl) \in [RoomKeys -> 0..Forever]
    BY TtlTypes DEF LifeInv, LifeTypeOK
  <2> QED BY <2>1, <2>2, JoinedTypes DEF LifeInv, LifeTypeOK, ParticipantJoins
<1>2. Bounded'
  BY SMT DEF LifeInv, LifeTypeOK, Bounded, ParticipantJoins, New, Joined, Stored, Resized
<1>3. Kept'
  <2>1. PICK unnamed \in BOOLEAN :
          Joined(s, IF unnamed THEN Stored(ttl, {"counter"}) ELSE ttl)
    BY DEF ParticipantJoins
  <2> DEFINE f == IF unnamed THEN Stored(ttl, {"counter"}) ELSE ttl
  <2>2. f \in [RoomKeys -> 0..Forever]
    BY TtlTypes DEF LifeInv, LifeTypeOK
  <2>3. \A k \in DecisiveKeys : f[k] = ttl[k]
    BY SMT DEF LifeInv, LifeTypeOK, Stored, DecisiveKeys
  <2> HIDE DEF f
  <2>4. /\ ttl'["token"] = ttl["token"] /\ ttl'["title"] = ttl["title"]
        /\ ttl'["owner"] = ttl["owner"] /\ ttl'["config"] = ttl["config"]
        /\ ttl'["members"] = IF ttl["members"] = 0 THEN Forever ELSE ttl["members"]
    <3>1. Joined(s, f)
      BY <2>1 DEF f
    <3> QED BY <2>2, <2>3, <3>1, JoinedTtls, SMT
            DEF LifeInv, LifeTypeOK, DecisiveKeys, ParticipantJoins, Present
  <2>5. /\ s \notin OwnerSockets /\ s \notin closing
        /\ members' = members \cup {s} /\ closing' = closing /\ promise' = promise
        /\ cookie' = cookie
        /\ infoTtl' = [infoTtl EXCEPT ![s] = Full]
        /\ place' = [place EXCEPT ![s] = "here"]
    BY DEF ParticipantJoins, New, Joined
  <2>6. ttl["token"] <= Full /\ ttl["token"] \in Nat /\ place \in [Sockets -> {"away", "joining", "here"}]
        /\ infoTtl \in [Sockets -> 0..Full] /\ members \subseteq Sockets
    BY SMT DEF LifeInv, LifeTypeOK, Bounded
  <2>7. Kept
    BY DEF LifeInv
  <2>8. ttl'["token"] <= Full /\ ttl["members"] \in Nat /\ ttl["owner"] \in Nat
    BY <2>4, <2>6, SMT DEF LifeInv, LifeTypeOK
  <2>9. ASSUME Present("token"), NEW u \in Sockets, Here(u)'
        PROVE  /\ u \in members'
               /\ ttl'["token"] <= ttl'["members"] /\ ttl'["token"] <= infoTtl'[u]
               /\ u \in OwnerSockets => ttl'["token"] <= ttl'["owner"]
    <3>1. CASE u = s
      <4>1. ttl'["token"] <= ttl'["members"]
        <5>1. CASE members = {}
          BY <2>4, <2>6, <2>7, <5>1, SMT DEF Kept
        <5>2. CASE members # {}
          <6>1. PICK m \in members : Here(m) /\ m \in Sockets
            BY <2>6, <2>7, <2>9, <5>2 DEF Kept
          <6>2. ttl["token"] <= ttl["members"]
            BY <2>7, <2>9, <6>1 DEF Kept
          <6> QED BY <2>4, <2>6, <2>8, <6>2, SMT
        <5> QED BY <5>1, <5>2
      <4> QED BY <2>4, <2>5, <2>6, <2>8, <3>1, <4>1, SMT DEF Here
    <3>2. CASE u # s
      BY <2>4, <2>5, <2>6, <2>7, <2>8, <2>9, <3>2, SMT DEF Kept, Present, Here
    <3> QED BY <3>1, <3>2
  <2> QED BY <2>4, <2>5, <2>6, <2>7, <2>9, SMT DEF Kept, Present, Here
<1> QED BY <1>1, <1>2, <1>3 DEF LifeInv

LEMMA OwnerAsksKeeps == ASSUME LifeInv, NEW s \in Sockets, OwnerAsks(s) PROVE LifeInv'
<1> USE KeyFacts
<1>1. LifeTypeOK'
  BY TtlTypes, ResizedType, SMT DEF LifeInv, LifeTypeOK, OwnerAsks, ActiveOwners, New, Resized
<1>2. Bounded'
  BY SMT DEF LifeInv, LifeTypeOK, Bounded, OwnerAsks, ActiveOwners, New, Resized
<1>3. Kept'
  BY SMT DEF LifeInv, LifeTypeOK, Bounded, Kept, Present, Here, OwnerAsks, ActiveOwners, New, Resized
<1> QED BY <1>1, <1>2, <1>3 DEF LifeInv

LEMMA OwnerEntersKeeps == ASSUME LifeInv, NEW s \in Sockets, OwnerEnters(s) PROVE LifeInv'
<1> USE KeyFacts
<1>1. LifeTypeOK'
  <2> DEFINE f(unnamed) == IF unnamed THEN Deleted(ttl, {"nickname"}) ELSE ttl
             g(unnamed) == IF Present("owner") THEN f(unnamed) ELSE Stored(f(unnamed), {"owner"})
  <2>1. PICK unnamed \in BOOLEAN : Joined(s, g(unnamed))
    BY DEF OwnerEnters
  <2>2. f(unnamed) \in [RoomKeys -> 0..Forever]
    BY TtlTypes DEF LifeInv, LifeTypeOK
  <2>3. g(unnamed) \in [RoomKeys -> 0..Forever]
    BY <2>2, TtlTypes
  <2> QED BY <2>1, <2>3, JoinedTypes DEF LifeInv, LifeTypeOK, OwnerEnters
<1>2. Bounded'
  BY SMT DEF LifeInv, LifeTypeOK, Bounded, OwnerEnters, Joined, Stored, Deleted, Resized
<1>3. Kept'
  <2> DEFINE f(unnamed) == IF unnamed THEN Deleted(ttl, {"nickname"}) ELSE ttl
             g(unnamed) == IF Present("owner") THEN f(unnamed) ELSE Stored(f(unnamed), {"owner"})
  <2>1. PICK unnamed \in BOOLEAN : Joined(s, g(unnamed))
    BY DEF OwnerEnters
  <2>2. g(unnamed) \in [RoomKeys -> 0..Forever]
    BY TtlTypes DEF LifeInv, LifeTypeOK
  <2>3. /\ \A k \in {"token", "title", "config", "members"} : g(unnamed)[k] = ttl[k]
        /\ g(unnamed)["owner"] = IF ttl["owner"] > 0 THEN ttl["owner"] ELSE Full
    BY SMT DEF LifeInv, LifeTypeOK, Stored, Deleted, Present
  <2> HIDE DEF g
  <2>4. /\ ttl'["token"] = ttl["token"] /\ ttl'["title"] = ttl["title"]
        /\ ttl'["owner"] = IF ttl["owner"] > 0 THEN ttl["owner"] ELSE Full
        /\ ttl'["config"] = IF ttl["config"] = 0 THEN Full ELSE ttl["config"]
        /\ ttl'["members"] = IF ttl["members"] = 0 THEN Forever ELSE ttl["members"]
    BY <2>1, <2>2, <2>3, JoinedTtls, SMT DEF LifeInv
  <2>5. /\ place[s] = "joining"
        /\ members' = members \cup {s} /\ closing' = closing /\ promise' = promise
        /\ cookie' = cookie
        /\ infoTtl' = [infoTtl EXCEPT ![s] = Full]
        /\ place' = [place EXCEPT ![s] = "here"]
    BY DEF OwnerEnters, Joined
  <2>6. ttl["token"] <= Full /\ ttl["token"] \in Nat /\ place \in [Sockets -> {"away", "joining", "here"}]
        /\ infoTtl \in [Sockets -> 0..Full] /\ members \subseteq Sockets
    BY SMT DEF LifeInv, LifeTypeOK, Bounded
  <2>7. Kept
    BY DEF LifeInv
  <2>8. ttl'["token"] <= Full /\ ttl["members"] \in Nat /\ ttl["owner"] \in Nat
    BY <2>4, <2>6, SMT DEF LifeInv, LifeTypeOK
  <2>9. ASSUME Present("token"), NEW u \in Sockets, Here(u)'
        PROVE  /\ u \in members'
               /\ ttl'["token"] <= ttl'["members"] /\ ttl'["token"] <= infoTtl'[u]
               /\ u \in OwnerSockets => ttl'["token"] <= ttl'["owner"]
    <3>1. CASE u = s
      <4>1. ttl'["token"] <= ttl'["members"]
        <5>1. CASE members = {}
          BY <2>4, <2>6, <2>7, <5>1, SMT DEF Kept
        <5>2. CASE members # {}
          <6>1. PICK m \in members : Here(m) /\ m \in Sockets
            BY <2>6, <2>7, <2>9, <5>2 DEF Kept
          <6>2. ttl["token"] <= ttl["members"]
            BY <2>7, <2>9, <6>1 DEF Kept
          <6>3. ttl["token"] \in Nat /\ ttl["token"] > 0
            BY <2>6, <2>9, SMT DEF Present
          <6>4. ttl["members"] # 0
            BY <2>8, <6>2, <6>3, SMT
          <6>5. ttl'["members"] = ttl["members"] /\ ttl'["token"] = ttl["token"]
            BY <2>4, <6>4
          <6> QED BY <6>2, <6>5
        <5> QED BY <5>1, <5>2
      <4>2. ttl'["token"] <= ttl'["owner"]
        BY <2>4, <2>6, <2>7, <2>8, <2>9, SMT DEF Kept
      <4>3. s \in members' /\ ttl'["token"] <= infoTtl'[s]
        BY <2>4, <2>5, <2>6, SMT
      <4> QED BY <3>1, <4>1, <4>2, <4>3
    <3>2. CASE u # s
      BY <2>4, <2>5, <2>6, <2>7, <2>8, <2>9, <3>2, SMT DEF Kept, Present, Here
    <3> QED BY <3>1, <3>2
  <2> QED BY <2>4, <2>5, <2>6, <2>7, <2>9, SMT DEF Kept, Present, Here
<1> QED BY <1>1, <1>2, <1>3 DEF LifeInv

LEMMA ReturnIsBounded ==
  ASSUME LifeTypeOK
  PROVE  TimeToReturn \in 0..Grace /\ TimeToReturn <= cookie
BY KeyFacts, SMT DEF LifeTypeOK, TimeToReturn

\* What a clean-up leaves of the room, of an owner and of a participant.
LEMMA CleanUpTtls ==
  ASSUME LifeInv, NEW s \in Sockets, NEW gone \in SUBSET {"owner"}, CleanUp(s, gone)
  PROVE  /\ ttl' \in [RoomKeys -> 0..Forever]
         /\ infoTtl' \in [Sockets -> 0..Full]
         /\ promise' \in 0..Grace
         /\ Bounded'
<1> DEFINE M == members \ {s}
           R == ready \ {s}
           f == Deleted(Resized(Resized(ttl, "members", M), "ready", R), gone)
           g == [infoTtl EXCEPT ![s] = 0]
<1> USE KeyFacts
<1>1. Resized(ttl, "members", M) \in [RoomKeys -> 0..Forever]
  BY ResizedType DEF LifeInv, LifeTypeOK
<1>2. f \in [RoomKeys -> 0..Forever]
  BY <1>1, ResizedType, TtlTypes
<1>3. g \in [Sockets -> 0..Full]
  BY SMT DEF LifeInv, LifeTypeOK
<1>4. \A k \in RoomKeys \ {"members", "ready"} : f[k] <= Full
  BY SMT DEF LifeInv, LifeTypeOK, Bounded, Deleted, Resized
<1> HIDE DEF f, g
<1>5. CASE s \in OwnerSockets
  <2>1. ttl' = Extended(f) /\ infoTtl' = ExtendedInfos(g, M)
    BY <1>5 DEF CleanUp, f, g
  <2>2. promise' \in 0..Grace
    BY <1>5, ReturnIsBounded, Zenon DEF CleanUp, LifeInv, LifeTypeOK
  <2>3. ttl' \in [RoomKeys -> 0..Forever] /\ Bounded'
    BY <1>2, <2>1, SMT DEF Extended, Bounded
  <2>4. infoTtl' \in [Sockets -> 0..Full]
    BY <1>3, <2>1, SMT DEF ExtendedInfos
  <2> QED BY <2>2, <2>3, <2>4
<1>6. CASE s \notin OwnerSockets
  <2>1. ttl' = f /\ infoTtl' = g /\ promise' = promise
    BY <1>6 DEF CleanUp, f, g
  <2> QED BY <1>2, <1>3, <1>4, <2>1, SMT DEF Bounded, LifeInv, LifeTypeOK
<1> QED BY <1>5, <1>6

LEMMA CleanUpKeeps ==
  ASSUME LifeInv, NEW s \in Sockets, NEW gone \in SUBSET {"owner"}, CleanUp(s, gone)
  PROVE  /\ promise' <= ttl'["token"] /\ promise' <= cookie
         /\ members' = {} => ttl'["members"] = 0
         /\ ttl'["token"] > 0 =>
              /\ ttl["token"] > 0
              /\ ttl'["token"] <= ttl'["config"] /\ ttl'["token"] <= ttl'["title"]
              /\ ttl'["owner"] = 0 \/ ttl'["token"] <= ttl'["owner"]
              /\ \A u \in members \ {s} :
                   /\ ttl'["token"] <= ttl'["members"]
                   /\ ttl'["token"] <= infoTtl'[u]
                   /\ u \in OwnerSockets /\ gone = {} => ttl'["token"] <= ttl'["owner"]
<1> DEFINE M == members \ {s}
           R == ready \ {s}
           f == Deleted(Resized(Resized(ttl, "members", M), "ready", R), gone)
           g == [infoTtl EXCEPT ![s] = 0]
<1> USE KeyFacts
<1>1. /\ \A k \in {"token", "config", "title"} : f[k] = ttl[k]
      /\ f["owner"] = IF gone = {} THEN ttl["owner"] ELSE 0
      /\ M # {} /\ ttl["members"] > 0 => f["members"] = ttl["members"]
      /\ M = {} => f["members"] = 0
  BY SMT DEF LifeInv, LifeTypeOK, Deleted, Resized
<1>2. \A u \in M : g[u] = infoTtl[u]
  BY SMT DEF LifeInv, LifeTypeOK
<1>3. M \subseteq Sockets /\ ttl \in [RoomKeys -> 0..Forever] /\ promise \in 0..Grace
      /\ infoTtl \in [Sockets -> 0..Full]
  BY DEF LifeInv, LifeTypeOK
<1>4. ttl["token"] > 0 =>
        /\ ttl["token"] <= ttl["config"] /\ ttl["token"] <= ttl["title"]
        /\ ttl["owner"] = 0 \/ ttl["token"] <= ttl["owner"]
        /\ \A u \in M : /\ ttl["token"] <= ttl["members"]
                        /\ ttl["token"] <= infoTtl[u]
                        /\ u \in OwnerSockets => ttl["token"] <= ttl["owner"]
  BY <1>3, SMT DEF LifeInv, Kept, Present, Here
<1>5. /\ promise <= ttl["token"] /\ promise <= cookie
      /\ TimeToReturn \in 0..Grace /\ TimeToReturn <= cookie
  BY ReturnIsBounded DEF LifeInv, Kept
<1> HIDE DEF f, g, M
<1>6. CASE s \in OwnerSockets
  <2>1. /\ ttl' = Extended(f) /\ infoTtl' = ExtendedInfos(g, M)
        /\ promise' = IF ttl["token"] > 0 THEN TimeToReturn ELSE promise
    BY <1>6, Zenon DEF CleanUp, f, g, M, R, Present
  <2>2. \A k \in {"token", "config", "title", "owner", "members"} :
           ttl'[k] = IF f[k] = 0 THEN 0 ELSE Grace
    BY <2>1, SMT DEF Extended
  <2>3. \A u \in M : infoTtl'[u] = IF g[u] # 0 THEN Grace ELSE 0
    BY <1>3, <2>1, SMT DEF ExtendedInfos
  <2>4. \A u \in M : ttl["token"] > 0 => f["members"] # 0 /\ g[u] # 0
    BY <1>1, <1>2, <1>3, <1>4, SMT
  <2>5. ttl["token"] > 0 => f["config"] # 0 /\ f["title"] # 0
    BY <1>1, <1>3, <1>4, SMT
  <2>6. \A u \in M \cap OwnerSockets : ttl["token"] > 0 /\ gone = {} => f["owner"] # 0
    BY <1>1, <1>3, <1>4, SMT
  <2>7. f["token"] = ttl["token"] /\ ttl["token"] \in Nat
    BY <1>1, <1>3, SMT
  <2>8. promise' <= ttl'["token"] /\ promise' <= cookie
    BY <1>3, <1>5, <2>1, <2>2, <2>7, SMT
  <2>9. ttl["token"] = 0 => ttl'["token"] = 0
    BY <2>2, <2>7, SMT
  <2>10. members' = {} => ttl'["members"] = 0
    BY <1>1, <2>2, Zenon DEF CleanUp, M
  <2> QED BY <2>2, <2>3, <2>4, <2>5, <2>6, <2>7, <2>8, <2>9, <2>10, SMT DEF M
<1>7. CASE s \notin OwnerSockets
  <2>1. ttl' = f /\ infoTtl' = g /\ promise' = promise /\ members' = M
    BY <1>7, Zenon DEF CleanUp, f, g, M, R
  <2> QED BY <1>1, <1>2, <1>3, <1>4, <1>5, <2>1, SMT DEF M
<1> QED BY <1>6, <1>7

LEMMA DropsKeeps == ASSUME LifeInv, NEW s \in Sockets, Drops(s) PROVE LifeInv'
<1> USE KeyFacts
<1>1. PICK gone \in SUBSET {"owner"} :
        CleanUp(s, gone) /\ gone = {}
  BY Zenon DEF Drops
<1>2. /\ members' = members \ {s} /\ ready' = ready \ {s} /\ cookie' = cookie
      /\ closing' = closing /\ place' = [place EXCEPT ![s] = "away"]
  BY <1>1 DEF Drops, Away, CleanUp
<1>3. LifeTypeOK' /\ Bounded'
  BY <1>1, <1>2, CleanUpTtls, SMT DEF LifeInv, LifeTypeOK
<1>4. Kept'
  BY <1>1, <1>2, <1>3, CleanUpKeeps, SMT DEF LifeInv, LifeTypeOK, Kept, Present, Here
<1> QED BY <1>3, <1>4 DEF LifeInv

LEMMA DropsUnknownKeeps == ASSUME LifeInv, NEW s \in Sockets, DropsUnknown(s) PROVE LifeInv'
<1> USE KeyFacts
<1>1. LifeTypeOK'
  BY TtlTypes, ResizedType, SMT DEF LifeInv, LifeTypeOK, DropsUnknown, Away
<1>2. Bounded'
  BY SMT DEF LifeInv, LifeTypeOK, Bounded, DropsUnknown, Away
<1>3. Kept'
  BY SMT DEF LifeInv, LifeTypeOK, Bounded, Kept, Present, Here, DropsUnknown, Away
<1> QED BY <1>1, <1>2, <1>3 DEF LifeInv

LEMMA OwnerLeavesKeeps == ASSUME LifeInv, NEW s \in Sockets, OwnerLeaves(s) PROVE LifeInv'
<1> USE KeyFacts
<1>1. PICK gone \in SUBSET {"owner"} :
        CleanUp(s, gone) /\ gone = {"owner"}
  BY Zenon DEF OwnerLeaves
<1>2. /\ members' = members \ {s} /\ ready' = ready \ {s} /\ cookie' = cookie
      /\ closing' = closing /\ place' = [place EXCEPT ![s] = "away"]
  BY <1>1 DEF OwnerLeaves, Away, CleanUp
<1>3. LifeTypeOK' /\ Bounded'
  BY <1>1, <1>2, CleanUpTtls, SMT DEF LifeInv, LifeTypeOK
<1>4. Kept'
  <2>1. ttl["token"] > 0 => \A u \in OwnerSockets : Here(u) => u = s
    BY SMT DEF OwnerLeaves, LifeInv, Kept, Present, Here
  <2> QED BY <1>1, <1>2, <1>3, <2>1, CleanUpKeeps, SMT
          DEF LifeInv, LifeTypeOK, Kept, Present, Here
<1> QED BY <1>3, <1>4 DEF LifeInv

LEMMA ClosesKeeps == ASSUME LifeInv, NEW s \in Sockets, Closes(s) PROVE LifeInv'
<1> USE KeyFacts
<1>1. PICK gone \in SUBSET {"owner"} :
        CleanUp(s, gone) /\ gone = {}
  BY Zenon DEF Closes
<1>2. /\ members' = members \ {s} /\ ready' = ready \ {s} /\ cookie' = cookie
      /\ closing' = closing \ {s} /\ place' = place /\ place[s] = "away"
  BY <1>1 DEF Closes, CleanUp, LifeInv, Kept
<1>3. LifeTypeOK' /\ Bounded'
  BY <1>1, <1>2, CleanUpTtls, SMT DEF LifeInv, LifeTypeOK
<1>4. Kept'
  BY <1>1, <1>2, <1>3, CleanUpKeeps, SMT DEF LifeInv, LifeTypeOK, Kept, Present, Here
<1> QED BY <1>3, <1>4 DEF LifeInv

LEMMA TogglesKeeps == ASSUME LifeInv, NEW s \in Sockets, Toggles(s) PROVE LifeInv'
<1> USE KeyFacts
<1>1. LifeTypeOK'
  BY TtlTypes, ResizedType, SMT DEF LifeInv, LifeTypeOK, Toggles, Stored, Resized
<1>2. Bounded'
  BY SMT DEF LifeInv, LifeTypeOK, Bounded, Toggles, Stored, Resized
<1>3. Kept'
  BY SMT DEF LifeInv, LifeTypeOK, Bounded, Kept, Present, Here, Toggles, Stored, Resized
<1> QED BY <1>1, <1>2, <1>3 DEF LifeInv

LEMMA RenamesKeeps == ASSUME LifeInv, NEW s \in Sockets, Renames(s) PROVE LifeInv'
<1> USE KeyFacts
<1>1. LifeTypeOK'
  BY TtlTypes, ResizedType, SMT DEF LifeInv, LifeTypeOK, Renames, Touches, Stored
<1>2. Bounded'
  BY SMT DEF LifeInv, LifeTypeOK, Bounded, Renames, Touches, Stored
<1>3. Kept'
  BY SMT DEF LifeInv, LifeTypeOK, Bounded, Kept, Present, Here, Renames, Touches, Stored
<1> QED BY <1>1, <1>2, <1>3 DEF LifeInv

LEMMA ConfiguresKeeps == ASSUME LifeInv, NEW s \in Sockets, Configures(s) PROVE LifeInv'
<1> USE KeyFacts
<1>1. LifeTypeOK'
  BY TtlTypes, ResizedType, SMT DEF LifeInv, LifeTypeOK, Configures, Touches, Stored
<1>2. Bounded'
  BY SMT DEF LifeInv, LifeTypeOK, Bounded, Configures, Touches, Stored
<1>3. Kept'
  BY SMT DEF LifeInv, LifeTypeOK, Bounded, Kept, Present, Here, Configures, Touches, Stored
<1> QED BY <1>1, <1>2, <1>3 DEF LifeInv

LEMMA SpinsOffKeeps == ASSUME LifeInv, NEW s \in Sockets, SpinsOff(s) PROVE LifeInv'
<1> USE KeyFacts
<1>1. LifeTypeOK'
  BY TtlTypes, ResizedType, SMT DEF LifeInv, LifeTypeOK, SpinsOff, Touches, Stored
<1>2. Bounded'
  BY SMT DEF LifeInv, LifeTypeOK, Bounded, SpinsOff, Touches, Stored
<1>3. Kept'
  BY SMT DEF LifeInv, LifeTypeOK, Bounded, Kept, Present, Here, SpinsOff, Touches, Stored
<1> QED BY <1>1, <1>2, <1>3 DEF LifeInv

LEMMA DeletesKeeps == ASSUME LifeInv, NEW s \in Sockets, Deletes(s) PROVE LifeInv'
<1> USE KeyFacts
<1>1. LifeTypeOK'
  BY TtlTypes, ResizedType, SMT DEF LifeInv, LifeTypeOK, Deletes, Deleted
<1>2. Bounded'
  BY SMT DEF LifeInv, LifeTypeOK, Bounded, Deletes, Deleted
<1>3. Kept'
  BY SMT DEF LifeInv, LifeTypeOK, Bounded, Kept, Present, Here, Deletes, Deleted
<1> QED BY <1>1, <1>2, <1>3 DEF LifeInv
-----------------------------------------------------------------------------
(***************************************************************************)
(* The room from its creation on.                                          *)
(***************************************************************************)
\* What createRoom has stored when it is at step c.
Written(c) ==
  CASE c = "nickname" -> {"title"}
    [] c = "config" -> {"title"}
    [] c = "owner" -> {"title", "config"}
    [] c \in {"activity", "answer"} -> {"title", "config", "owner"}
    [] OTHER -> {}

\* Until the client has its answer nobody is in the room.
Unopened ==
  /\ members = {} /\ ready = {} /\ closing = {} /\ ttl["members"] = 0
  /\ cookie = 0 /\ promise = 0
  /\ place = [s \in Sockets |-> "away"]
  /\ infoTtl = [s \in Sockets |-> 0]

\* A getRooms that found no token, and not because of an error, has seen the
\* last of it.
QueryInv ==
  query.pc = "configs" /\ ~query.token /\ ~query.lost =>
    creation = "created" /\ ~Present("token")

IInv ==
  /\ TypeOK /\ Bounded /\ QueryInv
  /\ IF creation = "created" THEN Kept ELSE Unopened
  /\ creation \in DOMAIN Stores \cup {"answer"} =>
       \A k \in Written(creation) : ttl[k] = Full

LEMMA HandlerKeeps == ASSUME LifeInv, NEW s \in Sockets, Handler(s) PROVE LifeInv'
BY ParticipantJoinsKeeps, OwnerAsksKeeps, OwnerEntersKeeps, DropsKeeps,
   DropsUnknownKeeps, OwnerLeavesKeeps, ClosesKeeps, TogglesKeeps, RenamesKeeps,
   ConfiguresKeeps, SpinsOffKeeps, DeletesKeeps DEF Handler, Requests

\* The token is never stored again.
LEMMA TokenStaysAway ==
  ASSUME LifeInv, NEW s \in Sockets, Handler(s), ttl["token"] = 0
  PROVE  ttl'["token"] = 0
<1> USE KeyFacts
<1>1. ttl \in [RoomKeys -> 0..Forever]
  BY DEF LifeInv, LifeTypeOK
<1>2. CASE ParticipantJoins(s)
  BY <1>1, <1>2, SMT DEF ParticipantJoins, Joined, Stored, Resized
<1>3. CASE OwnerAsks(s)
  BY <1>1, <1>3, SMT DEF OwnerAsks, Present
<1>4. CASE OwnerEnters(s)
  BY <1>1, <1>4, SMT DEF OwnerEnters, Joined, Stored, Deleted, Resized
<1>5. CASE \E gone \in SUBSET {"owner"} : CleanUp(s, gone)
  BY <1>5, CleanUpKeeps, CleanUpTtls, SMT
<1>6. CASE DropsUnknown(s)
  BY <1>6 DEF DropsUnknown
<1>7. CASE Requests(s)
  BY <1>1, <1>7, SMT
     DEF Requests, Toggles, Renames, Configures, SpinsOff, Deletes, Touches, Stored,
         Deleted, Resized
<1>8. Drops(s) \/ OwnerLeaves(s) \/ Closes(s) => \E gone \in SUBSET {"owner"} : CleanUp(s, gone)
  BY Zenon DEF Drops, OwnerLeaves, Closes
<1> QED BY <1>2, <1>3, <1>4, <1>5, <1>6, <1>7, <1>8 DEF Handler

LEMMA InitIInv == ASSUME Init PROVE IInv
<1>1. LifeInv
  BY InitLife DEF Init
<1>2. TypeOK /\ QueryInv
  BY <1>1 DEF Init, TypeOK, LifeInv, Queries, NoQuery, QueryInv, Stores
<1>3. Unopened
  BY KeyFacts DEF Init, LifeInit, Unopened
<1> QED BY <1>1, <1>2, <1>3 DEF Init, IInv, LifeInv, Written

LEMMA CreateKeeps == ASSUME IInv, Create PROVE IInv'
<1> USE KeyFacts
<1>1. CASE CreateStep
  <2>1. creation \in {"start", "title", "nickname", "config", "owner", "activity"}
        /\ creation' = After[creation] /\ ttl' = Stored(ttl, {Stores[creation]})
        /\ UNCHANGED <<infoTtl, members, ready, cookie, place, closing, promise, query>>
    BY <1>1 DEF CreateStep, Stores
  <2>2. creation' \in {"title", "nickname", "config", "owner", "activity", "answer"}
    BY <2>1 DEF After
  <2>3. TypeOK'
    BY <2>1, <2>2, TtlTypes DEF IInv, TypeOK, LifeTypeOK, Stores
  <2>4. Bounded'
    BY <2>1, SMT DEF IInv, TypeOK, LifeTypeOK, Bounded, Stored
  <2>5. QueryInv' /\ Unopened'
    <3>1. ttl'["members"] = ttl["members"]
      BY <2>1, SMT DEF Stored, Stores
    <3> QED BY <2>1, <2>2, <3>1 DEF IInv, QueryInv, Unopened
  <2>6. \A k \in Written(creation') : ttl'[k] = Full
    BY <2>1, SMT DEF IInv, TypeOK, LifeTypeOK, Written, Stored, Stores, After
  <2> QED BY <2>2, <2>3, <2>4, <2>5, <2>6 DEF IInv, Written
<1>2. CASE CreateFails
  <2>1. creation \in {"start", "title", "nickname", "config", "owner", "activity"}
        /\ creation' = "failed" /\ ttl' \in {ttl, Stored(ttl, {Stores[creation]})}
        /\ UNCHANGED <<infoTtl, members, ready, cookie, place, closing, promise, query>>
    BY <1>2 DEF CreateFails, Stores
  <2>2. TypeOK'
    BY <2>1, TtlTypes DEF IInv, TypeOK, LifeTypeOK, Stores
  <2>3. Bounded'
    BY <2>1, SMT DEF IInv, TypeOK, LifeTypeOK, Bounded, Stored
  <2>4. QueryInv' /\ Unopened'
    <3>1. ttl'["members"] = ttl["members"]
      BY <2>1, SMT DEF Stored, Stores
    <3> QED BY <2>1, <3>1 DEF IInv, QueryInv, Unopened
  <2> QED BY <2>1, <2>2, <2>3, <2>4 DEF IInv, Stores
<1>3. CASE CreateAnswers
  <2>1. /\ creation = "answer" /\ creation' = "created" /\ cookie' = Full
        /\ UNCHANGED <<ttl, infoTtl, members, ready, place, closing, promise, query>>
    BY <1>3 DEF CreateAnswers
  <2>2. TypeOK'
    BY <2>1, SMT DEF IInv, TypeOK, LifeTypeOK
  <2>3. Bounded' /\ QueryInv'
    BY <2>1 DEF IInv, Bounded, QueryInv, Present
  <2>4. ttl["title"] = Full /\ ttl["config"] = Full /\ ttl["owner"] = Full /\ Unopened
    BY <2>1 DEF IInv, Written, Stores
  <2>5. Kept'
    BY <2>1, <2>4, SMT DEF IInv, TypeOK, LifeTypeOK, Bounded, Unopened, Kept, Present, Here
  <2> QED BY <2>1, <2>2, <2>3, <2>5 DEF IInv, Stores
<1> QED BY <1>1, <1>2, <1>3 DEF Create

LEMMA GetRoomsKeeps == ASSUME IInv, GetRooms PROVE IInv'
<1> USE KeyFacts
<1>1. CASE ReadTokens
  <2>1. PICK lost \in BOOLEAN :
          query' = [pc |-> "configs", token |-> Present("token") /\ ~lost, lost |-> lost]
    BY <1>1 DEF ReadTokens
  <2>2. UNCHANGED <<lifeVars, creation>> /\ cookie # 0
    BY <1>1 DEF ReadTokens
  <2>3. creation = "created"
    BY <2>2 DEF IInv, Unopened
  <2>4. TypeOK'
    BY <2>1, <2>2, <2>3 DEF IInv, TypeOK, LifeTypeOK, lifeVars, Queries, Present
  <2>5. QueryInv'
    BY <2>1, <2>2, <2>3 DEF QueryInv, Present, lifeVars
  <2> QED BY <2>2, <2>3, <2>4, <2>5 DEF IInv, Bounded, Kept, Present, Here, lifeVars, Stores
<1>2. CASE ReadConfigs
  <2>1. PICK lost \in BOOLEAN :
          /\ cookie' = IF Valid(query.token, lost) THEN cookie ELSE 0
          /\ query' = [NoQuery EXCEPT !.lost = query.lost \/ lost]
          /\ promise' = IF query.lost \/ lost THEN 0 ELSE promise
    BY <1>2 DEF ReadConfigs
  <2>2. /\ UNCHANGED <<ttl, infoTtl, members, ready, place, closing, creation>>
        /\ query.pc = "configs" /\ query \in Queries
    BY <1>2 DEF ReadConfigs, IInv, TypeOK
  <2>3. /\ cookie' \in 0..Full /\ (cookie = 0 => cookie' = 0)
        /\ promise' \in 0..Grace /\ (promise = 0 => promise' = 0)
    BY <2>1, SMT DEF IInv, TypeOK, LifeTypeOK
  <2>4. TypeOK'
    BY <2>1, <2>2, <2>3 DEF IInv, TypeOK, LifeTypeOK, Queries, NoQuery
  <2>5. QueryInv'
    BY <2>1 DEF QueryInv, NoQuery
  <2>6. CASE creation = "created"
    <3>1. Kept /\ ttl["token"] \in Nat /\ ttl["config"] \in Nat /\ promise \in Nat
      BY <2>6, SMT DEF IInv, TypeOK, LifeTypeOK
    <3>2. promise' # 0 => ~query.lost /\ ~lost /\ promise' = promise
      BY <2>1, Zenon
    <3>3. promise # 0 => Present("token") /\ Present("config")
      BY <3>1, SMT DEF Kept, Present
    <3>4. promise' # 0 => cookie' = cookie
      <4>1. SUFFICES ASSUME promise' # 0 PROVE Valid(query.token, lost)
        BY <2>1
      <4> QED  BY <2>2, <3>2, <3>3, <4>1 DEF IInv, QueryInv, Valid
    <3>5. promise' <= ttl'["token"] /\ promise' <= cookie'
      BY <2>2, <2>3, <3>1, <3>2, <3>4, SMT DEF Kept
    <3> QED BY <2>2, <2>4, <2>5, <2>6, <3>1, <3>5 DEF IInv, Bounded, Kept, Present, Here, Stores
  <2>7. CASE creation # "created"
    BY <2>2, <2>3, <2>4, <2>5, <2>7 DEF IInv, Bounded, Unopened
  <2> QED BY <2>6, <2>7
<1> QED BY <1>1, <1>2 DEF GetRooms

LEMMA SockKeeps == ASSUME IInv, NEW s \in Sockets, Sock(s) PROVE IInv'
<1>1. creation = "created" /\ Handler(s) /\ UNCHANGED <<creation, query>>
  BY DEF Sock
<1>2. LifeInv
  BY <1>1 DEF IInv, TypeOK, LifeInv
<1>3. LifeInv'
  BY <1>1, <1>2, HandlerKeeps
<1>4. QueryInv'
  <2>1. Present("token") \/ ttl["token"] = 0
    BY <1>2, KeyFacts, SMT DEF LifeInv, LifeTypeOK, Present
  <2>2. ttl["token"] = 0 => ttl'["token"] = 0
    BY <1>1, <1>2, TokenStaysAway
  <2>3. ttl["token"] = 0 => ~Present("token")'
    BY <2>2, SMT DEF Present
  <2> QED BY <1>1, <2>1, <2>3 DEF IInv, QueryInv
<1> QED BY <1>1, <1>3, <1>4 DEF IInv, TypeOK, LifeInv, Stores

LEMMA TickKeeps == ASSUME IInv, Tick PROVE IInv'
<1> USE KeyFacts
<1>1. creation \in {"start", "created", "failed"} /\ Age /\ UNCHANGED <<creation, query>>
  BY DEF Tick
<1>2. TypeOK'
  BY <1>1, SMT DEF IInv, TypeOK, LifeTypeOK, Age, Older
<1>3. Bounded'
  BY <1>1, SMT DEF IInv, TypeOK, LifeTypeOK, Bounded, Age, Older
<1>4. QueryInv'
  BY <1>1, SMT DEF IInv, TypeOK, LifeTypeOK, QueryInv, Present, Age, Older
<1>5. CASE creation = "created"
  <2>1. Kept'
    BY <1>1, <1>5, AgeKeeps DEF IInv, TypeOK, LifeInv
  <2> QED BY <1>1, <1>2, <1>3, <1>4, <1>5, <2>1 DEF IInv, Stores
<1>6. CASE creation \in {"start", "failed"}
  <2>1. Unopened'
    BY <1>1, <1>6, SMT DEF IInv, Unopened, Age, Older
  <2> QED BY <1>1, <1>2, <1>3, <1>4, <1>6, <2>1 DEF IInv, Stores, Written
<1> QED BY <1>1, <1>5, <1>6

LEMMA StutterKeeps == ASSUME IInv, UNCHANGED vars PROVE IInv'
BY DEF IInv, TypeOK, LifeTypeOK, Bounded, QueryInv, Kept, Unopened, Present, Here, vars, lifeVars

LEMMA NextKeeps == ASSUME IInv, [Next]_vars PROVE IInv'
BY CreateKeeps, GetRoomsKeeps, SockKeeps, TickKeeps, StutterKeeps DEF Next

\* However the room is created, used, left and joined again, and whatever
\* expires in between, the invariant that the other theorems follow from holds.
THEOREM Inductive == Spec => []IInv
BY InitIInv, NextKeeps, PTL DEF Spec

\* TTLs, sets and places have their types: no TTL but that of a set is ever more
\* than two hours (Stored, Extended).
THEOREM LifetimeTypeCorrect == Spec => []TypeOK
<1>1. IInv => TypeOK
  BY DEF IInv
<1> QED BY <1>1, Inductive, PTL

\* While the room lets its owner in, nothing that a connected socket needs is
\* gone, however often the room is left, joined again and used.
THEOREM TokenIsFirst == Spec => []TokenExpiresFirst
<1>1. IInv => TokenExpiresFirst
  BY DEF IInv, TokenExpiresFirst, Opened, Kept
<1> QED BY <1>1, Inductive, PTL

\* An owner who loses the connection has half an hour to return, or as long as
\* the cookie lasts.
THEOREM GraceKept == Spec => []GraceIsKept
<1>1. ASSUME IInv PROVE GraceIsKept
  <2>1. CASE creation = "created"
    BY <1>1, <2>1, KeyFacts, SMT DEF IInv, TypeOK, LifeTypeOK, GraceIsKept, Kept, Present
  <2>2. CASE creation # "created"
    BY <1>1, <2>2, SMT DEF IInv, GraceIsKept, Unopened
  <2> QED BY <2>1, <2>2
<1> QED BY <1>1, Inductive, PTL

\* getRooms takes the cookie of a room from its owner only once the room lets
\* nobody in with it, or when it could not read the room's keys.
THEOREM CookieKept == Spec => CookieLostOnlyWithRoom
<1>1. ASSUME IInv, [Next]_vars, cookie > 1, cookie' = 0
      PROVE  query'.lost \/ ~Present("token")
  <2>1. cookie \in 0..Full /\ creation = "created"
    BY <1>1, KeyFacts, SMT DEF IInv, TypeOK, LifeTypeOK, Unopened
  <2>2. cookie' # cookie
    BY <1>1, <2>1, SMT
  <2>3. \A s \in Sockets : ~Sock(s)
    <3>1. ASSUME NEW s \in Sockets, Handler(s) PROVE cookie' = cookie
      BY <3>1 DEF Handler, Requests, ParticipantJoins, OwnerAsks, OwnerEnters, Drops,
         DropsUnknown, Away, OwnerLeaves, Closes, Toggles, Renames, Configures, SpinsOff, Deletes
    <3> QED BY <2>2, <3>1 DEF Sock
  <2>4. ~Tick
    BY <1>1, <2>1, KeyFacts, SMT DEF Tick, Age, Older
  <2>5. ReadConfigs
    BY <1>1, <2>1, <2>2, <2>3, <2>4
       DEF Next, Create, CreateStep, CreateFails, CreateAnswers, GetRooms, ReadTokens, vars,
           lifeVars, Stores
  <2>6. PICK lost \in BOOLEAN :
          /\ cookie' = IF Valid(query.token, lost) THEN cookie ELSE 0
          /\ query' = [NoQuery EXCEPT !.lost = query.lost \/ lost]
    BY <2>5 DEF ReadConfigs
  <2>7. query \in Queries /\ query.pc = "configs"
    BY <1>1, <2>5 DEF IInv, TypeOK, ReadConfigs
  <2>8. query'.lost = (query.lost \/ lost)
    BY <2>6 DEF NoQuery
  <2>9. ~Valid(query.token, lost)
    BY <2>2, <2>6
  <2>10. CASE ~query.token
    BY <1>1, <2>7, <2>8, <2>10 DEF IInv, QueryInv
  <2>11. CASE ~Present("config")
    BY <1>1, <2>1, <2>11, KeyFacts, SMT DEF IInv, TypeOK, LifeTypeOK, Kept, Present
  <2>12. CASE lost
    BY <2>8, <2>12
  <2> QED BY <2>9, <2>10, <2>11, <2>12 DEF Valid
<1>2. IInv /\ [Next]_vars => [cookie > 1 /\ cookie' = 0 => query'.lost \/ ~Present("token")]_vars
  BY <1>1
<1> QED BY <1>2, Inductive, PTL DEF Spec, CookieLostOnlyWithRoom
=============================================================================
