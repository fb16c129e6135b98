---------------------------- MODULE RoomLifetime ----------------------------
(***************************************************************************)
(* How long the keys of a room live (src/src/common/redis/redis.service.ts *)
(* and the handlers of roulette.service.ts that set or shorten TTLs).      *)
(*                                                                         *)
(* Time passes in ticks; a key is represented by the ticks it has left, 0  *)
(* if it is absent and Forever if it has no TTL.  The handlers, which take *)
(* milliseconds, are single actions; RoomService has their interleavings.  *)
(* Only handlers that overlap with another one in every run are split: the *)
(* join of an owner, and the disconnect handler of the connection it       *)
(* replaces.                                                               *)
(*                                                                         *)
(* A socket that has left nothing behind stands for a new connection.      *)
(***************************************************************************)
EXTENDS Naturals

CONSTANTS
  Sockets,
  OwnerSockets,  \* the connections made with the cookies of the owner
  RoomKeys,      \* the key families of a room that are followed
  Full,          \* ticks in this.ttl, 2 h
  Grace          \* ticks in ROOM_DATA_TTL, 30 min

\* All of them, and those that decide something.
AllKeys == {"token", "title", "nickname", "config", "owner", "counter", "state",
            "activity", "members", "ready"}
DecisiveKeys == {"token", "title", "config", "owner", "members", "ready"}

ASSUME LifetimeAssumption ==
  /\ OwnerSockets \subseteq Sockets
  /\ RoomKeys \subseteq AllKeys /\ DecisiveKeys \subseteq RoomKeys
  /\ Full \in Nat /\ Grace \in 1..Full

Forever == Full + 1

VARIABLES
  ttl,      \* ticks left of room:config:{room} and the other keys of the room
  infoTtl,  \* ticks left of room:socket:{socket}
  members,  \* room:members:{room}
  ready,    \* room:ready:{room}
  cookie,   \* ticks left of the cookies with the owner's token and rid
  place,    \* where each socket is
  closing,  \* owner connections whose handleDisconnect has yet to clean up
  promise   \* history: ticks the owner still has to come back

lifeVars == <<ttl, infoTtl, members, ready, cookie, place, closing, promise>>

LifeTypeOK ==
  /\ ttl \in [RoomKeys -> 0..Forever]
  /\ infoTtl \in [Sockets -> 0..Full]
  /\ members \in SUBSET Sockets
  /\ ready \in SUBSET Sockets
  /\ cookie \in 0..Full
  /\ place \in [Sockets -> {"away", "joining", "here"}]
  /\ closing \in SUBSET OwnerSockets
  /\ promise \in 0..Grace

LifeInit ==
  /\ ttl = [k \in RoomKeys |-> 0]
  /\ infoTtl = [s \in Sockets |-> 0]
  /\ members = {} /\ ready = {}
  /\ cookie = 0
  /\ place = [s \in Sockets |-> "away"]
  /\ closing = {}
  /\ promise = 0
-----------------------------------------------------------------------------
(***************************************************************************)
(* What Redis commands do to the TTLs f of the room's keys.                *)
(***************************************************************************)
Present(k) == ttl[k] > 0

\* The TTL is given in milliseconds.
StoredInMilliseconds(f, K) == [k \in RoomKeys |-> IF k \in K THEN 1000 * Full ELSE f[k]]

\* SET k v EX 7200 of the keys in K.
Stored(f, K) == [k \in RoomKeys |-> IF k \in K THEN Full ELSE f[k]]

Deleted(f, K) == [k \in RoomKeys |-> IF k \in K THEN 0 ELSE f[k]]

\* SADD and SREM that leave S in the set: a new set has no TTL, one that is
\* not new keeps its own, an empty one is gone.
Resized(f, k, S) ==
  [f EXCEPT ![k] = IF S = {} THEN 0 ELSE IF @ = 0 THEN Forever ELSE @]

\* The pipeline without its line for the config, or for the token.
ExtendedWithoutConfig(f) ==
  [k \in RoomKeys |-> IF f[k] = 0 \/ k = "config" THEN f[k] ELSE Grace]
ExtendedWithoutToken(f) ==
  [k \in RoomKeys |-> IF f[k] = 0 \/ k = "token" THEN f[k] ELSE Grace]

\* The EXPIREs of extendRoomTTL: an absent key stays absent, any other one has
\* 30 minutes left, whatever it had before.
Extended(f) == [k \in RoomKeys |-> IF f[k] = 0 THEN 0 ELSE Grace]

\* The infos of M that extendRoomTTL treats likewise.
ExtendedInfos(f, M) ==
  [s \in Sockets |-> IF s \in M /\ f[s] # 0 THEN Grace ELSE f[s]]

Older(n) == IF n \in 1..Full THEN n - 1 ELSE n

\* One tick: TTLs run down, also in the browser, and what they end is gone.
Age ==
  /\ ttl' = [k \in RoomKeys |-> Older(ttl[k])]
  /\ infoTtl' = [s \in Sockets |-> Older(infoTtl[s])]
  /\ members' = IF ttl["members"] = 1 THEN {} ELSE members
  /\ ready' = IF ttl["ready"] = 1 THEN {} ELSE ready
  /\ cookie' = Older(cookie)
  /\ promise' = Older(promise)
  /\ UNCHANGED <<place, closing>>
-----------------------------------------------------------------------------
(***************************************************************************)
(* Joining.                                                                *)
(***************************************************************************)
Here(s) == place[s] = "here"

New(s) ==
  place[s] = "away" /\ s \notin members \cup ready \cup closing /\ infoTtl[s] = 0

\* completeJoin of s over the TTLs f: the member, its info, a default config if
\* there is none, and the activity.
Joined(s, f) ==
  /\ members' = members \cup {s}
  /\ ttl' = Stored(Resized(f, "members", members \cup {s}),
                   {"activity"} \cup IF f["config"] = 0 THEN {"config"} ELSE {})
  /\ infoTtl' = [infoTtl EXCEPT ![s] = Full]
  /\ place' = [place EXCEPT ![s] = "here"]

\* handleParticipantJoin; a participant without a nickname is numbered.
ParticipantJoins(s) ==
  /\ s \notin OwnerSockets /\ New(s)
  /\ Present("config")
  /\ \E unnamed \in BOOLEAN :
       Joined(s, IF unnamed THEN Stored(ttl, {"counter"}) ELSE ttl)
  /\ UNCHANGED <<ready, cookie, closing, promise>>

\* The owner's live connection, as getActiveOwnerSocketId finds it: by the rid
\* on record, among the members that have an info.
ActiveOwners ==
  {s \in members \cap OwnerSockets : Present("owner") /\ infoTtl[s] # 0}

\* The token of the cookie is the stored one; the connection that is replaced is
\* closed, and its handleDisconnect has read its info before that is deleted.
\* The owner's browser opens one connection at a time.
OwnerAsks(s) ==
  /\ s \in OwnerSockets /\ New(s)
  /\ \A u \in OwnerSockets : place[u] # "joining"
  /\ cookie # 0 /\ Present("token")
  /\ IF ActiveOwners = {}
       THEN place' = [place EXCEPT ![s] = "joining"]
            /\ UNCHANGED <<ttl, infoTtl, members, closing>>
       ELSE \E u \in ActiveOwners :
              /\ place' = [place EXCEPT ![s] = "joining", ![u] = "away"]
              /\ closing' = IF Here(u) THEN closing \cup {u} ELSE closing
              /\ members' = members \ {u}
              /\ ttl' = Resized(ttl, "members", members \ {u})
              /\ infoTtl' = [infoTtl EXCEPT ![u] = 0]
  /\ UNCHANGED <<ready, cookie, promise>>

\* The rest of handleOwnerJoin: the initial nickname is used up by an owner who
\* gives none; the owner is recorded unless it still is.
OwnerEnters(s) ==
  /\ place[s] = "joining"
  /\ \E unnamed \in BOOLEAN :
       LET f == IF unnamed THEN Deleted(ttl, {"nickname"}) ELSE ttl
       IN  Joined(s, IF Present("owner") THEN f ELSE Stored(f, {"owner"}))
  /\ UNCHANGED <<ready, cookie, closing, promise>>
-----------------------------------------------------------------------------
(***************************************************************************)
(* Leaving.                                                                *)
(***************************************************************************)
\* What an owner has to come back with is the token in Redis and the cookie,
\* which nothing extends.
TimeToReturn == IF cookie < Grace THEN cookie ELSE Grace

\* The clean-up after s, when handleDisconnect or room:leave has found its
\* info; an owner's is followed by extendRoomTTL.  gone are further keys that
\* are deleted.
CleanUp(s, gone) ==
  LET M == members \ {s}
      R == ready \ {s}
      f == Deleted(Resized(Resized(ttl, "members", M), "ready", R), gone)
      g == [infoTtl EXCEPT ![s] = 0]
  IN  /\ members' = M /\ ready' = R
      /\ IF s \in OwnerSockets
           THEN /\ ttl' = Extended(f)
                /\ infoTtl' = ExtendedInfos(g, M)
                /\ promise' = IF Present("token") THEN TimeToReturn ELSE promise
           ELSE ttl' = f /\ infoTtl' = g /\ UNCHANGED promise

Away(s) ==
  /\ place' = [place EXCEPT ![s] = "away"]
  /\ UNCHANGED <<cookie, closing>>

\* handleDisconnect, and a participant's room:leave.
Drops(s) ==
  /\ Here(s) /\ infoTtl[s] # 0
  /\ CleanUp(s, {})
  /\ Away(s)

\* handleDisconnect of a socket whose info has expired does nothing: the socket
\* stays a member.
DropsUnknown(s) ==
  /\ Here(s) /\ infoTtl[s] = 0
  /\ Away(s)
  /\ UNCHANGED <<ttl, infoTtl, members, ready, promise>>

\* handleOwnerExit.
OwnerLeaves(s) ==
  /\ s \in OwnerSockets /\ Here(s) /\ infoTtl[s] # 0
  /\ CleanUp(s, {"owner"})
  /\ Away(s)

\* The rest of the handleDisconnect of a connection that was replaced.
Closes(s) ==
  /\ s \in closing
  /\ CleanUp(s, {})
  /\ closing' = closing \ {s}
  /\ UNCHANGED <<cookie, place>>
-----------------------------------------------------------------------------
(***************************************************************************)
(* Other requests of a socket that is here.                                *)
(***************************************************************************)
Touches(K) == ttl' = Stored(ttl, K \cup {"activity"})

\* handleReadyToggle.
Toggles(s) ==
  /\ s \notin OwnerSockets /\ Here(s) /\ infoTtl[s] # 0
  /\ \E R \in {ready \cup {s}, ready \ {s}} :
       ready' = R /\ ttl' = Stored(Resized(ttl, "ready", R), {"activity"})
  /\ UNCHANGED <<infoTtl, members, cookie, place, closing, promise>>

\* handleNicknameChange: updateSocketNickname stores an info that is there.
Renames(s) ==
  /\ Here(s)
  /\ infoTtl' = [infoTtl EXCEPT ![s] = IF @ = 0 THEN 0 ELSE Full]
  /\ Touches({})
  /\ UNCHANGED <<members, ready, cookie, place, closing, promise>>

\* The rid of s is the one on record.
Verified(s) == s \in OwnerSockets /\ Here(s) /\ Present("owner")

\* handleRoomConfigSet.
Configures(s) ==
  /\ Verified(s)
  /\ Touches({"config"})
  /\ UNCHANGED <<infoTtl, members, ready, cookie, place, closing, promise>>

\* handleSpinRequest that announces: somebody is active, nobody active unready.
SpinsOff(s) ==
  /\ Verified(s) /\ Present("config")
  /\ LET active == {m \in members : infoTtl[m] # 0}
     IN  active # {} /\ active \ OwnerSockets \subseteq ready
  /\ Touches({"state"})
  /\ UNCHANGED <<infoTtl, members, ready, cookie, place, closing, promise>>

\* handleRoomDelete: the members are disconnected, and their infos and the
\* room's keys deleted.  deleteRoom's pipeline, which deletes the config before
\* the token and could be read in between, is one step.
Deletes(s) ==
  /\ Verified(s)
  /\ ttl' = Deleted(ttl, RoomKeys)
  /\ infoTtl' = [u \in Sockets |-> IF u \in members \cup {s} THEN 0 ELSE infoTtl[u]]
  /\ members' = {} /\ ready' = {}
  /\ place' = [u \in Sockets |->
       IF u = s \/ (u \in members /\ Here(u)) THEN "away" ELSE place[u]]
  /\ promise' = 0
  /\ UNCHANGED <<cookie, closing>>

Requests(s) ==
  \/ Toggles(s) \/ Renames(s) \/ Configures(s) \/ SpinsOff(s) \/ Deletes(s)

Handler(s) ==
  \/ ParticipantJoins(s) \/ OwnerAsks(s) \/ OwnerEnters(s)
  \/ Drops(s) \/ DropsUnknown(s) \/ OwnerLeaves(s) \/ Closes(s)
  \/ Requests(s)
=============================================================================
