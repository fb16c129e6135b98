------------------------- MODULE RoomRegistryProofs -------------------------
(***************************************************************************)
(* What the room handlers leave behind, for every set of sockets and any   *)
(* number of requests of orderly clients in one server process: the        *)
(* registry in Redis matches the connections, the ready marks belong to    *)
(* participants, there is one owner and it is the recorded one, and        *)
(* nothing is left of a deleted room.                                      *)
(*                                                                         *)
(* These hold when no handler runs.  The inductive invariant says what     *)
(* they become while handlers run: for each step at which a handler can    *)
(* stand, what is missing or left over of the socket it runs for.          *)
(***************************************************************************)
EXTENDS RoomProofs

OneProcess == \A s, u \in Sockets : Host[s] = Host[u]

Member(s) == s \in roomMembers[Home]
Registered(s) == socketInfo[s] # Null
Inside(s) == Home \in joined[s]
Ready(s) == s \in roomReady[Home]

\* The rid and the info of a socket that has joined.
RidOf(s) == IF s \in OwnerSockets THEN Home ELSE s
InfoOf(s) == [roomId |-> Home, rid |-> RidOf(s), role |-> SeatedRole(s)]

Serves(c, s) == Running(c) /\ task[c].sock = s
Busy(s) == \E c \in Calls : Serves(c, s)

\* A deletion that has begun to disconnect the members.
Doomed == \E c \in Calls : task[c].pc \in {"delInfo", "delOwnInfo", "delRoom"}

\* An owner's join up to socket.join, in two parts: the rid is taken in between.
Asking == {"joinToken", "joinOwner"}
Replacing == {"activeOwner", "activeMembers", "activeInfo", "dropMember", "dropInfo",
              "ensureOwner", "setOwner"}
Casting == {"castOwner", "castMembers", "castReady", "castInfo"}
Going == {"goneInfo", "goneReady", "goneMember", "goneDelete"}
Exiting == {"leaveMember", "leaveDelete", "leaveOwner"}
Deleting == {"delMembers", "delInfo", "delOwnInfo", "delRoom"}
Touching == {"ttlMembers", "ttlExpire"}

(***************************************************************************)
(* Who is who: the clients use one room, and every socket has one identity *)
(* in it.                                                                  *)
(***************************************************************************)
OnlyHome ==
  /\ \A r \in Rooms \ {Home} : /\ roomConfig[r] = Null /\ roomOwner[r] = Null
                               /\ roomMembers[r] = {} /\ roomReady[r] = {}
  /\ \A r \in Rooms : roomState[r] = Null /\ spinLock[r] = Null
  /\ \A s \in Sockets : joined[s] \subseteq {Home}
  /\ roomOwner[Home] \in {Null, Home}
  /\ deleted \subseteq {Home}

Identity ==
  \A s \in Sockets :
    /\ socketInfo[s] \in {Null, InfoOf(s)}
    /\ role[s] \in {SeatedRole(s), "none"}
    /\ rid[s] \in {RidOf(s), s}
    /\ Registered(s) => rid[s] = RidOf(s)

\* Where a toggle stands that may have lost its connection.
Astray == ToggleSteps \cup Casting \cup {"activity"}

\* What the run of a request relies on, step by step.
CallOK(c) ==
  LET t == task[c] IN
  /\ t.sock \in Sockets /\ t.room = Home
  /\ conn[t.sock] \/ (t.sock \in torn /\ t.pc \in Astray /\ t.then # "leave")
  /\ t.rid \in {RidOf(t.sock), t.sock}
  /\ t.pc \in Asking \cup Replacing \cup Exiting \cup Deleting => t.sock \in OwnerSockets
  /\ t.pc \in Going \cup {"joinConfig", "toggleWrite"} => t.sock \notin OwnerSockets
  /\ t.pc \in Asking \cup Replacing
               \cup {"joinConfig", "addMember", "setInfo", "leaveInfo", "goneReady",
                     "goneMember", "goneDelete"}
       => t.arg = SeatedRole(t.sock)
  /\ t.pc \in Replacing \cup {"joinConfig", "addMember", "setInfo"}
       => t.rid = RidOf(t.sock) /\ rid[t.sock] = RidOf(t.sock)
  /\ t.pc \in {"activeMembers", "activeInfo"} => t.owner = Home
  /\ t.pc \in Replacing => t.found \in OwnerSockets \cup {Null} /\ t.found # t.sock
  /\ t.pc \in Asking \cup {"activeOwner", "activeMembers"} => t.found = Null
  /\ t.pc \in {"activeInfo", "delInfo"} => t.sock \notin t.todo
  /\ t.pc \in {"dropMember", "dropInfo", "delInfo"} => ~conn[t.found]
  /\ t.pc = "nickSet" => t.info = InfoOf(t.sock)
  /\ t.pc \in Going => t.then = "leave"
  /\ t.pc \in Casting => t.then \in {"activity", "leave"}
  /\ t.then = "leave" => t.pc \in Going \cup Casting /\ t.home = Home

CallsOK == \A c \in Calls : Running(c) => CallOK(c)

\* Orderly clients: one request of a person at a time, and a deletion alone.
InTurn ==
  \A c, d \in Calls : Running(c) /\ Running(d) /\ c # d =>
    ~SamePerson(task[c].sock, task[d].sock) /\ task[c].pc \notin Deletion

\* What the run of handleDisconnect for a lost socket relies on.
LossOK(s) ==
  LET t == task[s] IN
  /\ t.sock = s /\ ~conn[s] /\ t.then = "end"
  /\ t.pc \in Going \cup Casting \cup Touching
  /\ t.pc # "goneInfo" => t.room = Home

LossesOK == \A s \in Sockets : Running(s) => LossOK(s)

Order == OnlyHome /\ Identity /\ CallsOK /\ InTurn /\ LossesOK

(***************************************************************************)
(* The registry: members, infos, ready marks and socket.io rooms.          *)
(***************************************************************************)
Settled(s) == conn[s] => (Member(s) <=> Inside(s)) /\ (Member(s) <=> Registered(s))

\* A socket that no request runs for.
ConnectionOK(s) ==
  /\ Ready(s) => s \notin OwnerSockets
  /\ conn[s] => /\ Ready(s) => Member(s) /\ Registered(s)
                /\ ~Busy(s) => Settled(s)
  /\ ~conn[s] =>
       /\ ~Inside(s)
       /\ Registered(s) => task[s].pc \in Going
       /\ Member(s) => Doomed \/ (Registered(s) /\ task[s].pc \in Going \ {"goneDelete"})
       /\ Ready(s) => \/ Doomed
                      \/ s \in torn
                      \/ Registered(s) /\ task[s].pc \in {"goneInfo", "goneReady"}

\* A socket that one does run for.
RequestOK(c) ==
  LET t == task[c]
      s == task[c].sock IN
  /\ t.pc \in Asking \cup Replacing => ~Member(s) /\ ~Inside(s) /\ ~Registered(s)
  /\ t.pc = "addMember" => Inside(s) /\ (Member(s) <=> Registered(s))
  /\ t.pc = "setInfo" => Inside(s) /\ Member(s)
  /\ t.pc \in {"leaveMember", "toggleWrite", "nickSet"} => Registered(s) \/ ~conn[s]
  /\ t.pc = "goneMember" => ~Ready(s)
  /\ t.pc \in {"leaveDelete", "goneDelete"} => ~Member(s)
  /\ t.pc = "leaveOwner" \/ (t.pc \in Casting /\ t.then = "leave")
       => ~Member(s) /\ ~Registered(s)
  /\ t.pc = "delRoom" => ~Inside(s) /\ ~Registered(s)
  /\ t.pc \notin {"addMember", "setInfo", "leaveDelete", "goneDelete", "leaveOwner", "delRoom"}
       /\ ~(t.pc \in Casting /\ t.then = "leave") => Settled(s)

Registry ==
  /\ \A s \in Sockets : ConnectionOK(s)
  /\ \A c \in Calls : Running(c) => RequestOK(c)

(***************************************************************************)
(* The owner.                                                              *)
(***************************************************************************)
OwnerMembers == roomMembers[Home] \cap OwnerSockets

AtMostOne(S) == \A s, u \in S : s = u

OwnerOK(c) ==
  LET t == task[c] IN
  /\ t.pc = "activeInfo" => /\ OwnerMembers \subseteq t.todo \cup {t.found}
                            /\ AtMostOne((t.todo \cup {t.found}) \cap OwnerSockets)
  /\ t.pc = "dropMember" => OwnerMembers \subseteq {t.found}
  /\ \/ t.pc \in {"dropInfo", "ensureOwner", "setOwner", "leaveDelete", "leaveOwner"}
     \/ t.pc = "addMember" /\ t.sock \in OwnerSockets
     => OwnerMembers = {}
  /\ t.pc \in {"addMember", "setInfo"} /\ t.sock \in OwnerSockets => roomOwner[Home] = Home

Ownership ==
  /\ AtMostOne(OwnerMembers)
  /\ roomOwner[Home] = Null =>
       OwnerMembers = {} \/ \E c \in Calls : task[c].pc = "delRoom"
  /\ \A c \in Calls : Running(c) => OwnerOK(c)

(***************************************************************************)
(* Deletion.                                                               *)
(***************************************************************************)
KeysGone(n) ==
  /\ n > 1 => roomConfig[Home] = Null
  /\ n > 2 => roomOwner[Home] = Null
  /\ n > 3 => ~ownerToken[Home]
  /\ n > 4 => roomMembers[Home] = {}
  /\ n > 5 => roomReady[Home] = {}

DeletionOK(c) ==
  LET t == task[c] IN
  /\ t.pc = "delInfo" => \A s \in Sockets : conn[s] /\ Member(s) => s \in t.todo \cup {t.sock}
  /\ t.pc \in {"delOwnInfo", "delRoom"} => \A s \in Sockets : conn[s] /\ Member(s) => s = t.sock
  /\ t.pc = "delRoom" => KeysGone(t.next)

\* Where a request can still stand once the room is gone.
Harmless == {"joinToken", "joinConfig", "leaveInfo", "toggleInfo", "nickInfo", "castOwner",
             "activity", "configOwner", "delOwner"}

Deletions ==
  /\ \A c \in Calls : Running(c) => DeletionOK(c)
  /\ \A c \in Calls : Running(c) => task[c].next = 1 \/ task[c].pc = "delRoom"
  /\ Home \in deleted =>
       /\ KeysGone(7)
       /\ \A c \in Calls : Running(c) =>
            task[c].pc \in Harmless /\ (task[c].pc = "toggleInfo" => ~Registered(task[c].sock))

RegistryInv == IInv /\ Order /\ Registry /\ Ownership /\ Deletions
-----------------------------------------------------------------------------
(***************************************************************************)
(* The step of a request: what it does not touch keeps its invariant.      *)
(***************************************************************************)
Untouched(u) ==
  /\ (u \in roomMembers'[Home]) = (u \in roomMembers[Home])
  /\ (u \in roomReady'[Home]) = (u \in roomReady[Home])
  /\ UNCHANGED <<socketInfo[u], joined[u], conn[u], rid[u], role[u]>>

\* Task x moves, and so may the handlers of the sockets in T; only the sockets
\* in T are touched, and no other request runs for one of them.
Touches(x, T) ==
  /\ \A y \in Tasks : y # x /\ y \notin T => task'[y] = task[y]
  /\ \A u \in Sockets : u \notin T => Untouched(u)
  /\ \A u \in Sockets : conn'[u] => conn[u]
  /\ UNCHANGED torn
  /\ \A c \in Calls : c # x /\ Running(c) => task[c].sock \notin T

\* Request x goes on for its socket, and only a deletion in a deletion.
GoesOn(x) ==
  Running(x)' => /\ task'[x].sock = task[x].sock
                 /\ task'[x].pc \in Deletion => task[x].pc \in Deletion
                 /\ task'[x].pc # "toggleInfo"

LEMMA CallsAreTasks == Calls \subseteq Tasks /\ Sockets \subseteq Tasks /\ Calls \cap Sockets = {}
  BY RoomAssumption DEF Tasks

LEMMA OtherCalls ==
  ASSUME NEW x \in Tasks, NEW T \in SUBSET Sockets, Touches(x, T), NEW c \in Calls, c # x
  PROVE  task'[c] = task[c] /\ Running(c)' = Running(c)
  BY CallsAreTasks DEF Touches, Running

LEMMA OrderElsewhere ==
  ASSUME IInv, Order, NEW x \in Calls, Running(x), NEW T \in SUBSET Sockets,
         Touches(x, T), GoesOn(x), Running(x)' => CallOK(x)',
         \A u \in T : Running(u)' => LossOK(u)'
  PROVE  CallsOK' /\ InTurn' /\ LossesOK'
<1>0. x \in Tasks
  BY CallsAreTasks
<1>1. ASSUME NEW c \in Calls, c # x, Running(c)' PROVE CallOK(c)'
  <2>1. task'[c] = task[c] /\ Running(c) /\ CallOK(c)
    BY <1>0, <1>1, OtherCalls DEF Order, CallsOK
  <2>2. task[c].sock \in Sockets /\ Untouched(task[c].sock)
    BY <1>1, <2>1 DEF CallOK, Touches
  <2>3. task[c].pc \in {"dropMember", "dropInfo", "delInfo"} => ~conn'[task[c].found]
    <3>1. WellFormed(task[c])
      BY CallsAreTasks DEF IInv, TasksOK
    <3> QED  BY <2>1, <3>1 DEF CallOK, Touches, WellFormed
  <2>4. torn' = torn
    BY DEF Touches
  <2> QED  BY <2>1, <2>2, <2>3, <2>4 DEF CallOK, Untouched
<1>2. InTurn'
  <2> SUFFICES ASSUME NEW c \in Calls, NEW d \in Calls, Running(c)', Running(d)', c # d
               PROVE  /\ ~SamePerson(task'[c].sock, task'[d].sock)
                      /\ task'[c].pc \notin Deletion
    BY DEF InTurn
  <2>1. Running(c) /\ Running(d)
    BY <1>0, OtherCalls
  <2>2. ~SamePerson(task[c].sock, task[d].sock) /\ task[c].pc \notin Deletion
    BY <2>1 DEF Order, InTurn
  <2>3. /\ task'[c].sock = task[c].sock /\ task'[d].sock = task[d].sock
        /\ task'[c].pc \in Deletion => task[c].pc \in Deletion
    BY <1>0, OtherCalls DEF GoesOn
  <2> QED  BY <2>2, <2>3
<1>3. ASSUME NEW u \in Sockets, u \notin T, Running(u)' PROVE LossOK(u)'
  <2>1. task'[u] = task[u] /\ conn'[u] = conn[u]
    BY <1>3, CallsAreTasks DEF Touches, Untouched
  <2> QED  BY <1>3, <2>1 DEF LossOK, Order, LossesOK, Running
<1> QED  BY <1>1, <1>2, <1>3 DEF CallsOK, LossesOK

LEMMA RegistryElsewhere ==
  ASSUME IInv, Order, Registry, NEW x \in Calls, Running(x), NEW T \in SUBSET Sockets,
         Touches(x, T), GoesOn(x), Running(x)' => RequestOK(x)',
         \A u \in T \cup {task[x].sock} : ConnectionOK(u)',
         Doomed => Doomed' \/ (roomMembers'[Home] = {} /\ roomReady'[Home] = {})
  PROVE  Registry'
<1>0. x \in Tasks
  BY CallsAreTasks
<1>1. ASSUME NEW c \in Calls, c # x, Running(c)' PROVE RequestOK(c)'
  <2>1. task'[c] = task[c] /\ Running(c) /\ RequestOK(c)
    BY <1>0, <1>1, OtherCalls DEF Registry
  <2>2. task[c].sock \in Sockets /\ Untouched(task[c].sock)
    BY <1>1, <2>1 DEF Order, CallsOK, CallOK, Touches
  <2> QED
    BY <2>1, <2>2
       DEF RequestOK, Settled, Untouched, Member, Inside, Registered, Ready
<1>2. ASSUME NEW u \in Sockets, u \notin T, u # task[x].sock PROVE ConnectionOK(u)'
  <2>1. task'[u] = task[u] /\ Untouched(u) /\ ConnectionOK(u)
    BY <1>2, CallsAreTasks DEF Touches, Registry
  <2>2. Busy(u) => Busy(u)'
    <3>1. SUFFICES ASSUME NEW c \in Calls, Serves(c, u) PROVE Serves(c, u)'
      BY DEF Busy
    <3>2. c # x
      BY <1>2, <3>1 DEF Serves
    <3> QED  BY <1>0, <3>1, <3>2, OtherCalls DEF Serves
  <2>3. /\ Settled(u)' <=> Settled(u)
        /\ Member(u)' <=> Member(u)
        /\ Ready(u)' <=> Ready(u)
        /\ Inside(u)' <=> Inside(u)
        /\ Registered(u)' <=> Registered(u)
        /\ conn'[u] = conn[u]
    BY <2>1 DEF Settled, Untouched, Member, Inside, Registered, Ready
  <2>4. Doomed => Doomed' \/ (~Member(u)' /\ ~Ready(u)')
    BY DEF Member, Ready
  <2>5. torn' = torn
    BY DEF Touches
  <2> QED  BY <2>1, <2>2, <2>3, <2>4, <2>5 DEF ConnectionOK
<1> QED  BY <1>1, <1>2 DEF Registry

LEMMA OwnersElsewhere ==
  ASSUME IInv, Order, Ownership, NEW x \in Calls, Running(x), NEW T \in SUBSET Sockets,
         Touches(x, T), Running(x)' => OwnerOK(x)',
         \/ task[x].sock \in OwnerSockets
         \/ OwnerMembers' \subseteq OwnerMembers /\ roomOwner'[Home] = roomOwner[Home],
         AtMostOne(OwnerMembers)',
         roomOwner'[Home] = Null =>
           OwnerMembers' = {} \/ \E c \in Calls : task'[c].pc = "delRoom"
  PROVE  Ownership'
<1>1. ASSUME NEW c \in Calls, c # x, Running(c)' PROVE OwnerOK(c)'
  <2>1. task'[c] = task[c] /\ Running(c) /\ OwnerOK(c)
    BY <1>1, OtherCalls, CallsAreTasks DEF Ownership
  <2>2. CASE task[c].sock \in OwnerSockets
    <3>1. task[x].sock \notin OwnerSockets
      BY <1>1, <2>1, <2>2 DEF Order, InTurn, SamePerson
    <3> QED  BY <2>1, <3>1 DEF OwnerOK
  <2>3. CASE task[c].sock \notin OwnerSockets
    <3>1. CallOK(c)
      BY <2>1 DEF Order, CallsOK
    <3>2. task[c].pc \notin Replacing \cup Exiting
      BY <2>3, <3>1 DEF CallOK
    <3> QED  BY <2>1, <2>3, <3>2 DEF OwnerOK, Replacing, Exiting
  <2> QED  BY <2>2, <2>3
<1> QED  BY <1>1 DEF Ownership

LEMMA DeletionsElsewhere ==
  ASSUME IInv, Order, Deletions, NEW x \in Calls, Running(x), NEW T \in SUBSET Sockets,
         Touches(x, T), GoesOn(x),
         Running(x)' => DeletionOK(x)' /\ (task'[x].next = 1 \/ task'[x].pc = "delRoom"),
         Home \in deleted' => /\ KeysGone(7)'
                              /\ Home \in deleted \/ task[x].pc \in Deletion
                              /\ Running(x)' => task'[x].pc \in Harmless
  PROVE  Deletions'
<1>1. ASSUME NEW c \in Calls, c # x, Running(c)'
      PROVE  /\ DeletionOK(c)' /\ (task'[c].next = 1 \/ task'[c].pc = "delRoom")
             /\ Home \in deleted' =>
                  /\ task'[c].pc \in Harmless
                  /\ task'[c].pc = "toggleInfo" => ~Registered(task[c].sock)'
  <2>1. task'[c] = task[c] /\ Running(c)
    BY <1>1, OtherCalls, CallsAreTasks
  <2>2. task[c].pc \notin Deletion /\ task[x].pc \notin Deletion
    BY <1>1, <2>1 DEF Order, InTurn
  <2>3. DeletionOK(c)'
    BY <2>1, <2>2 DEF DeletionOK, Deletion
  <2>4. Untouched(task[c].sock)
    BY <1>1, <2>1 DEF Touches, Order, CallsOK, CallOK
  <2>5. Registered(task[c].sock)' => Registered(task[c].sock)
    BY <2>1, <2>4 DEF Untouched, Registered
  <2> QED  BY <2>1, <2>2, <2>3, <2>5 DEF Deletions
<1> QED  BY <1>1 DEF Deletions, GoesOn

\* What request x has to see to for its own sake.
Own(x) ==
  Running(x)' => /\ CallOK(x)' /\ RequestOK(x)' /\ OwnerOK(x)' /\ DeletionOK(x)'
                 /\ task'[x].next = 1 \/ task'[x].pc = "delRoom"

Invariants == Order /\ Registry /\ Ownership /\ Deletions

LEMMA CallStep ==
  ASSUME IInv, Invariants, NEW x \in Calls, Running(x), NEW T \in SUBSET Sockets,
         Touches(x, T), GoesOn(x), Own(x), OnlyHome', Identity',
         \A u \in T \cup {task[x].sock} : ConnectionOK(u)',
         \A u \in T : Running(u)' => LossOK(u)',
         Doomed => Doomed' \/ (roomMembers'[Home] = {} /\ roomReady'[Home] = {}),
         \/ task[x].sock \in OwnerSockets
         \/ OwnerMembers' \subseteq OwnerMembers /\ roomOwner'[Home] = roomOwner[Home],
         AtMostOne(OwnerMembers)',
         roomOwner'[Home] = Null =>
           OwnerMembers' = {} \/ \E c \in Calls : task'[c].pc = "delRoom",
         Home \in deleted' => /\ KeysGone(7)'
                              /\ Home \in deleted \/ task[x].pc \in Deletion
                              /\ Running(x)' => task'[x].pc \in Harmless
  PROVE  Invariants'
<1>1. Order'
  BY OrderElsewhere DEF Invariants, Order, Own
<1>2. Registry'
  BY RegistryElsewhere DEF Invariants, Own
<1>3. Ownership'
  BY OwnersElsewhere DEF Invariants, Own
<1>4. Deletions'
  BY DeletionsElsewhere DEF Invariants, Own
<1> QED  BY <1>1, <1>2, <1>3, <1>4 DEF Invariants

\* The registry is left alone.
Quiet ==
  /\ UNCHANGED <<roomOwner, roomMembers, roomReady, socketInfo, roomState, spinLock,
                 conn, rid, role, joined, deleted, torn, ownerToken>>
  /\ \A r \in Rooms : r # Home => roomConfig'[r] = roomConfig[r]

\* A step of a request that only reads, or writes the winnersCount.
LEMMA QuietStep ==
  ASSUME IInv, Invariants, NEW x \in Calls, Running(x), Quiet,
         \A y \in Tasks : y # x => task'[y] = task[y],
         GoesOn(x), Own(x), ~Running(x)' => Settled(task[x].sock),
         task[x].pc \notin {"delInfo", "delOwnInfo", "delRoom"},
         task[x].pc \in Harmless =>
           /\ roomConfig' = roomConfig
           /\ Home \in deleted => (Running(x)' => task'[x].pc \in Harmless)
  PROVE  Invariants'
<1>1. Touches(x, {})
  BY DEF Touches, Untouched, Quiet
<1>2. OnlyHome' /\ Identity'
  BY DEF Invariants, Order, OnlyHome, Identity, Registered, Quiet
<1>3. x \in Tasks /\ task[x].sock \in Sockets
  BY CallsAreTasks DEF Invariants, Order, CallsOK, CallOK
<1>4. Doomed => Doomed'
  <2>1. SUFFICES ASSUME NEW c \in Calls, task[c].pc \in {"delInfo", "delOwnInfo", "delRoom"}
                 PROVE  Doomed'
    BY DEF Doomed
  <2>2. task'[c] = task[c]
    BY <2>1, CallsAreTasks
  <2> QED  BY <2>1, <2>2 DEF Doomed
<1>5. ASSUME NEW s \in {task[x].sock} PROVE ConnectionOK(s)'
  <2>1. ConnectionOK(s) /\ s \in Sockets
    BY <1>3 DEF Invariants, Registry
  <2>2. Running(x)' => Busy(s)'
    BY DEF GoesOn, Busy, Serves
  <2>3. /\ Settled(s)' <=> Settled(s)
        /\ Member(s)' <=> Member(s)
        /\ Inside(s)' <=> Inside(s)
        /\ Ready(s)' <=> Ready(s)
        /\ Registered(s)' <=> Registered(s)
        /\ conn'[s] = conn[s] /\ torn' = torn
    BY DEF Quiet, Settled, Member, Inside, Registered, Ready
  <2>4. ~Running(x)' => Settled(s)
    OBVIOUS
  <2>5. task'[s] = task[s]
    BY <2>1, CallsAreTasks
  <2>6. CASE conn[s]
    BY <2>1, <2>2, <2>3, <2>4, <2>6 DEF ConnectionOK
  <2>7. CASE ~conn[s]
    BY <1>4, <2>1, <2>3, <2>5, <2>7 DEF ConnectionOK
  <2> QED  BY <2>6, <2>7
<1>6. OwnerMembers' = OwnerMembers /\ roomOwner' = roomOwner
  BY DEF OwnerMembers, Quiet
<1>7. roomOwner'[Home] = Null =>
        OwnerMembers' = {} \/ \E c \in Calls : task'[c].pc = "delRoom"
  <2>1. SUFFICES ASSUME NEW c \in Calls, task[c].pc = "delRoom"
                 PROVE  \E d \in Calls : task'[d].pc = "delRoom"
    BY <1>6 DEF Invariants, Ownership
  <2>2. task'[c] = task[c]
    BY <2>1, CallsAreTasks
  <2> QED  BY <2>1, <2>2
<1>8. Home \in deleted' => /\ KeysGone(7)'
                           /\ Home \in deleted \/ task[x].pc \in Deletion
                           /\ Running(x)' => task'[x].pc \in Harmless
  <2>1. SUFFICES ASSUME Home \in deleted
                 PROVE  KeysGone(7)' /\ (Running(x)' => task'[x].pc \in Harmless)
    BY DEF Quiet
  <2>2. task[x].pc \in Harmless /\ KeysGone(7)
    BY <2>1 DEF Invariants, Deletions
  <2> QED  BY <2>1, <2>2 DEF KeysGone, Quiet
<1>9. AtMostOne(OwnerMembers)'
  BY <1>6 DEF Invariants, Ownership, AtMostOne
<1>10. {} \in SUBSET Sockets
  OBVIOUS
<1> QED
  BY <1>1, <1>2, <1>4, <1>5, <1>6, <1>7, <1>8, <1>9, <1>10, CallStep
-----------------------------------------------------------------------------
(***************************************************************************)
(* What is known of a request at one of its steps.                         *)
(***************************************************************************)
LEMMA CallFacts ==
  ASSUME IInv, Invariants, NEW x \in Calls, Running(x)
  PROVE  /\ x \in Tasks /\ task[x] \in TaskStates /\ WellFormed(task[x])
         /\ task[x].room = Home /\ Home \in Rooms
         /\ task[x].sock \in Sockets /\ (task[x].pc \notin Astray => conn[task[x].sock])
         /\ CallOK(x) /\ RequestOK(x) /\ OwnerOK(x) /\ DeletionOK(x)
         /\ task[x].next = 1 \/ task[x].pc = "delRoom"
         /\ \A s \in Sockets : ConnectionOK(s)
<1>1. x \in Tasks /\ task[x] \in TaskStates /\ WellFormed(task[x])
  BY CallsAreTasks DEF IInv, TasksOK
<1>2. CallOK(x) /\ RequestOK(x) /\ OwnerOK(x) /\ DeletionOK(x)
  BY DEF Invariants, Order, CallsOK, Registry, Ownership, Deletions
<1>3. /\ task[x].room = Home /\ task[x].sock \in Sockets
      /\ task[x].pc \notin Astray => conn[task[x].sock]
  BY <1>2 DEF CallOK
<1>4. task[x].next = 1 \/ task[x].pc = "delRoom"
  BY DEF Invariants, Deletions
<1>5. \A s \in Sockets : ConnectionOK(s)
  BY DEF Invariants, Registry
<1> QED  BY <1>1, <1>2, <1>3, <1>4, <1>5, RoomAssumption

\* A socket that belongs to the person of a running request, and that the
\* request does not run for, has no request of its own.
LEMMA AloneOfPerson ==
  ASSUME Invariants, NEW x \in Calls, Running(x), NEW s \in Sockets,
         SamePerson(task[x].sock, s)
  PROVE  /\ \A c \in Calls : c # x /\ Running(c) => task[c].sock # s
         /\ s # task[x].sock => ~Busy(s)
  BY DEF Invariants, Order, InTurn, Busy, Serves, SamePerson

\* While a request that deletes nothing runs, no deletion does.
LEMMA NobodyIsDoomed ==
  ASSUME Invariants, NEW x \in Calls, Running(x), task[x].pc \notin Deletion
  PROVE  ~Doomed /\ \A c \in Calls : task[c].pc \notin Deletion
  BY DEF Invariants, Order, InTurn, Doomed, Running, Deletion

(***************************************************************************)
(* Moves of one task.                                                      *)
(***************************************************************************)
OthersStay(x) == \A y \in Tasks : y # x => task'[y] = task[y]

Keeps(x) ==
  /\ task'[x].sock = task[x].sock /\ task'[x].room = task[x].room
  /\ task'[x].rid = task[x].rid /\ task'[x].next = task[x].next
  /\ task'[x].home = task[x].home

KeepsAll(x) ==
  /\ Keeps(x)
  /\ task'[x].arg = task[x].arg /\ task'[x].todo = task[x].todo
  /\ task'[x].owner = task[x].owner /\ task'[x].found = task[x].found
  /\ task'[x].info = task[x].info /\ task'[x].then = task[x].then

LEMMA GoMoves ==
  ASSUME IInv, NEW x \in Tasks, NEW l \in Locations, Go(x, l)
  PROVE  OthersStay(x) /\ KeepsAll(x) /\ task'[x].pc = l
  BY DEF IInv, TasksOK, WellFormed, TaskStates, Go, Set, OthersStay, Keeps, KeepsAll

LEMMA CastMoves ==
  ASSUME IInv, NEW x \in Tasks, NEW r \in Rooms, NEW then, Cast(x, r, then)
  PROVE  /\ OthersStay(x)
         /\ task[x].room = r => Keeps(x)
         /\ task'[x].sock = task[x].sock
         /\ task'[x].pc = "castOwner" /\ task'[x].room = r /\ task'[x].then = then
  BY DEF IInv, TasksOK, WellFormed, TaskStates, Cast, Set, OthersStay, Keeps

LEMMA EndMoves ==
  ASSUME IInv, NEW x \in Tasks, task' = Finished(x) \/ Set(x, Ended)
  PROVE  OthersStay(x) /\ ~Running(x)'
  BY DEF IInv, TasksOK, Finished, Set, OthersStay, Running, Ended, NoTask

LEMMA ReadsAreQuiet ==
  ASSUME UNCHANGED <<redisVars, ownerToken, conn, rid, role, deleted, torn>>, UNCHANGED joined
  PROVE  Quiet /\ roomConfig' = roomConfig
  BY DEF Quiet, redisVars

LEMMA ReadsOnlyIsQuiet ==
  ASSUME ReadsOnly
  PROVE  Quiet /\ roomConfig' = roomConfig
  BY ReadsAreQuiet DEF ReadsOnly, OnlyRedis, sockVars

(***************************************************************************)
(* Quiet steps of a request that end it, or lead where little is needed.   *)
(***************************************************************************)
Plain == {"activity", "replyOwner", "replyConfig", "defaultConfig", "replyTitle",
          "replyState", "configSet", "ttlMembers", "ttlExpire"}

LEMMA EndStep ==
  ASSUME IInv, Invariants, NEW x \in Calls, Running(x), Quiet, roomConfig' = roomConfig,
         task' = Finished(x) \/ Set(x, Ended), Settled(task[x].sock),
         task[x].pc \notin {"delInfo", "delOwnInfo", "delRoom"}
  PROVE  Invariants'
<1>1. OthersStay(x) /\ ~Running(x)'
  BY CallsAreTasks, EndMoves
<1> QED  BY <1>1, QuietStep DEF OthersStay, GoesOn, Own

LEMMA PlainStep ==
  ASSUME IInv, Invariants, NEW x \in Calls, Running(x), Quiet, OthersStay(x), Keeps(x),
         task'[x].pc \in Plain \cup Casting,
         task[x].pc \in Astray => task'[x].pc \in Astray,
         \/ /\ task'[x].then # "leave" /\ Settled(task[x].sock)
            /\ task'[x].pc \in Casting => task'[x].then = "activity"
         \/ /\ task'[x].then = "leave" /\ task[x].then = "leave"
            /\ task[x].pc \in Casting /\ task'[x].pc \in Casting,
         task[x].pc \notin {"delInfo", "delOwnInfo", "delRoom"},
         task[x].pc \in Harmless =>
           /\ roomConfig' = roomConfig
           /\ Home \in deleted => task'[x].pc \in Harmless
  PROVE  Invariants'
<1>1. /\ CallOK(x) /\ RequestOK(x)
      /\ task[x].next = 1 \/ task[x].pc = "delRoom"
      /\ task[x].sock \in Sockets
  BY CallFacts
<1>2. Running(x)'
  BY DEF Running, Plain, Casting
<1>3. PICK s \in Sockets : s = task[x].sock
  BY <1>1
<1>4. task'[x].sock = s /\ conn'[s] = conn[s] /\ torn' = torn
  BY <1>3 DEF Keeps, Quiet
<1>5. CallOK(x)'
  BY <1>1, <1>3, <1>4 DEF CallOK, Keeps, Plain, Casting, Asking, Replacing, Exiting, Deleting, Going
<1>6. RequestOK(x)'
  <2>1. /\ Settled(s)' <=> Settled(s)
        /\ Member(s)' <=> Member(s)
        /\ Inside(s)' <=> Inside(s)
        /\ Registered(s)' <=> Registered(s)
    BY <1>4 DEF Quiet, Settled, Member, Inside, Registered
  <2>2. CASE task'[x].then # "leave"
    BY <1>3, <1>4, <2>1, <2>2 DEF RequestOK, Plain, Casting, Asking, Replacing
  <2>3. CASE task'[x].then = "leave"
    <3>1. /\ task[x].then = "leave" /\ task[x].pc \in Casting /\ task'[x].pc \in Casting
      BY <2>3
    <3>2. ~Member(s) /\ ~Registered(s)
      BY <1>1, <1>3, <3>1 DEF RequestOK
    <3> QED  BY <1>4, <2>1, <2>3, <3>1, <3>2 DEF RequestOK, Casting, Asking, Replacing
  <2> QED  BY <2>2, <2>3
<1>7. OwnerOK(x)' /\ DeletionOK(x)'
  BY DEF OwnerOK, DeletionOK, Plain, Casting
<1>8. task'[x].pc \notin Deletion \cup {"toggleInfo"} /\ task'[x].next = 1
  BY <1>1 DEF Plain, Casting, Deletion, Keeps
<1> QED
  BY <1>2, <1>4, <1>5, <1>6, <1>7, <1>8, QuietStep DEF OthersStay, GoesOn, Own, Keeps
-----------------------------------------------------------------------------
(***************************************************************************)
(* The quiet steps of a request.                                           *)
(***************************************************************************)
LEMMA ControlStep ==
  ASSUME IInv, Invariants, NEW x \in Calls, PassThrough(x) \/ ReplyState(x) \/ Close(x)
  PROVE  Invariants'
<1>1. Running(x) /\ task[x].pc \in Plain
  BY DEF PassThrough, Onward, ReplyState, Close, At, Running, Plain
<1>2. /\ x \in Tasks /\ RequestOK(x) /\ CallOK(x) /\ task[x].room = Home /\ Home \in Rooms
  BY <1>1, CallFacts
<1>3. Settled(task[x].sock) /\ task[x].then # "leave"
  BY <1>1, <1>2 DEF RequestOK, CallOK, Plain, Casting, Going
<1>4. CASE PassThrough(x)
  <2>1. /\ task[x].pc \in {"replyOwner", "replyTitle", "ttlMembers"}
        /\ Onward[task[x].pc] \in {"replyConfig", "replyState", "ttlExpire"}
    BY <1>4 DEF PassThrough, Onward
  <2>2. /\ OthersStay(x) /\ KeepsAll(x)
        /\ task'[x].pc \in {"replyConfig", "replyState", "ttlExpire"}
    BY <1>2, <1>4, <2>1, GoMoves DEF PassThrough, Locations
  <2>3. Quiet /\ roomConfig' = roomConfig
    BY <1>4, ReadsOnlyIsQuiet DEF PassThrough
  <2> QED
    BY <1>1, <1>3, <2>1, <2>2, <2>3, PlainStep DEF KeepsAll, Plain, Casting, Astray, ToggleSteps, Harmless
<1>5. CASE ReplyState(x)
  <2>1. /\ OthersStay(x) /\ Keeps(x) /\ task[x].pc = "replyState"
        /\ task'[x].pc = "castOwner" /\ task'[x].then = "activity"
    BY <1>2, <1>5, CastMoves DEF ReplyState, At
  <2>2. Quiet /\ roomConfig' = roomConfig
    BY <1>5, ReadsOnlyIsQuiet DEF ReplyState
  <2> QED
    BY <1>1, <1>3, <2>1, <2>2, PlainStep DEF Plain, Casting, Astray, ToggleSteps, Harmless
<1>6. CASE Close(x)
  <2>1. Quiet /\ roomConfig' = roomConfig
    BY <1>3, <1>6, ReadsAreQuiet DEF Close, LeaveRoom
  <2>2. task' = Finished(x) /\ task[x].pc \in {"activity", "ttlExpire"}
    BY <1>6 DEF Close
  <2> QED  BY <1>1, <1>3, <2>1, <2>2, EndStep
<1> QED  BY <1>4, <1>5, <1>6

LEMMA SettingsStep ==
  ASSUME IInv, Invariants, NEW x \in Calls,
         ToggleInfo(x) \/ NickInfo(x) \/ ConfigOwner(x) \/ ConfigSet(x)
  PROVE  Invariants'
<1>1. /\ Running(x) /\ task[x].pc \in {"toggleInfo", "nickInfo", "configOwner", "configSet"}
      /\ task[x].pc \in Astray => task[x].pc = "toggleInfo"
  BY DEF Astray, ToggleSteps, Casting, ToggleInfo, NickInfo, ConfigOwner, ConfigSet, At, Running
<1>2. /\ x \in Tasks /\ RequestOK(x) /\ CallOK(x) /\ task[x].room = Home /\ Home \in Rooms
      /\ task[x].next = 1 /\ task[x] \in TaskStates /\ task[x].sock \in Sockets
      /\ task[x].pc # "toggleInfo" => conn[task[x].sock]
  BY <1>1, CallFacts DEF Astray, ToggleSteps, Casting
<1>3. Settled(task[x].sock) /\ task[x].then # "leave"
  BY <1>1, <1>2 DEF RequestOK, CallOK, Casting, Going
<1>4. CASE ToggleInfo(x)
  <2>1. Quiet /\ roomConfig' = roomConfig /\ task[x].pc = "toggleInfo"
    BY <1>4, ReadsOnlyIsQuiet DEF ToggleInfo, At
  <2>2. CASE Set(x, Ended)
    BY <1>1, <1>3, <2>1, <2>2, EndStep
  <2>3. CASE Registered(task[x].sock) /\ socketInfo[task[x].sock].role = "participant"
             /\ Go(x, "toggleWrite")
    <3>1. OthersStay(x) /\ KeepsAll(x) /\ task'[x].pc = "toggleWrite"
      BY <1>2, <2>3, GoMoves DEF Locations
    <3>2. task[x].sock \notin OwnerSockets
      BY <1>2, <2>3 DEF Registered, Invariants, Order, Identity, InfoOf, SeatedRole
    <3>3. PICK s \in Sockets : s = task[x].sock
      BY <1>2
    <3>4. task'[x].sock = s /\ conn'[s] = conn[s] /\ torn' = torn
      BY <2>1, <3>1, <3>3 DEF Keeps, KeepsAll, Quiet
    <3>5. CallOK(x)'
      BY <1>2, <1>3, <3>1, <3>2, <3>3, <3>4
         DEF Astray, ToggleSteps, CallOK, Keeps, KeepsAll, Casting, Asking, Replacing, Exiting, Deleting, Going
    <3>6. RequestOK(x)'
      <4>1. Settled(s)' /\ Registered(s)'
        BY <1>3, <2>1, <2>3, <3>3
           DEF Quiet, Settled, Member, Inside, Registered
      <4> QED  BY <3>1, <3>4, <4>1 DEF RequestOK, Asking, Replacing, Casting
    <3>7. OwnerOK(x)' /\ DeletionOK(x)'
      BY <3>1 DEF OwnerOK, DeletionOK
    <3>8. Home \notin deleted
      <4>1. SUFFICES ASSUME Home \in deleted PROVE FALSE
        OBVIOUS
      <4>2. ~Registered(task[x].sock)
        BY <1>1, <2>1, <4>1 DEF Invariants, Deletions
      <4> QED  BY <2>3, <4>2
    <3> QED
      BY <1>1, <1>2, <1>3, <2>1, <3>1, <3>4, <3>5, <3>6, <3>7, <3>8, QuietStep
         DEF OthersStay, GoesOn, Own, Keeps, KeepsAll, Deletion
  <2> QED  BY <1>4, <2>2, <2>3 DEF ToggleInfo, Registered
<1>5. CASE NickInfo(x)
  <2>1. Quiet /\ roomConfig' = roomConfig /\ task[x].pc = "nickInfo"
    BY <1>5, ReadsOnlyIsQuiet DEF NickInfo, At
  <2>2. CASE Cast(x, task[x].room, "activity")
    <3>1. /\ OthersStay(x) /\ Keeps(x)
          /\ task'[x].pc = "castOwner" /\ task'[x].then = "activity"
      BY <1>2, <2>2, CastMoves
    <3> QED
      BY <1>1, <1>3, <2>1, <3>1, PlainStep DEF Plain, Casting, Astray, ToggleSteps, Harmless
  <2>3. CASE /\ Registered(task[x].sock)
             /\ Set(x, [task[x] EXCEPT !.pc = "nickSet", !.info = socketInfo[task[x].sock]])
    <3>1. /\ OthersStay(x) /\ Keeps(x) /\ task'[x].pc = "nickSet"
          /\ task'[x].info = socketInfo[task[x].sock]
          /\ task'[x].then = task[x].then
      BY <1>2, <2>3 DEF IInv, TasksOK, TaskStates, Set, OthersStay, Keeps
    <3>2. socketInfo[task[x].sock] = InfoOf(task[x].sock)
      BY <1>2, <2>3 DEF Registered, Invariants, Order, Identity
    <3>3. PICK s \in Sockets : s = task[x].sock
      BY <1>2
    <3>4. task'[x].sock = s /\ conn'[s] = conn[s]
      BY <2>1, <3>1, <3>3 DEF Keeps, Quiet
    <3>5. CallOK(x)'
      BY <1>2, <1>3, <2>1, <3>1, <3>2, <3>3, <3>4
         DEF CallOK, Keeps, Casting, Asking, Replacing, Exiting, Deleting, Going
    <3>6. RequestOK(x)'
      <4>1. Settled(s)' /\ Registered(s)'
        BY <1>3, <2>1, <2>3, <3>3
           DEF Quiet, Settled, Member, Inside, Registered
      <4> QED  BY <3>1, <3>4, <4>1 DEF RequestOK, Asking, Replacing, Casting
    <3>7. OwnerOK(x)' /\ DeletionOK(x)'
      BY <3>1 DEF OwnerOK, DeletionOK
    <3>8. Home \notin deleted
      <4>1. SUFFICES ASSUME Home \in deleted PROVE FALSE
        OBVIOUS
      <4>2. roomMembers[Home] = {}
        BY <4>1 DEF Invariants, Deletions, KeysGone
      <4> QED  BY <1>2, <1>3, <2>1, <2>3, <4>2 DEF Settled, Member
    <3> QED
      BY <1>1, <1>2, <1>3, <2>1, <3>1, <3>4, <3>5, <3>6, <3>7, <3>8, QuietStep
         DEF OthersStay, GoesOn, Own, Keeps, Deletion
  <2> QED  BY <1>5, <2>2, <2>3 DEF NickInfo, Registered
<1>6. CASE ConfigOwner(x)
  <2>1. Quiet /\ roomConfig' = roomConfig /\ task[x].pc = "configOwner"
    BY <1>6, ReadsOnlyIsQuiet DEF ConfigOwner, At
  <2>2. CASE Set(x, Ended)
    BY <1>1, <1>3, <2>1, <2>2, EndStep
  <2>3. CASE Go(x, "configSet") /\ roomOwner[Home] = task[x].rid
    <3>1. OthersStay(x) /\ KeepsAll(x) /\ task'[x].pc = "configSet"
      BY <1>2, <2>3, GoMoves DEF Locations
    <3>2. Home \notin deleted
      <4>1. SUFFICES ASSUME Home \in deleted PROVE FALSE
        OBVIOUS
      <4>2. roomOwner[Home] = Null
        BY <4>1 DEF Invariants, Deletions, KeysGone
      <4> QED
        BY <1>2, <2>3, <4>2, RoomAssumption DEF CallOK, RidOf
    <3> QED
      BY <1>1, <1>3, <2>1, <3>1, <3>2, PlainStep DEF KeepsAll, Plain, Casting, Astray, ToggleSteps
  <2> QED  BY <1>2, <1>6, <2>2, <2>3 DEF ConfigOwner
<1>7. CASE ConfigSet(x)
  <2>1. /\ OthersStay(x) /\ KeepsAll(x) /\ task'[x].pc = "activity"
    BY <1>2, <1>7, GoMoves DEF ConfigSet, Locations
  <2>2. Quiet /\ task[x].pc = "configSet"
    <3>1. PICK w \in WinnersCounts : SetRoomConfig(Home, w)
      BY <1>2, <1>7 DEF ConfigSet
    <3> QED
      BY <1>7, <3>1 DEF ConfigSet, At, OnlyRedis, sockVars, SetRoomConfig, Quiet, IInv, RedisTypeOK
  <2> QED
    BY <1>1, <1>3, <2>1, <2>2, PlainStep DEF KeepsAll, Plain, Casting, Astray, ToggleSteps, Harmless
<1> QED  BY <1>4, <1>5, <1>6, <1>7
-----------------------------------------------------------------------------
(***************************************************************************)
(* The broadcast of a request.                                             *)
(***************************************************************************)
\* A step that is quiet but for the socket it runs for.
AtSock(x) == {task[x].sock}

LEMMA SockIsOwn ==
  ASSUME IInv, Invariants, NEW x \in Calls, Running(x), OthersStay(x),
         \A u \in Sockets : u # task[x].sock => Untouched(u),
         \A u \in Sockets : conn'[u] => conn[u], torn' = torn
  PROVE  AtSock(x) \in SUBSET Sockets /\ Touches(x, AtSock(x))
<1>1. task[x].sock \in Sockets
  BY CallFacts
<1>2. \A c \in Calls : c # x /\ Running(c) => task[c].sock # task[x].sock
  BY <1>1, AloneOfPerson DEF SamePerson
<1> QED  BY <1>1, <1>2 DEF Touches, OthersStay, AtSock

\* The handler of the socket, if it is lost, goes on unhindered by request x.
LEMMA LossGoesOn ==
  ASSUME IInv, Invariants, NEW x \in Calls, Running(x), OthersStay(x), conn' = conn
  PROVE  \A u \in AtSock(x) : Running(u)' => LossOK(u)'
<1>1. SUFFICES ASSUME NEW u \in Sockets, Running(u)' PROVE LossOK(u)'
  BY CallFacts DEF AtSock
<1>2. task'[u] = task[u] /\ Running(u)
  BY <1>1, CallsAreTasks DEF OthersStay, Running
<1> QED  BY <1>2 DEF Invariants, Order, LossesOK, LossOK

LEMMA CastDoneStep ==
  ASSUME IInv, Invariants, NEW x \in Calls, Running(x), task[x].pc \in Casting,
         UNCHANGED <<redisVars, ownerToken, conn, rid, role, deleted, torn>>, CastDone(x)
  PROVE  Invariants'
<1>1. /\ x \in Tasks /\ RequestOK(x) /\ CallOK(x) /\ task[x].room = Home /\ Home \in Rooms
      /\ task[x].next = 1 /\ task[x].sock \in Sockets
      /\ task[x].then = "leave" => conn[task[x].sock]
  BY CallFacts DEF Casting, CallOK
<1>2. CASE task[x].then = "activity"
  <2>1. Settled(task[x].sock)
    BY <1>1, <1>2 DEF RequestOK, Casting
  <2>2. OthersStay(x) /\ KeepsAll(x) /\ task'[x].pc = "activity"
    BY <1>1, <1>2, GoMoves DEF CastDone, Locations
  <2>3. Quiet /\ roomConfig' = roomConfig
    BY <1>2, ReadsAreQuiet DEF CastDone
  <2> QED
    BY <1>2, <2>1, <2>2, <2>3, PlainStep DEF KeepsAll, Plain, Casting, Astray, Harmless
<1>3. CASE task[x].then = "leave"
  <2>1. task' = Finished(x) /\ joined' = [joined EXCEPT ![task[x].sock] = @ \ {Home}]
    BY <1>1, <1>3 DEF CastDone, LeaveRoom, CallOK
  <2>2. OthersStay(x) /\ ~Running(x)'
    BY <1>1, <2>1, EndMoves
  <2>3. joined \in [Sockets -> SUBSET Rooms]
    BY DEF IInv, SocketsOK
  <2>4. AtSock(x) \in SUBSET Sockets /\ Touches(x, AtSock(x))
    BY <2>1, <2>2, <2>3, SockIsOwn DEF redisVars, Untouched
  <2>5. OnlyHome' /\ Identity'
    BY <2>1, <2>3 DEF Invariants, Order, OnlyHome, Identity, Registered, redisVars
  <2>6. PICK s \in Sockets : s = task[x].sock
    BY <1>1
  <2>7. ConnectionOK(s)'
    <3>1. ~Member(s) /\ ~Registered(s)
      BY <1>1, <1>3, <2>6 DEF RequestOK
    <3>2. ConnectionOK(s) /\ conn'[s]
      BY <1>1, <1>3, <2>6 DEF Invariants, Registry
    <3>3. ~Member(s)' /\ ~Inside(s)' /\ ~Registered(s)' /\ (Ready(s)' <=> Ready(s))
      BY <2>1, <2>3, <2>6, <3>1 DEF redisVars, Member, Inside, Registered, Ready
    <3> QED  BY <1>1, <1>3, <2>6, <3>1, <3>2, <3>3 DEF ConnectionOK, Settled
  <2>8. \A u \in AtSock(x) : Running(u)' => LossOK(u)'
    BY <2>2, LossGoesOn
  <2>9. ~Doomed /\ \A c \in Calls : task[c].pc \notin Deletion
    BY NobodyIsDoomed DEF Deletion, Casting
  <2>10. OwnerMembers' = OwnerMembers /\ roomOwner' = roomOwner
    BY DEF OwnerMembers, redisVars
  <2>11. AtMostOne(OwnerMembers)'
    BY <2>10 DEF Invariants, Ownership, AtMostOne
  <2>12. roomOwner'[Home] = Null => OwnerMembers' = {}
    BY <2>9, <2>10 DEF Invariants, Ownership, Deletion
  <2>13. Home \in deleted' => KeysGone(7)' /\ Home \in deleted
    BY DEF Invariants, Deletions, KeysGone, redisVars
  <2> QED
    BY <2>2, <2>4, <2>5, <2>6, <2>7, <2>8, <2>9, <2>10, <2>11, <2>12, <2>13, CallStep
       DEF GoesOn, Own, AtSock
<1> QED  BY <1>1, <1>2, <1>3 DEF CallOK

LEMMA BroadcastStep ==
  ASSUME IInv, Invariants, NEW x \in Calls, Broadcast(x)
  PROVE  Invariants'
<1>1. Running(x) /\ task[x].pc \in Casting
  BY DEF Broadcast, CastOwner, CastMembers, CastReady, CastInfo, At, Running, Casting
<1>2. /\ x \in Tasks /\ RequestOK(x) /\ CallOK(x) /\ task[x].room = Home /\ Home \in Rooms
      /\ task[x].next = 1 /\ task[x] \in TaskStates
  BY <1>1, CallFacts DEF Casting
<1>3. CASE /\ UNCHANGED <<redisVars, ownerToken, conn, rid, role, deleted, torn>> /\ CastDone(x)
  BY <1>1, <1>3, CastDoneStep
<1>4. CASE /\ Quiet /\ roomConfig' = roomConfig /\ OthersStay(x) /\ Keeps(x)
           /\ task'[x].pc \in Casting /\ task'[x].then = task[x].then
           /\ Home \in deleted => task[x].pc # "castOwner"
  <2>1. \/ task[x].then = "activity" /\ Settled(task[x].sock)
        \/ task[x].then = "leave"
    BY <1>1, <1>2 DEF CallOK, RequestOK, Casting
  <2> QED
    BY <1>1, <1>4, <2>1, PlainStep DEF Casting, Astray, Harmless
<1>5. CASE CastOwner(x)
  <2>1. CASE roomOwner[Home] # Null
    <3>1. /\ Set(x, [task[x] EXCEPT !.pc = "castMembers", !.owner = roomOwner[Home],
                                    !.found = Null, !.parts = {}])
          /\ UNCHANGED joined
      BY <1>2, <1>5, <2>1 DEF CastOwner
    <3>2. OthersStay(x) /\ Keeps(x) /\ task'[x].pc \in Casting /\ task'[x].then = task[x].then
      BY <1>2, <3>1 DEF IInv, TasksOK, TaskStates, Set, OthersStay, Keeps, Casting
    <3>3. Home \notin deleted
      BY <2>1 DEF Invariants, Deletions, KeysGone
    <3> QED  BY <1>4, <1>5, <3>1, <3>2, <3>3, ReadsAreQuiet DEF CastOwner
  <2> QED  BY <1>2, <1>3, <1>5, <2>1 DEF CastOwner
<1>6. CASE CastMembers(x)
  <2>1. OthersStay(x) /\ Keeps(x) /\ task'[x].pc \in Casting /\ task'[x].then = task[x].then
    BY <1>2, <1>6 DEF CastMembers, IInv, TasksOK, TaskStates, Set, OthersStay, Keeps, Casting
  <2> QED  BY <1>4, <1>6, <2>1, ReadsOnlyIsQuiet DEF CastMembers, At
<1>7. CASE CastReady(x)
  <2>1. CASE task[x].todo # {}
    <3>1. /\ Set(x, [task[x] EXCEPT !.pc = "castInfo", !.ready = roomReady[Home]])
          /\ UNCHANGED joined
      BY <1>2, <1>7, <2>1 DEF CastReady
    <3>2. OthersStay(x) /\ Keeps(x) /\ task'[x].pc \in Casting /\ task'[x].then = task[x].then
      BY <1>2, <3>1 DEF IInv, TasksOK, TaskStates, Set, OthersStay, Keeps, Casting
    <3> QED  BY <1>4, <1>7, <3>1, <3>2, ReadsAreQuiet DEF CastReady, At
  <2> QED  BY <1>3, <1>7, <2>1 DEF CastReady
<1>8. CASE CastInfo(x)
  <2>1. PICK m \in task[x].todo :
          \/ Set(x, Sorted(task[x], m)) /\ UNCHANGED <<view, joined>>
          \/ CastDone(x)
    BY <1>8 DEF CastInfo
  <2>2. CASE Set(x, Sorted(task[x], m)) /\ UNCHANGED <<view, joined>>
    <3>1. OthersStay(x) /\ Keeps(x) /\ task'[x].pc \in Casting /\ task'[x].then = task[x].then
      BY <1>1, <1>2, <2>2 DEF Sorted, IInv, TasksOK, TaskStates, Set, OthersStay, Keeps
    <3> QED  BY <1>4, <1>8, <2>2, <3>1, ReadsAreQuiet DEF CastInfo, At
  <2> QED  BY <1>3, <1>8, <2>1, <2>2 DEF CastInfo
<1> QED  BY <1>5, <1>6, <1>7, <1>8 DEF Broadcast
-----------------------------------------------------------------------------
(***************************************************************************)
(* The quiet steps of a join.                                              *)
(***************************************************************************)
\* From one step of an owner's join to the next, up to its first write.
LEMMA SeekStep ==
  ASSUME IInv, Invariants, NEW x \in Calls, Running(x), Quiet, OthersStay(x), Keeps(x),
         roomConfig' = roomConfig, Home \notin deleted, task[x].pc \in Asking \cup Replacing,
         task'[x].pc \in Replacing \cup {"joinOwner"}, task'[x].pc # "dropInfo",
         task'[x].pc \in Replacing => task[x].pc \in Replacing,
         task'[x].arg = task[x].arg, task'[x].then = task[x].then,
         task'[x].found \in OwnerSockets \cup {Null}, task'[x].found # task[x].sock,
         task'[x].pc \in {"joinOwner", "activeOwner", "activeMembers"} => task'[x].found = Null,
         task'[x].pc \in {"activeMembers", "activeInfo"} => task'[x].owner = Home,
         task'[x].pc = "activeInfo" => task[x].sock \notin task'[x].todo,
         task'[x].pc = "dropMember" => ~conn[task'[x].found],
         OwnerOK(x)'
  PROVE  Invariants'
<1>1. /\ CallOK(x) /\ RequestOK(x) /\ task[x].next = 1
      /\ task[x].sock \in Sockets /\ conn[task[x].sock]
  BY CallFacts DEF Asking, Replacing, Astray, ToggleSteps, Casting
<1>2. PICK s \in Sockets : s = task[x].sock
  BY <1>1
<1>3. task'[x].sock = s /\ conn'[s] /\ conn' = conn
  BY <1>1, <1>2 DEF Keeps, Quiet
<1>4. CallOK(x)'
  BY <1>1, <1>2, <1>3
     DEF CallOK, Keeps, Quiet, Casting, Asking, Replacing, Exiting, Deleting, Going
<1>5. RequestOK(x)'
  <2>1. ~Member(s) /\ ~Inside(s) /\ ~Registered(s)
    BY <1>1, <1>2 DEF RequestOK
  <2>2. ~Member(s)' /\ ~Inside(s)' /\ ~Registered(s)'
    BY <2>1 DEF Quiet, Member, Inside, Registered
  <2> QED  BY <1>3, <2>2 DEF RequestOK, Asking, Replacing, Settled, Casting
<1>6. DeletionOK(x)' /\ task'[x].pc \notin Deletion
  BY DEF DeletionOK, Replacing, Deletion
<1>7. ~Running(x)' => Settled(task[x].sock)
  BY DEF Running, Replacing
<1> QED
  BY <1>1, <1>3, <1>4, <1>5, <1>6, <1>7, QuietStep
     DEF OthersStay, GoesOn, Own, Keeps, Asking, Replacing, Harmless, Quiet

LEMMA JoinReadStep ==
  ASSUME IInv, Invariants, NEW x \in Calls,
         CheckToken(x) \/ ActiveOwner(x) \/ ActiveMembers(x)
  PROVE  Invariants'
<1>1. Running(x) /\ task[x].pc \in {"joinToken", "activeOwner", "activeMembers"}
  BY DEF CheckToken, ActiveOwner, ActiveMembers, At, Running
<1>2. /\ x \in Tasks /\ RequestOK(x) /\ CallOK(x) /\ task[x].room = Home /\ Home \in Rooms
      /\ task[x].next = 1 /\ task[x] \in TaskStates /\ task[x].sock \in Sockets
  BY <1>1, CallFacts
<1>3. /\ ~Member(task[x].sock) /\ Settled(task[x].sock)
      /\ task[x].found = Null /\ Null \notin Sockets /\ OwnerSockets \subseteq Sockets
  BY <1>1, <1>2, RoomAssumption DEF RequestOK, CallOK, Asking, Replacing, Settled
<1>4. Quiet /\ roomConfig' = roomConfig
  BY ReadsOnlyIsQuiet DEF CheckToken, ActiveOwner, ActiveMembers
<1>5. Home \in deleted => task[x].pc = "joinToken" /\ ~ownerToken[Home]
  BY <1>1 DEF Invariants, Deletions, KeysGone, Harmless
<1>6. CASE CheckToken(x)
  <2>1. CASE Set(x, Ended)
    BY <1>1, <1>3, <1>4, <2>1, EndStep
  <2>2. CASE ownerToken[Home] /\ Go(x, "joinOwner")
    <3>1. OthersStay(x) /\ KeepsAll(x) /\ task'[x].pc = "joinOwner"
      BY <1>2, <2>2, GoMoves DEF Locations
    <3>2. task[x].pc = "joinToken"
      BY <1>6 DEF CheckToken, At
    <3>3. OwnerOK(x)'
      BY <3>1 DEF OwnerOK
    <3> QED
      BY <1>1, <1>2, <1>3, <1>4, <1>5, <2>2, <3>1, <3>2, <3>3, SeekStep
         DEF KeepsAll, Asking, Replacing
  <2> QED  BY <1>2, <1>6, <2>1, <2>2 DEF CheckToken
<1>7. ASSUME Go(x, "ensureOwner"), task[x].pc \in {"activeOwner", "activeMembers"},
             OwnerMembers = {}
      PROVE  Invariants'
  <2>1. OthersStay(x) /\ KeepsAll(x) /\ task'[x].pc = "ensureOwner"
    BY <1>2, <1>7, GoMoves DEF Locations
  <2>2. OwnerOK(x)'
    BY <1>4, <1>7, <2>1 DEF OwnerOK, OwnerMembers, Quiet
  <2> QED
    BY <1>1, <1>2, <1>3, <1>4, <1>5, <1>7, <2>1, <2>2, SeekStep
       DEF KeepsAll, Asking, Replacing
<1>8. CASE ActiveOwner(x)
  <2>0. task[x].pc = "activeOwner"
    BY <1>8 DEF ActiveOwner, At
  <2>1. CASE roomOwner[Home] = Null
    <3>1. OwnerMembers = {}
      BY <1>1, <2>1, NobodyIsDoomed DEF Invariants, Ownership, Deletion
    <3> QED  BY <1>2, <1>7, <1>8, <2>0, <2>1, <3>1 DEF ActiveOwner
  <2>2. CASE roomOwner[Home] # Null
    <3>1. roomOwner[Home] = Home
      BY <2>2 DEF Invariants, Order, OnlyHome
    <3>2. Set(x, [task[x] EXCEPT !.pc = "activeMembers", !.owner = Home])
      BY <1>2, <1>8, <2>2, <3>1 DEF ActiveOwner
    <3>3. /\ OthersStay(x) /\ Keeps(x) /\ task'[x].pc = "activeMembers"
          /\ task'[x].owner = Home /\ task'[x].arg = task[x].arg
          /\ task'[x].then = task[x].then /\ task'[x].found = task[x].found
      BY <1>2, <3>2 DEF IInv, TasksOK, TaskStates, Set, OthersStay, Keeps
    <3>4. OwnerOK(x)'
      BY <3>3 DEF OwnerOK
    <3> QED
      BY <1>1, <1>2, <1>3, <1>4, <1>5, <2>0, <3>3, <3>4, SeekStep
         DEF Asking, Replacing
  <2> QED  BY <2>1, <2>2
<1>9. CASE ActiveMembers(x)
  <2>0. task[x].pc = "activeMembers"
    BY <1>9 DEF ActiveMembers, At
  <2>1. CASE roomMembers[Home] = {}
    BY <1>2, <1>7, <1>9, <2>0, <2>1 DEF ActiveMembers, OwnerMembers
  <2>2. CASE roomMembers[Home] # {}
    <3>1. Set(x, [task[x] EXCEPT !.pc = "activeInfo", !.todo = roomMembers[Home]])
      BY <1>2, <1>9, <2>2 DEF ActiveMembers
    <3>2. /\ OthersStay(x) /\ Keeps(x) /\ task'[x].pc = "activeInfo"
          /\ task'[x].todo = roomMembers[Home]
          /\ task'[x].owner = task[x].owner /\ task'[x].arg = task[x].arg
          /\ task'[x].then = task[x].then /\ task'[x].found = task[x].found
      BY <1>2, <3>1 DEF IInv, TasksOK, TaskStates, Set, OthersStay, Keeps
    <3>3. OwnerOK(x)'
      <4>1. AtMostOne(OwnerMembers)
        BY DEF Invariants, Ownership
      <4>2. OwnerMembers' = OwnerMembers
        BY <1>4 DEF OwnerMembers, Quiet
      <4> QED
        BY <1>3, <3>2, <4>1, <4>2 DEF OwnerOK, OwnerMembers, AtMostOne
    <3>4. task'[x].owner = Home /\ task[x].sock \notin task'[x].todo
      BY <1>2, <1>3, <2>0, <3>2 DEF CallOK, Member
    <3> QED
      BY <1>1, <1>2, <1>3, <1>4, <1>5, <2>0, <3>2, <3>3, <3>4, SeekStep
         DEF Asking, Replacing
  <2> QED  BY <2>1, <2>2
<1> QED  BY <1>6, <1>8, <1>9
-----------------------------------------------------------------------------
(***************************************************************************)
(* The steps of a request that write about the socket it runs for.         *)
(***************************************************************************)
LEMMA NotDeleted ==
  ASSUME Invariants, NEW x \in Calls, Running(x), task[x].pc \notin Harmless
  PROVE  Home \notin deleted
  BY DEF Invariants, Deletions

LEMMA SockStep ==
  ASSUME IInv, Invariants, NEW x \in Calls, Running(x),
         task[x].pc \notin Deletion, Home \notin deleted, OthersStay(x),
         \A u \in Sockets : u # task[x].sock => Untouched(u),
         conn' = conn, deleted' = deleted, torn' = torn, GoesOn(x), Own(x), OnlyHome', Identity',
         \A s \in AtSock(x) : ConnectionOK(s)',
         \/ task[x].sock \in OwnerSockets /\ AtMostOne(OwnerMembers)'
         \/ OwnerMembers' = OwnerMembers /\ roomOwner'[Home] = roomOwner[Home],
         roomOwner'[Home] = Null => roomOwner[Home] = Null \/ OwnerMembers' = {},
         roomOwner'[Home] = Null => OwnerMembers' \subseteq OwnerMembers
  PROVE  Invariants'
<1>1. AtSock(x) \in SUBSET Sockets /\ Touches(x, AtSock(x)) /\ x \in Tasks
  BY SockIsOwn, CallsAreTasks
<1>2. \A u \in AtSock(x) : Running(u)' => LossOK(u)'
  BY LossGoesOn
<1>3. ~Doomed /\ \A c \in Calls : task[c].pc \notin Deletion
  BY NobodyIsDoomed
<1>4. AtMostOne(OwnerMembers)'
  <2>1. CASE OwnerMembers' = OwnerMembers
    BY <2>1 DEF Invariants, Ownership, AtMostOne
  <2> QED  BY <2>1
<1>5. roomOwner'[Home] = Null => OwnerMembers' = {}
  BY <1>3 DEF Invariants, Ownership, Deletion
<1>6. Home \notin deleted'
  OBVIOUS
<1> QED
  BY <1>1, <1>2, <1>3, <1>4, <1>5, <1>6, CallStep DEF AtSock

LEMMA EnterStep ==
  ASSUME IInv, Invariants, NEW x \in Calls, EnterRoom(x),
         task[x].pc \in {"ensureOwner", "setOwner", "joinConfig"},
         UNCHANGED <<roomMembers, roomReady, socketInfo, roomState, spinLock,
                     ownerToken, conn, rid, role, deleted, torn>>,
         \A r \in Rooms : r # Home => roomConfig'[r] = roomConfig[r] /\ roomOwner'[r] = roomOwner[r],
         IF task[x].sock \in OwnerSockets THEN roomOwner'[Home] = Home
                                          ELSE roomOwner'[Home] = roomOwner[Home],
         task[x].pc = "joinConfig" => Home \notin deleted
  PROVE  Invariants'
<1>1. Running(x) /\ task[x].pc \notin Deletion
  BY DEF Running, Deletion
<1>2. /\ x \in Tasks /\ RequestOK(x) /\ CallOK(x) /\ OwnerOK(x)
      /\ task[x].room = Home /\ Home \in Rooms
      /\ task[x].next = 1 /\ task[x] \in TaskStates /\ task[x].sock \in Sockets
      /\ conn[task[x].sock] /\ \A u \in Sockets : ConnectionOK(u)
  BY <1>1, CallFacts DEF Deletion, Astray, ToggleSteps, Casting
<1>3. PICK s \in Sockets : s = task[x].sock
  BY <1>2
<1>4. /\ joined' = [joined EXCEPT ![s] = @ \cup {Home}]
      /\ joined \in [Sockets -> SUBSET Rooms]
      /\ OthersStay(x) /\ KeepsAll(x) /\ task'[x].pc = "addMember"
  BY <1>2, <1>3, GoMoves DEF EnterRoom, IInv, SocketsOK, Locations
<1>5. \A u \in Sockets : u # task[x].sock => Untouched(u)
  BY <1>3, <1>4 DEF Untouched
<1>6. Null # Home
  BY RoomAssumption
<1>7. OnlyHome' /\ Identity'
  BY <1>2, <1>3, <1>4 DEF Invariants, Order, OnlyHome, Identity, Registered
<1>8. /\ Member(s)' <=> Member(s)
      /\ Registered(s)' <=> Registered(s)
      /\ Ready(s)' <=> Ready(s)
      /\ Inside(s)'
  BY <1>4 DEF Member, Registered, Ready, Inside
<1>9. Member(s) <=> Registered(s)
  BY <1>2, <1>3 DEF RequestOK, Replacing, Settled, Casting
<1>10. task'[x].sock = s /\ conn'[s] /\ rid' = rid
  BY <1>2, <1>3, <1>4 DEF KeepsAll, Keeps
<1>11. CallOK(x)'
  BY <1>2, <1>3, <1>4, <1>10
     DEF CallOK, KeepsAll, Keeps, Casting, Asking, Replacing, Exiting, Deleting, Going
<1>12. RequestOK(x)'
  BY <1>4, <1>8, <1>9, <1>10 DEF RequestOK, Asking, Replacing, Casting
<1>13. OwnerMembers' = OwnerMembers /\ AtMostOne(OwnerMembers)'
  BY DEF OwnerMembers, Invariants, Ownership, AtMostOne
<1>14. OwnerOK(x)' /\ DeletionOK(x)'
  <2>1. task[x].sock \in OwnerSockets => OwnerMembers = {}
    <3>1. CASE task[x].pc \in {"ensureOwner", "setOwner"}
      BY <1>2, <3>1 DEF OwnerOK
    <3>2. CASE task[x].pc = "joinConfig"
      BY <1>2, <3>2 DEF CallOK
    <3> QED  BY <3>1, <3>2
  <2> QED  BY <1>3, <1>4, <1>10, <1>13, <2>1 DEF OwnerOK, DeletionOK
<1>15. \A u \in AtSock(x) : ConnectionOK(u)'
  <2>1. Busy(s)'
    BY <1>4, <1>10 DEF Busy, Serves, Running
  <2> QED  BY <1>2, <1>3, <1>8, <1>10, <2>1 DEF ConnectionOK, AtSock
<1>16. GoesOn(x) /\ Own(x)
  BY <1>2, <1>3, <1>4, <1>10, <1>11, <1>12, <1>14 DEF GoesOn, Own, Deletion, KeepsAll, Keeps
<1>17. Home \notin deleted
  BY <1>1, NotDeleted DEF Harmless
<1>18. task[x].pc # "joinConfig" => task[x].sock \in OwnerSockets
  BY <1>2 DEF CallOK, Replacing
<1> QED
  BY <1>1, <1>4, <1>5, <1>6, <1>7, <1>13, <1>15, <1>16, <1>17, <1>18, SockStep

LEMMA TakeRidStep ==
  ASSUME IInv, Invariants, NEW x \in Calls, TakeOwnerRid(x)
  PROVE  Invariants'
<1>1. Running(x) /\ task[x].pc = "joinOwner" /\ task[x].pc \notin Deletion /\ Home \notin deleted
  BY NotDeleted DEF TakeOwnerRid, At, Running, Deletion, Harmless
<1>2. /\ x \in Tasks /\ RequestOK(x) /\ CallOK(x)
      /\ task[x].room = Home /\ Home \in Rooms
      /\ task[x].next = 1 /\ task[x] \in TaskStates /\ task[x].sock \in Sockets
      /\ conn[task[x].sock] /\ \A u \in Sockets : ConnectionOK(u)
  BY <1>1, CallFacts DEF Deletion, Astray, ToggleSteps, Casting
<1>3. PICK s \in Sockets : s = task[x].sock
  BY <1>2
<1>4. /\ s \in OwnerSockets /\ SeatedRole(s) = task[x].arg
      /\ task[x].found = Null /\ task[x].then # "leave"
      /\ ~Member(s) /\ ~Inside(s) /\ ~Registered(s)
  BY <1>1, <1>2, <1>3 DEF CallOK, RequestOK, Asking, Casting, Going
<1>5. /\ Set(x, [task[x] EXCEPT !.pc = "activeOwner", !.rid = Home])
      /\ rid' = [rid EXCEPT ![s] = Home]
  <2>1. roomOwner[Home] \in {Null, Home}
    BY DEF Invariants, Order, OnlyHome
  <2> QED  BY <1>2, <1>3, <2>1 DEF TakeOwnerRid
<1>6. /\ OthersStay(x) /\ task'[x].pc = "activeOwner" /\ task'[x].rid = Home
      /\ task'[x].sock = s /\ task'[x].room = Home /\ task'[x].next = 1
      /\ task'[x].arg = task[x].arg /\ task'[x].then = task[x].then
      /\ task'[x].found = Null
  BY <1>2, <1>3, <1>4, <1>5 DEF IInv, TasksOK, TaskStates, Set, OthersStay
<1>7. rid \in [Sockets -> Rids]
  BY DEF IInv, SocketsOK
<1>8. UNCHANGED <<redisVars, ownerToken, conn, role, joined, deleted, torn>>
  BY DEF TakeOwnerRid
<1>9. \A u \in Sockets : u # task[x].sock => Untouched(u)
  BY <1>3, <1>5, <1>7, <1>8 DEF Untouched, redisVars
<1>10. OnlyHome' /\ Identity'
  BY <1>3, <1>4, <1>5, <1>7, <1>8
     DEF Invariants, Order, OnlyHome, Identity, Registered, redisVars, RidOf
<1>11. /\ Member(s)' <=> Member(s)
       /\ Registered(s)' <=> Registered(s)
       /\ Ready(s)' <=> Ready(s)
       /\ Inside(s)' <=> Inside(s)
  BY <1>8 DEF Member, Registered, Ready, Inside, redisVars
<1>12. CallOK(x)'
  <2>1. conn'[s] /\ rid'[s] = Home /\ RidOf(s) = Home /\ Null # s
    BY <1>2, <1>3, <1>4, <1>5, <1>7, <1>8, RoomAssumption DEF RidOf
  <2> QED
    BY <1>2, <1>4, <1>6, <2>1 DEF CallOK, Casting, Asking, Replacing, Exiting, Deleting, Going
<1>13. RequestOK(x)'
  BY <1>4, <1>6, <1>11 DEF RequestOK, Settled, Casting
<1>14. OwnerOK(x)' /\ DeletionOK(x)'
  BY <1>6 DEF OwnerOK, DeletionOK
<1>15. OwnerMembers' = OwnerMembers /\ roomOwner' = roomOwner
  BY <1>8 DEF OwnerMembers, redisVars
<1>16. \A u \in AtSock(x) : ConnectionOK(u)'
  <2>1. Busy(s)' /\ conn' = conn
    BY <1>6, <1>8 DEF Busy, Serves, Running
  <2> QED  BY <1>2, <1>3, <1>4, <1>11, <2>1 DEF ConnectionOK, AtSock
<1>17. GoesOn(x) /\ Own(x)
  BY <1>3, <1>6, <1>12, <1>13, <1>14 DEF GoesOn, Own, Deletion
<1> QED
  BY <1>1, <1>6, <1>8, <1>9, <1>10, <1>15, <1>16, <1>17, SockStep

LEMMA EnsureOwnerStep ==
  ASSUME IInv, Invariants, NEW x \in Calls, EnsureOwner(x) \/ RecordOwner(x) \/ CheckRoom(x)
  PROVE  Invariants'
<1>1. Running(x) /\ task[x].pc \in {"ensureOwner", "setOwner", "joinConfig"}
  BY DEF EnsureOwner, RecordOwner, CheckRoom, At, Running
<1>2. /\ x \in Tasks /\ RequestOK(x) /\ CallOK(x) /\ OwnerOK(x)
      /\ task[x].room = Home /\ Home \in Rooms
      /\ task[x].next = 1 /\ task[x] \in TaskStates /\ task[x].sock \in Sockets
      /\ roomOwner[Home] \in {Null, Home}
  BY <1>1, CallFacts DEF Invariants, Order, OnlyHome
<1>3. CASE EnsureOwner(x)
  <2>1. task[x].pc = "ensureOwner" /\ task[x].sock \in OwnerSockets /\ Home \notin deleted
    BY <1>1, <1>2, <1>3, NotDeleted DEF EnsureOwner, At, CallOK, Replacing, Harmless
  <2>2. CASE roomOwner[Home] = Null /\ Go(x, "setOwner") /\ UNCHANGED joined
    <3>1. Quiet /\ roomConfig' = roomConfig
      BY <1>3, <2>2, ReadsAreQuiet DEF EnsureOwner
    <3>2. OthersStay(x) /\ KeepsAll(x) /\ task'[x].pc = "setOwner"
      BY <1>2, <2>2, GoMoves DEF Locations
    <3>3. OwnerOK(x)'
      BY <1>2, <2>1, <3>1, <3>2 DEF OwnerOK, OwnerMembers, Quiet
    <3>4. task[x].found \in OwnerSockets \cup {Null} /\ task[x].found # task[x].sock
      BY <1>2, <2>1 DEF CallOK, Replacing
    <3> QED
      BY <1>1, <2>1, <3>1, <3>2, <3>3, <3>4, SeekStep DEF KeepsAll, Keeps, Replacing
  <2>3. CASE roomOwner[Home] # Null /\ EnterRoom(x)
    BY <1>1, <1>2, <1>3, <2>1, <2>3, EnterStep DEF EnsureOwner, redisVars
  <2> QED  BY <1>2, <1>3, <2>2, <2>3 DEF EnsureOwner
<1>4. CASE RecordOwner(x)
  <2>1. task[x].pc = "setOwner" /\ EnterRoom(x) /\ SetRoomOwner(Home, Home)
    <3>1. task[x].rid = Home
      BY <1>2, <1>4 DEF RecordOwner, At, CallOK, Replacing, RidOf
    <3> QED  BY <1>2, <1>4, <3>1 DEF RecordOwner, At
  <2>2. /\ roomOwner'[Home] = Home /\ \A r \in Rooms : r # Home => roomOwner'[r] = roomOwner[r]
        /\ roomConfig' = roomConfig
        /\ UNCHANGED <<roomMembers, roomReady, socketInfo, roomState, spinLock>>
    <3>1. roomOwner \in [Rooms -> Rids \cup {Null}]
      BY DEF IInv, RedisTypeOK
    <3> QED  BY <1>2, <2>1, <3>1 DEF SetRoomOwner
  <2>3. task[x].sock \in OwnerSockets
    BY <1>2, <2>1 DEF CallOK, Replacing
  <2> QED  BY <1>1, <1>4, <2>1, <2>2, <2>3, EnterStep DEF RecordOwner
<1>5. CASE CheckRoom(x)
  <2>1. task[x].pc = "joinConfig" /\ task[x].sock \notin OwnerSockets
    BY <1>2, <1>5 DEF CheckRoom, At, CallOK
  <2>2. CASE roomConfig[Home] = Null /\ Set(x, Ended) /\ UNCHANGED joined
    <3>1. Quiet /\ roomConfig' = roomConfig
      BY <1>5, <2>2, ReadsAreQuiet DEF CheckRoom
    <3>2. Settled(task[x].sock)
      BY <1>2, <2>1 DEF RequestOK, Casting
    <3> QED  BY <1>1, <2>2, <3>1, <3>2, EndStep
  <2>3. CASE roomConfig[Home] # Null /\ EnterRoom(x)
    <3>1. Home \notin deleted
      BY <2>3 DEF Invariants, Deletions, KeysGone
    <3> QED
      BY <1>1, <1>5, <2>1, <2>3, <3>1, EnterStep DEF CheckRoom, redisVars
  <2> QED  BY <1>2, <1>5, <2>2, <2>3 DEF CheckRoom
<1> QED  BY <1>3, <1>4, <1>5

LEMMA AddMemberStep ==
  ASSUME IInv, Invariants, NEW x \in Calls, AddMember(x)
  PROVE  Invariants'
<1>1. Running(x) /\ task[x].pc = "addMember" /\ task[x].pc \notin Deletion /\ Home \notin deleted
  BY NotDeleted DEF AddMember, At, Running, Deletion, Harmless
<1>2. /\ x \in Tasks /\ RequestOK(x) /\ CallOK(x) /\ OwnerOK(x)
      /\ task[x].room = Home /\ Home \in Rooms
      /\ task[x].next = 1 /\ task[x] \in TaskStates /\ task[x].sock \in Sockets
      /\ conn[task[x].sock] /\ \A u \in Sockets : ConnectionOK(u)
  BY <1>1, CallFacts DEF Deletion, Astray, ToggleSteps, Casting
<1>3. PICK s \in Sockets : s = task[x].sock
  BY <1>2
<1>4. /\ roomMembers' = [roomMembers EXCEPT ![Home] = @ \cup {s}]
      /\ role' = [role EXCEPT ![s] = SeatedRole(s)]
      /\ roomMembers \in [Rooms -> SUBSET Sockets]
      /\ role \in [Sockets -> Roles \cup {"none"}]
  BY <1>1, <1>2, <1>3 DEF AddMember, AddRoomMember, CallOK, IInv, RedisTypeOK, SocketsOK
<1>5. /\ UNCHANGED <<roomConfig, roomOwner, roomReady, socketInfo, spinLock, roomState>>
      /\ UNCHANGED <<ownerToken, conn, rid, joined, deleted, torn>>
  BY DEF AddMember, AddRoomMember
<1>6. OthersStay(x) /\ KeepsAll(x) /\ task'[x].pc = "setInfo"
  BY <1>2, GoMoves DEF AddMember, Locations
<1>7. \A u \in Sockets : u # task[x].sock => Untouched(u)
  BY <1>2, <1>3, <1>4, <1>5 DEF Untouched
<1>8. OnlyHome' /\ Identity'
  BY <1>2, <1>3, <1>4, <1>5 DEF Invariants, Order, OnlyHome, Identity, Registered
<1>9. /\ Member(s)'
      /\ Registered(s)' <=> Registered(s)
      /\ Ready(s)' <=> Ready(s)
      /\ Inside(s)'
  BY <1>1, <1>2, <1>3, <1>4, <1>5 DEF Member, Registered, Ready, Inside, RequestOK
<1>10. task'[x].sock = s /\ conn'[s] /\ rid' = rid
  BY <1>2, <1>3, <1>5, <1>6 DEF KeepsAll, Keeps
<1>11. CallOK(x)'
  BY <1>1, <1>2, <1>3, <1>6, <1>10
     DEF CallOK, KeepsAll, Keeps, Casting, Asking, Replacing, Exiting, Deleting, Going
<1>12. RequestOK(x)'
  BY <1>6, <1>9, <1>10 DEF RequestOK, Asking, Replacing, Casting
<1>13. IF s \in OwnerSockets THEN OwnerMembers' = {s} ELSE OwnerMembers' = OwnerMembers
  <2>1. s \in OwnerSockets => OwnerMembers = {}
    BY <1>1, <1>2, <1>3 DEF OwnerOK
  <2> QED  BY <1>2, <1>4, <2>1 DEF OwnerMembers
<1>14. s \in OwnerSockets => roomOwner[Home] = Home /\ Home # Null
  BY <1>1, <1>2, <1>3, RoomAssumption DEF OwnerOK
<1>15. OwnerOK(x)' /\ DeletionOK(x)'
  BY <1>5, <1>6, <1>10, <1>14 DEF OwnerOK, DeletionOK
<1>16. \A u \in AtSock(x) : ConnectionOK(u)'
  <2>1. Busy(s)'
    BY <1>6, <1>10 DEF Busy, Serves, Running
  <2> QED  BY <1>2, <1>3, <1>9, <1>10, <2>1 DEF ConnectionOK, AtSock
<1>17. GoesOn(x) /\ Own(x)
  BY <1>2, <1>3, <1>6, <1>10, <1>11, <1>12, <1>15 DEF GoesOn, Own, Deletion, KeepsAll, Keeps
<1>18. s \in OwnerSockets => AtMostOne(OwnerMembers)'
  BY <1>13 DEF AtMostOne
<1> QED
  BY <1>1, <1>3, <1>5, <1>6, <1>7, <1>8, <1>13, <1>14, <1>16, <1>17, <1>18, SockStep

\* The info of a socket is written, or written back.
LEMMA InfoStep ==
  ASSUME IInv, Invariants, NEW x \in Calls, RecordInfo(x) \/ NickSet(x)
  PROVE  Invariants'
<1>1. /\ Running(x) /\ task[x].pc \in {"setInfo", "nickSet"} /\ task[x].pc \notin Deletion
      /\ Home \notin deleted
  BY NotDeleted DEF RecordInfo, NickSet, At, Running, Deletion, Harmless
<1>2. /\ x \in Tasks /\ RequestOK(x) /\ CallOK(x) /\ OwnerOK(x)
      /\ task[x].room = Home /\ Home \in Rooms
      /\ task[x].next = 1 /\ task[x] \in TaskStates /\ task[x].sock \in Sockets
      /\ conn[task[x].sock] /\ \A u \in Sockets : ConnectionOK(u)
  BY <1>1, CallFacts DEF Deletion, Astray, ToggleSteps, Casting
<1>3. PICK s \in Sockets : s = task[x].sock
  BY <1>2
<1>4. /\ socketInfo' = [socketInfo EXCEPT ![s] = InfoOf(s)]
      /\ socketInfo \in [Sockets -> SocketInfos \cup {Null}]
      /\ UNCHANGED <<roomConfig, roomOwner, roomMembers, roomReady, spinLock, roomState>>
      /\ UNCHANGED <<ownerToken, conn, rid, role, joined, deleted, torn>>
  <2>1. CASE RecordInfo(x)
    <3>1. task[x].rid = RidOf(s) /\ task[x].arg = SeatedRole(s)
      BY <1>2, <1>3, <2>1 DEF RecordInfo, At, CallOK
    <3> QED
      BY <1>2, <1>3, <2>1, <3>1
         DEF RecordInfo, SetSocketInfo, InfoOf, OnlyRedis, sockVars, IInv, RedisTypeOK
  <2>2. CASE NickSet(x)
    <3>1. task[x].info = InfoOf(s)
      BY <1>2, <1>3, <2>2 DEF NickSet, At, CallOK
    <3> QED
      BY <1>2, <1>3, <2>2, <3>1
         DEF NickSet, SetSocketInfo, OnlyRedis, sockVars, IInv, RedisTypeOK
  <2> QED  BY <2>1, <2>2
<1>5. InfoOf(s) # Null
  <2>1. InfoOf(s) \in SocketInfos
    BY <1>2, RoomAssumption, RolesAssumption DEF InfoOf, RidOf, SeatedRole, SocketInfos
  <2> QED  BY <2>1, NullInfoAssumption
<1>6. /\ OthersStay(x) /\ Keeps(x) /\ task'[x].then # "leave"
      /\ task'[x].pc \in {"replyOwner", "castOwner"}
      /\ task'[x].pc = "castOwner" => task'[x].then = "activity"
  <2>1. CASE RecordInfo(x)
    <3>1. OthersStay(x) /\ KeepsAll(x) /\ task'[x].pc = "replyOwner"
      BY <1>2, <2>1, GoMoves DEF RecordInfo, Locations
    <3> QED  BY <1>1, <1>2, <3>1 DEF KeepsAll, CallOK, Going, Casting
  <2>2. CASE NickSet(x)
    <3>1. /\ OthersStay(x) /\ Keeps(x) /\ task'[x].pc = "castOwner"
          /\ task'[x].then = "activity"
      BY <1>2, <2>2, CastMoves DEF NickSet
    <3> QED  BY <3>1
  <2> QED  BY <2>1, <2>2
<1>7. \A u \in Sockets : u # task[x].sock => Untouched(u)
  BY <1>2, <1>3, <1>4 DEF Untouched
<1>8. rid[s] = RidOf(s)
  BY <1>1, <1>2, <1>3 DEF CallOK, RequestOK, Invariants, Order, Identity
<1>9. OnlyHome' /\ Identity'
  BY <1>2, <1>3, <1>4, <1>8 DEF Invariants, Order, OnlyHome, Identity, Registered
<1>10. Member(s) /\ Inside(s)
  BY <1>1, <1>2, <1>3 DEF RequestOK, Settled, Casting
<1>11. /\ Member(s)' /\ Registered(s)' /\ Inside(s)'
       /\ Ready(s)' <=> Ready(s)
  BY <1>2, <1>3, <1>4, <1>5, <1>10 DEF Member, Registered, Ready, Inside, RequestOK
<1>12. task'[x].sock = s /\ conn'[s] /\ rid' = rid
  BY <1>2, <1>3, <1>4, <1>6 DEF Keeps
<1>13. CallOK(x)'
  BY <1>1, <1>2, <1>3, <1>6, <1>12
     DEF CallOK, Keeps, Casting, Asking, Replacing, Exiting, Deleting, Going
<1>14. RequestOK(x)'
  BY <1>6, <1>11, <1>12 DEF RequestOK, Asking, Replacing, Casting, Settled
<1>15. OwnerMembers' = OwnerMembers /\ roomOwner' = roomOwner
  BY <1>4 DEF OwnerMembers
<1>16. OwnerOK(x)' /\ DeletionOK(x)'
  BY <1>6 DEF OwnerOK, DeletionOK
<1>17. \A u \in AtSock(x) : ConnectionOK(u)'
  BY <1>2, <1>3, <1>11, <1>12 DEF ConnectionOK, AtSock, Settled
<1>18. GoesOn(x) /\ Own(x)
  BY <1>2, <1>3, <1>6, <1>12, <1>13, <1>14, <1>16 DEF GoesOn, Own, Deletion, Keeps
<1> QED
  BY <1>1, <1>4, <1>6, <1>7, <1>9, <1>15, <1>17, <1>18, SockStep

LEMMA ToggleStep ==
  ASSUME IInv, Invariants, NEW x \in Calls, ToggleWrite(x)
  PROVE  Invariants'
<1>1. /\ Running(x) /\ task[x].pc = "toggleWrite" /\ task[x].pc \notin Deletion
      /\ Home \notin deleted
  BY NotDeleted DEF ToggleWrite, At, Running, Deletion, Harmless
<1>2. /\ x \in Tasks /\ RequestOK(x) /\ CallOK(x)
      /\ task[x].room = Home /\ Home \in Rooms
      /\ task[x].next = 1 /\ task[x] \in TaskStates /\ task[x].sock \in Sockets
      /\ \A u \in Sockets : ConnectionOK(u)
  BY <1>1, CallFacts
<1>3. PICK s \in Sockets : s = task[x].sock
  BY <1>2
<1>4. /\ s \notin OwnerSockets
      /\ conn[s] => Member(s) /\ Inside(s) /\ Registered(s)
      /\ ~conn[s] => s \in torn
  BY <1>1, <1>2, <1>3 DEF CallOK, RequestOK, Settled, Casting
<1>5. /\ roomReady' \in {[roomReady EXCEPT ![Home] = @ \cup {s}],
                         [roomReady EXCEPT ![Home] = @ \ {s}]}
      /\ roomReady \in [Rooms -> SUBSET Sockets]
      /\ UNCHANGED <<roomConfig, roomOwner, roomMembers, socketInfo, spinLock, roomState>>
      /\ UNCHANGED <<ownerToken, conn, rid, role, joined, deleted, torn>>
  BY <1>2, <1>3 DEF ToggleWrite, SetParticipantReady, RemoveParticipantReady, OnlyRedis,
                    sockVars, IInv, RedisTypeOK
<1>6. OthersStay(x) /\ Keeps(x) /\ task'[x].pc = "castOwner" /\ task'[x].then = "activity"
  BY <1>2, CastMoves DEF ToggleWrite
<1>7. \A u \in Sockets : u # task[x].sock => Untouched(u)
  BY <1>2, <1>3, <1>5 DEF Untouched
<1>8. OnlyHome' /\ Identity'
  BY <1>2, <1>3, <1>5 DEF Invariants, Order, OnlyHome, Identity, Registered
<1>9. /\ Member(s)' <=> Member(s)
      /\ Registered(s)' <=> Registered(s)
      /\ Inside(s)' <=> Inside(s)
  BY <1>5 DEF Member, Registered, Inside
<1>10. task'[x].sock = s /\ conn' = conn /\ rid' = rid /\ torn' = torn
  BY <1>2, <1>3, <1>5, <1>6 DEF Keeps
<1>11. CallOK(x)'
  BY <1>1, <1>2, <1>3, <1>4, <1>6, <1>10
     DEF CallOK, Astray, Keeps, Casting, Asking, Replacing, Exiting, Deleting, Going
<1>12. RequestOK(x)'
  BY <1>4, <1>6, <1>9, <1>10 DEF RequestOK, Asking, Replacing, Casting, Settled
<1>13. OwnerMembers' = OwnerMembers /\ roomOwner' = roomOwner
  BY <1>5 DEF OwnerMembers
<1>14. OwnerOK(x)' /\ DeletionOK(x)'
  BY <1>6 DEF OwnerOK, DeletionOK
<1>15. \A u \in AtSock(x) : ConnectionOK(u)'
  <2>1. CASE conn[s]
    BY <1>3, <1>4, <1>9, <1>10, <2>1 DEF ConnectionOK, AtSock, Settled
  <2>2. CASE ~conn[s]
    <3>1. task'[s] = task[s] /\ ~Doomed /\ ConnectionOK(s)
      BY <1>1, <1>2, <1>6, CallsAreTasks, NobodyIsDoomed DEF OthersStay
    <3> QED  BY <1>3, <1>4, <1>9, <1>10, <2>2, <3>1 DEF ConnectionOK, AtSock
  <2> QED  BY <2>1, <2>2
<1>16. GoesOn(x) /\ Own(x)
  BY <1>2, <1>3, <1>6, <1>10, <1>11, <1>12, <1>14 DEF GoesOn, Own, Deletion, Keeps
<1> QED
  BY <1>1, <1>5, <1>6, <1>7, <1>8, <1>13, <1>15, <1>16, SockStep

LEMMA DefaultConfigStep ==
  ASSUME IInv, Invariants, NEW x \in Calls, EnsureConfig(x)
  PROVE  Invariants'
<1>1. /\ Running(x) /\ task[x].pc \in {"replyConfig", "defaultConfig"}
  BY DEF EnsureConfig, Running
<1>2. /\ x \in Tasks /\ RequestOK(x) /\ CallOK(x) /\ task[x].room = Home
  BY <1>1, CallFacts
<1>3. Settled(task[x].sock) /\ task[x].then # "leave"
  BY <1>1, <1>2 DEF RequestOK, CallOK, Casting, Going
<1>4. OthersStay(x) /\ KeepsAll(x) /\ task'[x].pc \in {"replyTitle", "defaultConfig"}
  BY <1>2, GoMoves DEF EnsureConfig, Locations
<1>5. Quiet
  BY <1>2 DEF EnsureConfig, OnlyRedis, sockVars, redisVars, SetRoomConfig, Quiet, IInv, RedisTypeOK
<1> QED
  BY <1>1, <1>3, <1>4, <1>5, PlainStep DEF KeepsAll, Plain, Casting, Astray, ToggleSteps, Harmless
-----------------------------------------------------------------------------
(***************************************************************************)
(* The steps of room:leave, for a participant by way of handleDisconnect.  *)
(***************************************************************************)
LEMMA LeaveInfoStep ==
  ASSUME IInv, Invariants, NEW x \in Calls, LeaveInfo(x)
  PROVE  Invariants'
<1>1. Running(x) /\ task[x].pc = "leaveInfo"
  BY DEF LeaveInfo, At, Running
<1>2. /\ x \in Tasks /\ RequestOK(x) /\ CallOK(x) /\ task[x].room = Home /\ Home \in Rooms
      /\ task[x].next = 1 /\ task[x] \in TaskStates /\ task[x].sock \in Sockets
      /\ conn[task[x].sock]
  BY <1>1, CallFacts DEF Astray, ToggleSteps, Casting
<1>3. Settled(task[x].sock) /\ task[x].then # "leave"
  BY <1>1, <1>2 DEF RequestOK, CallOK, Casting, Going
<1>4. Quiet /\ roomConfig' = roomConfig
  BY ReadsOnlyIsQuiet DEF LeaveInfo
<1>5. CASE Set(x, Ended)
  BY <1>1, <1>3, <1>4, <1>5, EndStep
<1>6. CASE /\ Registered(task[x].sock)
           /\ Set(x, [task[x] EXCEPT
                        !.pc = IF task[x].arg = "owner" THEN "leaveMember" ELSE "goneInfo",
                        !.then = IF task[x].arg = "owner" THEN @ ELSE "leave",
                        !.home = Home])
  <2>1. PICK s \in Sockets : s = task[x].sock
    BY <1>2
  <2>2. task[x].arg = SeatedRole(s)
    BY <1>1, <1>2, <2>1 DEF CallOK
  <2>3. /\ OthersStay(x) /\ task'[x].sock = s /\ task'[x].room = Home /\ task'[x].next = 1
        /\ task'[x].rid = task[x].rid /\ task'[x].arg = task[x].arg
        /\ task'[x].home = Home
        /\ IF s \in OwnerSockets
             THEN task'[x].pc = "leaveMember" /\ task'[x].then = task[x].then
             ELSE task'[x].pc = "goneInfo" /\ task'[x].then = "leave"
    BY <1>2, <1>6, <2>1, <2>2 DEF IInv, TasksOK, TaskStates, Set, OthersStay, SeatedRole
  <2>4. CallOK(x)'
    <3>1. conn'[s]
      BY <1>2, <1>4, <2>1 DEF Quiet
    <3> QED
      BY <1>2, <1>3, <2>1, <2>2, <2>3, <3>1
         DEF CallOK, Casting, Asking, Replacing, Exiting, Deleting, Going
  <2>5. RequestOK(x)'
    <3>1. Settled(s)' /\ Registered(s)'
      BY <1>3, <1>4, <1>6, <2>1 DEF Quiet, Settled, Member, Inside, Registered
    <3> QED  BY <2>3, <3>1 DEF RequestOK, Asking, Replacing, Casting
  <2>6. OwnerOK(x)' /\ DeletionOK(x)'
    BY <2>3 DEF OwnerOK, DeletionOK
  <2>7. Home \notin deleted
    <3>1. SUFFICES ASSUME Home \in deleted PROVE FALSE
      OBVIOUS
    <3>2. roomMembers[Home] = {}
      BY <3>1 DEF Invariants, Deletions, KeysGone
    <3> QED  BY <1>2, <1>3, <1>6, <3>2 DEF Settled, Member
  <2> QED
    BY <1>1, <1>2, <1>3, <1>4, <2>1, <2>3, <2>4, <2>5, <2>6, <2>7, QuietStep
       DEF OthersStay, GoesOn, Own, Deletion
<1>7. Registered(task[x].sock) => socketInfo[task[x].sock].roomId = Home
  BY <1>2 DEF Invariants, Order, Identity, InfoOf, Registered
<1> QED  BY <1>2, <1>5, <1>6, <1>7 DEF LeaveInfo, Registered

\* A participant's departure.
LEMMA GoneInfoStep ==
  ASSUME IInv, Invariants, NEW x \in Calls, GoneInfo(x)
  PROVE  Invariants'
<1>1. Running(x) /\ task[x].pc = "goneInfo" /\ Home \notin deleted
  BY NotDeleted DEF GoneInfo, At, Running, Harmless
<1>2. /\ x \in Tasks /\ RequestOK(x) /\ CallOK(x) /\ task[x].room = Home /\ Home \in Rooms
      /\ task[x].next = 1 /\ task[x] \in TaskStates /\ task[x].sock \in Sockets
      /\ conn[task[x].sock]
  BY <1>1, CallFacts DEF Astray, ToggleSteps, Casting
<1>3. PICK s \in Sockets : s = task[x].sock
  BY <1>2
<1>4. Settled(s) /\ task[x].then = "leave" /\ task[x].home = Home /\ s \notin OwnerSockets
  BY <1>1, <1>2, <1>3 DEF RequestOK, CallOK, Casting, Going
<1>5. joined \in [Sockets -> SUBSET Rooms] /\ joined[s] \subseteq {Home}
  BY DEF IInv, SocketsOK, Invariants, Order, OnlyHome
<1>6. CASE ~Registered(s)
  <2>1. task' = Finished(x) /\ joined' = [joined EXCEPT ![s] = @ \ {Home}]
    BY <1>3, <1>4, <1>6 DEF GoneInfo, LeaveRoom, Registered
  <2>2. joined' = joined
    BY <1>2, <1>3, <1>4, <1>5, <1>6, <2>1 DEF Settled, Inside
  <2>3. Quiet /\ roomConfig' = roomConfig
    BY <2>2, ReadsAreQuiet DEF GoneInfo
  <2> QED  BY <1>1, <1>3, <1>4, <2>1, <2>3, EndStep
<1>7. CASE Registered(s)
  <2>1. socketInfo[s] = InfoOf(s)
    BY <1>7 DEF Invariants, Order, Identity, Registered
  <2>2. /\ Set(x, [task[x] EXCEPT !.pc = "goneReady", !.room = Home, !.arg = SeatedRole(s)])
        /\ UNCHANGED joined
    BY <1>3, <1>7, <2>1 DEF GoneInfo, Registered, InfoOf
  <2>3. /\ OthersStay(x) /\ Keeps(x) /\ task'[x].pc = "goneReady"
        /\ task'[x].arg = SeatedRole(s) /\ task'[x].then = "leave" /\ task'[x].sock = s
    BY <1>2, <1>3, <1>4, <2>2 DEF IInv, TasksOK, TaskStates, Set, OthersStay, Keeps
  <2>4. Quiet /\ roomConfig' = roomConfig
    BY <2>2, ReadsAreQuiet DEF GoneInfo
  <2>5. CallOK(x)'
    <3>1. conn'[s]
      BY <1>2, <1>3, <2>4 DEF Quiet
    <3> QED
      BY <1>2, <1>3, <1>4, <2>3, <3>1
         DEF CallOK, Keeps, Casting, Asking, Replacing, Exiting, Deleting, Going
  <2>6. RequestOK(x)'
    <3>1. Settled(s)'
      BY <1>4, <2>4 DEF Quiet, Settled, Member, Inside, Registered
    <3> QED  BY <2>3, <3>1 DEF RequestOK, Asking, Replacing, Casting
  <2>7. OwnerOK(x)' /\ DeletionOK(x)'
    BY <2>3 DEF OwnerOK, DeletionOK
  <2> QED
    BY <1>1, <1>2, <1>3, <1>4, <2>3, <2>4, <2>5, <2>6, <2>7, QuietStep
       DEF OthersStay, GoesOn, Own, Keeps, Deletion
<1> QED  BY <1>6, <1>7

LEMMA GoneStep ==
  ASSUME IInv, Invariants, NEW x \in Calls, GoneReady(x) \/ GoneMember(x) \/ GoneDelete(x)
  PROVE  Invariants'
<1>1. /\ Running(x) /\ task[x].pc \in {"goneReady", "goneMember", "goneDelete"}
      /\ task[x].pc \notin Deletion /\ Home \notin deleted
  BY NotDeleted DEF GoneReady, GoneMember, GoneDelete, At, Running, Deletion, Harmless
<1>2. /\ x \in Tasks /\ RequestOK(x) /\ CallOK(x)
      /\ task[x].room = Home /\ Home \in Rooms
      /\ task[x].next = 1 /\ task[x] \in TaskStates /\ task[x].sock \in Sockets
      /\ conn[task[x].sock] /\ \A u \in Sockets : ConnectionOK(u)
  BY <1>1, CallFacts DEF Deletion, Astray, ToggleSteps, Casting
<1>3. PICK s \in Sockets : s = task[x].sock
  BY <1>2
<1>4. /\ s \notin OwnerSockets /\ task[x].then = "leave" /\ task[x].home = Home
      /\ task[x].arg = "participant"
  BY <1>1, <1>2, <1>3 DEF CallOK, Going, SeatedRole
<1>5. /\ UNCHANGED <<roomConfig, roomOwner, spinLock, roomState>>
      /\ UNCHANGED <<ownerToken, conn, rid, role, joined, deleted, torn>>
      /\ roomMembers \in [Rooms -> SUBSET Sockets] /\ roomReady \in [Rooms -> SUBSET Sockets]
      /\ socketInfo \in [Sockets -> SocketInfos \cup {Null}]
      /\ roomReady' = IF task[x].pc = "goneReady" THEN [roomReady EXCEPT ![Home] = @ \ {s}]
                                                  ELSE roomReady
      /\ roomMembers' = IF task[x].pc = "goneMember" THEN [roomMembers EXCEPT ![Home] = @ \ {s}]
                                                     ELSE roomMembers
      /\ socketInfo' = IF task[x].pc = "goneDelete" THEN [socketInfo EXCEPT ![s] = Null]
                                                    ELSE socketInfo
  BY <1>2, <1>3 DEF GoneReady, GoneMember, GoneDelete, RemoveParticipantReady, RemoveRoomMember,
         RemoveSocketInfo, OnlyRedis, sockVars, At, IInv, RedisTypeOK
<1>6. /\ OthersStay(x) /\ Keeps(x) /\ task'[x].then = "leave"
      /\ task[x].pc = "goneReady" => task'[x].pc = "goneMember" /\ task'[x].arg = task[x].arg
      /\ task[x].pc = "goneMember" => task'[x].pc = "goneDelete" /\ task'[x].arg = task[x].arg
      /\ task[x].pc = "goneDelete" => task'[x].pc = "castOwner"
  <2>1. CASE GoneReady(x)
    <3>1. OthersStay(x) /\ KeepsAll(x) /\ task'[x].pc = "goneMember" /\ task[x].pc = "goneReady"
      BY <1>2, <2>1, GoMoves DEF GoneReady, Locations, At
    <3> QED  BY <1>4, <3>1 DEF KeepsAll
  <2>2. CASE GoneMember(x)
    <3>1. OthersStay(x) /\ KeepsAll(x) /\ task'[x].pc = "goneDelete" /\ task[x].pc = "goneMember"
      BY <1>2, <2>2, GoMoves DEF GoneMember, Locations, At
    <3> QED  BY <1>4, <3>1 DEF KeepsAll
  <2>3. CASE GoneDelete(x)
    BY <1>2, <1>4, <2>3, CastMoves DEF GoneDelete, At
  <2> QED  BY <2>1, <2>2, <2>3
<1>7. \A u \in Sockets : u # task[x].sock => Untouched(u)
  BY <1>2, <1>3, <1>5 DEF Untouched
<1>8. OnlyHome' /\ Identity'
  <2>1. OnlyHome'
    BY <1>2, <1>5 DEF Invariants, Order, OnlyHome
  <2>2. \A u \in Sockets : socketInfo'[u] \in {socketInfo[u], Null}
    BY <1>5
  <2> QED  BY <1>5, <2>1, <2>2 DEF Invariants, Order, Identity, Registered
<1>9. /\ Inside(s)' <=> Inside(s)
      /\ Ready(s)' <=> Ready(s) /\ task[x].pc # "goneReady"
      /\ Member(s)' <=> Member(s) /\ task[x].pc # "goneMember"
      /\ Registered(s)' <=> Registered(s) /\ task[x].pc # "goneDelete"
  BY <1>2, <1>5 DEF Member, Registered, Ready, Inside
<1>10. task'[x].sock = s /\ conn'[s] /\ rid' = rid
  BY <1>2, <1>3, <1>5, <1>6 DEF Keeps
<1>11. CallOK(x)'
  BY <1>1, <1>2, <1>3, <1>4, <1>6, <1>10
     DEF CallOK, Keeps, Casting, Asking, Replacing, Exiting, Deleting, Going
<1>12. RequestOK(x)'
  BY <1>1, <1>2, <1>3, <1>6, <1>9, <1>10 DEF RequestOK, Asking, Replacing, Casting, Settled
<1>13. OwnerMembers' = OwnerMembers /\ roomOwner' = roomOwner
  BY <1>2, <1>4, <1>5 DEF OwnerMembers
<1>14. OwnerOK(x)' /\ DeletionOK(x)'
  BY <1>1, <1>4, <1>6, <1>10 DEF OwnerOK, DeletionOK
<1>15. \A u \in AtSock(x) : ConnectionOK(u)'
  <2>1. Busy(s)'
    BY <1>1, <1>6, <1>10 DEF Busy, Serves, Running
  <2>2. task[x].pc = "goneMember" => ~Ready(s)
    BY <1>2, <1>3 DEF RequestOK
  <2>3. task[x].pc = "goneDelete" => ~Ready(s)
    BY <1>2, <1>3 DEF RequestOK, ConnectionOK
  <2> QED  BY <1>1, <1>2, <1>3, <1>4, <1>9, <1>10, <2>1, <2>2, <2>3 DEF ConnectionOK, AtSock
<1>16. GoesOn(x) /\ Own(x)
  BY <1>1, <1>2, <1>3, <1>6, <1>10, <1>11, <1>12, <1>14 DEF GoesOn, Own, Deletion, Keeps
<1> QED
  BY <1>1, <1>5, <1>6, <1>7, <1>8, <1>13, <1>15, <1>16, SockStep

\* The owner's departure: one step after another, and the owner record last.
LEMMA OwnerLeaveStep ==
  ASSUME IInv, Invariants, NEW x \in Calls, LeaveMember(x) \/ LeaveDelete(x) \/ LeaveOwner(x)
  PROVE  Invariants'
<1>1. /\ Running(x) /\ task[x].pc \in {"leaveMember", "leaveDelete", "leaveOwner"}
      /\ task[x].pc \notin Deletion /\ Home \notin deleted
  BY NotDeleted DEF LeaveMember, LeaveDelete, LeaveOwner, At, Running, Deletion, Harmless
<1>2. /\ x \in Tasks /\ RequestOK(x) /\ CallOK(x) /\ OwnerOK(x)
      /\ task[x].room = Home /\ Home \in Rooms
      /\ task[x].next = 1 /\ task[x] \in TaskStates /\ task[x].sock \in Sockets
      /\ conn[task[x].sock] /\ \A u \in Sockets : ConnectionOK(u)
  BY <1>1, CallFacts DEF Deletion, Astray, ToggleSteps, Casting
<1>3. PICK s \in Sockets : s = task[x].sock
  BY <1>2
<1>4. /\ s \in OwnerSockets /\ task[x].then # "leave" /\ ~Ready(s)
  BY <1>1, <1>2, <1>3 DEF CallOK, Going, Casting, Exiting, ConnectionOK
<1>5. /\ UNCHANGED <<roomConfig, roomReady, spinLock, roomState>>
      /\ UNCHANGED <<ownerToken, conn, rid, role, deleted, torn>>
      /\ roomMembers \in [Rooms -> SUBSET Sockets] /\ joined \in [Sockets -> SUBSET Rooms]
      /\ roomOwner \in [Rooms -> Rids \cup {Null}]
      /\ socketInfo \in [Sockets -> SocketInfos \cup {Null}]
      /\ roomMembers' = IF task[x].pc = "leaveMember" THEN [roomMembers EXCEPT ![Home] = @ \ {s}]
                                                      ELSE roomMembers
      /\ socketInfo' = IF task[x].pc = "leaveDelete" THEN [socketInfo EXCEPT ![s] = Null]
                                                     ELSE socketInfo
      /\ roomOwner' = IF task[x].pc = "leaveOwner" THEN [roomOwner EXCEPT ![Home] = Null]
                                                   ELSE roomOwner
      /\ joined' = IF task[x].pc = "leaveOwner" THEN [joined EXCEPT ![s] = @ \ {Home}]
                                                ELSE joined
  BY <1>2, <1>3 DEF LeaveMember, LeaveDelete, LeaveOwner, RemoveRoomMember, RemoveSocketInfo,
         ClearRoomOwner, OnlyRedis, sockVars, At, IInv, RedisTypeOK, SocketsOK
<1>6. /\ OthersStay(x) /\ KeepsAll(x)
      /\ task[x].pc = "leaveMember" => task'[x].pc = "leaveDelete"
      /\ task[x].pc = "leaveDelete" => task'[x].pc = "leaveOwner"
      /\ task[x].pc = "leaveOwner" => task'[x].pc = "ttlMembers"
  <2>1. CASE LeaveMember(x)
    BY <1>2, <2>1, GoMoves DEF LeaveMember, Locations, At
  <2>2. CASE LeaveDelete(x)
    BY <1>2, <2>2, GoMoves DEF LeaveDelete, Locations, At
  <2>3. CASE LeaveOwner(x)
    BY <1>2, <2>3, GoMoves DEF LeaveOwner, Locations, At
  <2> QED  BY <2>1, <2>2, <2>3
<1>7. \A u \in Sockets : u # task[x].sock => Untouched(u)
  BY <1>2, <1>3, <1>5 DEF Untouched
<1>8. OnlyHome' /\ Identity'
  <2>1. OnlyHome'
    BY <1>2, <1>5 DEF Invariants, Order, OnlyHome
  <2>2. \A u \in Sockets : socketInfo'[u] \in {socketInfo[u], Null}
    BY <1>5
  <2> QED  BY <1>5, <2>1, <2>2 DEF Invariants, Order, Identity, Registered
<1>9. /\ Inside(s)' <=> Inside(s) /\ task[x].pc # "leaveOwner"
      /\ Ready(s)' <=> Ready(s)
      /\ Member(s)' <=> Member(s) /\ task[x].pc # "leaveMember"
      /\ Registered(s)' <=> Registered(s) /\ task[x].pc # "leaveDelete"
  BY <1>2, <1>5 DEF Member, Registered, Ready, Inside
<1>10. task'[x].sock = s /\ conn'[s] /\ rid' = rid
  BY <1>2, <1>3, <1>5, <1>6 DEF KeepsAll, Keeps
<1>11. CallOK(x)'
  BY <1>1, <1>2, <1>3, <1>4, <1>6, <1>10
     DEF CallOK, KeepsAll, Keeps, Casting, Asking, Replacing, Exiting, Deleting, Going
<1>12. RequestOK(x)'
  BY <1>1, <1>2, <1>3, <1>4, <1>6, <1>9, <1>10
     DEF RequestOK, Asking, Replacing, Casting, Settled, KeepsAll
<1>13. OwnerMembers' = {}
  <2>1. CASE task[x].pc = "leaveMember"
    <3>1. s \in OwnerMembers /\ AtMostOne(OwnerMembers)
      BY <1>2, <1>3, <1>4, <2>1
         DEF RequestOK, Settled, Casting, OwnerMembers, Member, Invariants, Ownership
    <3> QED  BY <1>2, <1>5, <2>1, <3>1 DEF OwnerMembers, AtMostOne
  <2>2. CASE task[x].pc # "leaveMember"
    <3>1. OwnerMembers = {}
      BY <1>1, <1>2, <2>2 DEF OwnerOK
    <3> QED  BY <1>5, <2>2, <3>1 DEF OwnerMembers
  <2> QED  BY <2>1, <2>2
<1>14. OwnerOK(x)' /\ DeletionOK(x)'
  BY <1>1, <1>6, <1>13 DEF OwnerOK, DeletionOK
<1>15. \A u \in AtSock(x) : ConnectionOK(u)'
  <2>1. Busy(s)'
    BY <1>1, <1>6, <1>10 DEF Busy, Serves, Running
  <2> QED  BY <1>3, <1>4, <1>9, <1>10, <2>1 DEF ConnectionOK, AtSock
<1>16. GoesOn(x) /\ Own(x)
  BY <1>1, <1>2, <1>3, <1>6, <1>10, <1>11, <1>12, <1>14
     DEF GoesOn, Own, Deletion, KeepsAll, Keeps
<1>17. AtMostOne(OwnerMembers)'
  BY <1>13 DEF AtMostOne
<1> QED
  BY <1>1, <1>3, <1>4, <1>5, <1>6, <1>7, <1>8, <1>13, <1>15, <1>16, <1>17, SockStep
-----------------------------------------------------------------------------
(***************************************************************************)
(* The replacement of the owner's connection.                              *)
(***************************************************************************)
\* A socket that request x disconnects while it goes on as t.
LEMMA KickedIsLost ==
  ASSUME IInv, NEW x \in Calls, NEW s \in Sockets, NEW t,
         conn' = [conn EXCEPT ![s] = FALSE], joined' = [joined EXCEPT ![s] = {}],
         task' = [task EXCEPT ![x] = t, ![s] = Disconnection(s)]
  PROVE  /\ \A y \in Tasks : y # x /\ y # s => task'[y] = task[y]
         /\ task'[x] = t
         /\ Running(s)' /\ LossOK(s)' /\ task'[s].pc = "goneInfo"
         /\ ~conn'[s] /\ ~Inside(s)'
         /\ \A u \in Sockets : u # s => conn'[u] = conn[u] /\ joined'[u] = joined[u]
<1>1. x # s /\ x \in Tasks /\ s \in Tasks /\ task \in [Tasks -> TaskStates]
  BY CallsAreTasks DEF IInv, TasksOK
<1>2. conn \in [Sockets -> BOOLEAN] /\ joined \in [Sockets -> SUBSET Rooms]
  BY DEF IInv, SocketsOK
<1>3. task'[s] = Disconnection(s) /\ task'[x] = t
  BY <1>1
<1>4. /\ Disconnection(s).pc = "goneInfo" /\ Disconnection(s).sock = s
      /\ Disconnection(s).then = "end"
  BY DEF Disconnection, NoTask
<1>5. ~conn'[s] /\ joined'[s] = {}
  BY <1>2
<1> QED
  BY <1>1, <1>2, <1>3, <1>4, <1>5 DEF Running, LossOK, Going, Inside

LEMMA ReplaceStep ==
  ASSUME IInv, Invariants, OneProcess, NEW x \in Calls, ActiveInfo(x)
  PROVE  Invariants'
<1>1. /\ Running(x) /\ task[x].pc = "activeInfo" /\ task[x].pc \notin Deletion
      /\ Home \notin deleted
  BY NotDeleted DEF ActiveInfo, At, Running, Deletion, Harmless
<1>2. /\ x \in Tasks /\ RequestOK(x) /\ CallOK(x) /\ OwnerOK(x)
      /\ task[x].room = Home /\ Home \in Rooms
      /\ task[x].next = 1 /\ task[x] \in TaskStates /\ task[x].sock \in Sockets
      /\ conn[task[x].sock] /\ \A u \in Sockets : ConnectionOK(u)
  BY <1>1, CallFacts DEF Deletion, Astray, ToggleSteps, Casting
<1>3. /\ task[x].sock \in OwnerSockets /\ task[x].sock \notin task[x].todo
      /\ task[x].found \in OwnerSockets \cup {Null} /\ task[x].found # task[x].sock
      /\ task[x].owner = Home /\ task[x].then # "leave"
      /\ OwnerMembers \subseteq task[x].todo \cup {task[x].found}
      /\ AtMostOne((task[x].todo \cup {task[x].found}) \cap OwnerSockets)
      /\ task[x].todo \subseteq Sockets
  BY <1>1, <1>2 DEF CallOK, OwnerOK, Replacing, Going, Casting, TaskStates
<1>4. Null \notin Sockets /\ OwnerSockets \subseteq Sockets
  BY RoomAssumption
<1> DEFINE owns(m) == socketInfo[m] # Null /\ socketInfo[m].rid = task[x].owner
           f(m) == IF owns(m) /\ task[x].found = Null THEN m ELSE task[x].found
           t(m) == [task[x] EXCEPT !.todo = @ \ {m}, !.found = f(m)]
<1>5. PICK m \in task[x].todo :
        IF t(m).todo # {} THEN Set(x, t(m)) /\ UNCHANGED <<conn, joined>>
        ELSE IF f(m) = Null
          THEN Set(x, [t(m) EXCEPT !.pc = "ensureOwner"]) /\ UNCHANGED <<conn, joined>>
          ELSE Kick(x, f(m), [t(m) EXCEPT !.pc = "dropMember"])
  BY DEF ActiveInfo
<1>6. UNCHANGED <<redisVars, ownerToken, rid, role, deleted, torn>>
  BY DEF ActiveInfo
<1>7. m \in Sockets /\ m # task[x].sock
  BY <1>3
<1>8. owns(m) => m \in OwnerSockets
  BY <1>3, <1>7, RoomAssumption DEF Invariants, Order, Identity, InfoOf, RidOf, Registered
<1>9. m \in OwnerMembers => owns(m)
  <2>1. SUFFICES ASSUME m \in OwnerMembers PROVE owns(m)
    OBVIOUS
  <2>2. m \in OwnerSockets /\ Member(m) /\ ~Busy(m) /\ ~Doomed
    BY <1>1, <1>3, <1>7, <2>1, AloneOfPerson, NobodyIsDoomed DEF OwnerMembers, Member, SamePerson
  <2>3. Registered(m)
    BY <1>2, <1>7, <2>2 DEF ConnectionOK, Settled
  <2>4. socketInfo[m] = InfoOf(m)
    BY <1>7, <2>3 DEF Invariants, Order, Identity, Registered
  <2> QED  BY <1>3, <2>2, <2>3, <2>4 DEF InfoOf, RidOf, Registered
<1>10. /\ f(m) \in OwnerSockets \cup {Null} /\ f(m) # task[x].sock
       /\ OwnerMembers \subseteq (task[x].todo \ {m}) \cup {f(m)}
       /\ AtMostOne(((task[x].todo \ {m}) \cup {f(m)}) \cap OwnerSockets)
  <2>1. f(m) \in OwnerSockets \cup {Null} /\ f(m) # task[x].sock
    BY <1>3, <1>7, <1>8
  <2>2. f(m) \in task[x].todo \cup {task[x].found}
    OBVIOUS
  <2>3. OwnerMembers \subseteq (task[x].todo \ {m}) \cup {f(m)}
    <3>1. SUFFICES ASSUME NEW u \in OwnerMembers, u \notin task[x].todo \ {m}
                   PROVE  u = f(m)
      OBVIOUS
    <3>2. u \in OwnerSockets /\ u # Null
      BY <1>4, <3>1 DEF OwnerMembers
    <3>3. CASE u = m
      <4>1. owns(m)
        BY <1>9, <3>3
      <4>2. task[x].found # Null => task[x].found = m
        BY <1>3, <3>2, <3>3 DEF AtMostOne
      <4> QED  BY <3>3, <4>1, <4>2
    <3>4. CASE u # m
      <4>1. u = task[x].found
        BY <1>3, <3>1, <3>4
      <4> QED  BY <3>2, <4>1
    <3> QED  BY <3>3, <3>4
  <2>4. AtMostOne(((task[x].todo \ {m}) \cup {f(m)}) \cap OwnerSockets)
    BY <1>3, <2>2 DEF AtMostOne
  <2> QED  BY <2>1, <2>3, <2>4
<1> DEFINE moved(l) == [t(m) EXCEPT !.pc = l]
           Like(v) == /\ v.sock = task[x].sock /\ v.room = task[x].room
                      /\ v.rid = task[x].rid /\ v.next = task[x].next
                      /\ v.home = task[x].home /\ v.arg = task[x].arg
                      /\ v.owner = task[x].owner /\ v.then = task[x].then
                      /\ v.todo = task[x].todo \ {m} /\ v.found = f(m)
<1>11. t(m).pc = "activeInfo" /\ t(m).todo = task[x].todo \ {m} /\ Like(t(m))
  BY <1>1, <1>2 DEF TaskStates
<1>12. \A l \in Locations : moved(l).pc = l /\ Like(moved(l))
  BY <1>2 DEF TaskStates
<1>13. task \in [Tasks -> TaskStates]
  BY DEF IInv, TasksOK
<1> HIDE DEF f, owns, t, moved
<1>14. ASSUME NEW l \in {"activeInfo", "ensureOwner", "dropMember"}, NEW v,
              Set(x, v), UNCHANGED <<conn, joined>>, v.pc = l, Like(v),
              l = "dropMember" => ~conn[f(m)],
              l # "activeInfo" => task[x].todo \ {m} = {},
              l = "ensureOwner" => f(m) = Null
       PROVE  Invariants'
  <2>1. /\ OthersStay(x) /\ Keeps(x) /\ task'[x].pc = l
        /\ task'[x].arg = task[x].arg /\ task'[x].owner = task[x].owner
        /\ task'[x].then = task[x].then /\ task'[x].todo = task[x].todo \ {m}
        /\ task'[x].found = f(m)
    <3>1. task'[x] = v /\ OthersStay(x)
      BY <1>2, <1>13, <1>14 DEF Set, OthersStay
    <3> QED  BY <1>14, <3>1 DEF Keeps
  <2>2. Quiet /\ roomConfig' = roomConfig
    BY <1>6, <1>14, ReadsAreQuiet
  <2>3. OwnerMembers' = OwnerMembers
    BY <2>2 DEF Quiet, OwnerMembers
  <2>4. OwnerOK(x)'
    BY <1>4, <1>10, <1>14, <2>1, <2>3 DEF OwnerOK, OwnerMembers
  <2> QED
    BY <1>1, <1>3, <1>10, <1>14, <2>1, <2>2, <2>4, SeekStep DEF Replacing
<1>15. CASE t(m).todo # {}
  BY <1>5, <1>11, <1>14, <1>15
<1>16. CASE t(m).todo = {} /\ f(m) = Null
  <2>1. Set(x, moved("ensureOwner")) /\ UNCHANGED <<conn, joined>>
    BY <1>5, <1>16 DEF moved
  <2>2. moved("ensureOwner").pc = "ensureOwner" /\ Like(moved("ensureOwner"))
    BY <1>12 DEF Locations
  <2> QED  BY <1>11, <1>14, <1>16, <2>1, <2>2
<1>17. CASE t(m).todo = {} /\ f(m) # Null
  <2>0. moved("dropMember").pc = "dropMember" /\ Like(moved("dropMember"))
    BY <1>12 DEF Locations
  <2>1. Kick(x, f(m), moved("dropMember")) /\ f(m) \in OwnerSockets
    BY <1>5, <1>10, <1>17 DEF moved
  <2>2. PICK k \in Sockets : k = f(m) /\ k \in OwnerSockets /\ k # task[x].sock
    BY <1>4, <1>10, <2>1
  <2>3. Host[k] = Host[task[x].sock]
    BY <1>2, <2>2 DEF OneProcess
  <2>4. CASE ~conn[k]
    <3>1. Set(x, moved("dropMember")) /\ UNCHANGED <<conn, joined>>
      BY <2>1, <2>2, <2>4 DEF Kick
    <3> QED  BY <1>11, <1>14, <1>17, <2>0, <2>2, <2>4, <3>1
  <2>5. CASE conn[k]
    <3>1. /\ conn' = [conn EXCEPT ![k] = FALSE] /\ joined' = [joined EXCEPT ![k] = {}]
          /\ task' = [task EXCEPT ![x] = moved("dropMember"), ![k] = Disconnection(k)]
      BY <2>0, <2>1, <2>2, <2>3, <2>5 DEF Kick
    <3>2. /\ \A y \in Tasks : y # x /\ y # k => task'[y] = task[y]
          /\ Running(k)' /\ LossOK(k)' /\ task'[k].pc = "goneInfo"
          /\ ~conn'[k] /\ ~Inside(k)'
          /\ \A u \in Sockets : u # k => conn'[u] = conn[u] /\ joined'[u] = joined[u]
          /\ task'[x] = moved("dropMember")
      BY <3>1, KickedIsLost
    <3>3. PICK s \in Sockets : s = task[x].sock /\ s # k
      BY <1>2, <2>2
    <3>4. /\ task'[x].pc = "dropMember" /\ task'[x].sock = s /\ Keeps(x)
          /\ task'[x].arg = task[x].arg /\ task'[x].then = task[x].then
          /\ task'[x].found = k
      BY <2>0, <2>2, <3>2, <3>3 DEF Keeps
    <3>5. Touches(x, {k}) /\ {k} \in SUBSET Sockets
      <4>1. \A c \in Calls : c # x /\ Running(c) => task[c].sock # k
        BY <1>1, <1>3, <2>2, AloneOfPerson DEF SamePerson
      <4> QED  BY <1>6, <2>2, <3>2, <4>1 DEF Touches, Untouched, redisVars
    <3>6. OnlyHome' /\ Identity'
      BY <1>6, <3>1, <3>2 DEF Invariants, Order, OnlyHome, Identity, Registered, redisVars, Inside
    <3>7. \A u \in Sockets : /\ Member(u)' <=> Member(u)
                             /\ Ready(u)' <=> Ready(u)
                             /\ Registered(u)' <=> Registered(u)
      BY <1>6 DEF redisVars, Member, Ready, Registered
    <3>8. /\ Inside(s)' <=> Inside(s)
          /\ conn'[s]
          /\ rid' = rid
      BY <1>2, <1>6, <3>2, <3>3 DEF Inside
    <3>9. ConnectionOK(k)'
      <4>1. ~Busy(k) /\ ConnectionOK(k)
        BY <1>1, <1>2, <1>3, <2>2, AloneOfPerson DEF SamePerson
      <4>2. ~Ready(k) /\ (Member(k) => Registered(k))
        BY <2>2, <2>5, <4>1 DEF ConnectionOK, Settled
      <4> QED  BY <3>2, <3>7, <4>2 DEF ConnectionOK, Going
    <3>10. ConnectionOK(s)'
      <4>1. Busy(s)'
        BY <3>4 DEF Busy, Serves, Running
      <4> QED  BY <1>2, <3>3, <3>7, <3>8, <4>1 DEF ConnectionOK
    <3>11. CallOK(x)'
      BY <1>1, <1>2, <1>3, <1>4, <2>2, <3>2, <3>3, <3>4, <3>8
         DEF CallOK, Keeps, Casting, Asking, Replacing, Exiting, Deleting, Going
    <3>12. RequestOK(x)'
      BY <1>1, <1>2, <3>3, <3>4, <3>7, <3>8 DEF RequestOK, Asking, Replacing, Casting, Settled
    <3>13. OwnerMembers' = OwnerMembers /\ roomOwner' = roomOwner
      BY <1>6 DEF OwnerMembers, redisVars
    <3>14. OwnerOK(x)' /\ DeletionOK(x)'
      BY <1>10, <1>11, <1>17, <2>2, <3>4, <3>13 DEF OwnerOK, DeletionOK
    <3>15. GoesOn(x) /\ Own(x)
      BY <1>2, <3>3, <3>4, <3>11, <3>12, <3>14 DEF GoesOn, Own, Deletion, Keeps
    <3>16. ~Doomed /\ \A c \in Calls : task[c].pc \notin Deletion
      BY <1>1, NobodyIsDoomed
    <3>17. AtMostOne(OwnerMembers)'
      BY <3>13 DEF AtMostOne, Invariants, Ownership
    <3>18. roomOwner'[Home] = Null => OwnerMembers' = {}
      BY <3>13, <3>16 DEF Invariants, Ownership, Deletion
    <3>19. \A u \in {k} \cup {task[x].sock} : ConnectionOK(u)'
      BY <3>3, <3>9, <3>10
    <3>20. \A u \in {k} : Running(u)' => LossOK(u)'
      BY <3>2
    <3> QED
      BY <1>1, <1>3, <1>6, <3>5, <3>6, <3>13, <3>15, <3>16, <3>17, <3>18, <3>19, <3>20, CallStep
  <2> QED  BY <2>4, <2>5
<1> QED  BY <1>15, <1>16, <1>17

\* The clean-up of the connection that was replaced.
LEMMA DropStep ==
  ASSUME IInv, Invariants, NEW x \in Calls, DropMember(x) \/ DropInfo(x)
  PROVE  Invariants'
<1>1. /\ Running(x) /\ task[x].pc \in {"dropMember", "dropInfo"} /\ task[x].pc \notin Deletion
      /\ Home \notin deleted
  BY NotDeleted DEF DropMember, DropInfo, At, Running, Deletion, Harmless
<1>2. /\ x \in Tasks /\ RequestOK(x) /\ CallOK(x) /\ OwnerOK(x)
      /\ task[x].room = Home /\ Home \in Rooms
      /\ task[x].next = 1 /\ task[x] \in TaskStates /\ task[x].sock \in Sockets
      /\ conn[task[x].sock] /\ \A u \in Sockets : ConnectionOK(u)
      /\ task[x].found \in Sockets
  BY <1>1, CallFacts DEF Deletion, WellFormed, Astray, ToggleSteps, Casting
<1>3. PICK s \in Sockets : s = task[x].sock
  BY <1>2
<1>4. PICK k \in Sockets : k = task[x].found
  BY <1>2
<1>5. /\ s \in OwnerSockets /\ k \in OwnerSockets /\ k # s /\ ~conn[k]
      /\ task[x].then # "leave" /\ Null # k
      /\ ~Member(s) /\ ~Registered(s) /\ ~Inside(s)
  BY <1>1, <1>2, <1>3, <1>4, RoomAssumption
     DEF CallOK, RequestOK, Replacing, Going, Casting
<1>6. /\ UNCHANGED <<roomConfig, roomOwner, roomReady, spinLock, roomState>>
      /\ UNCHANGED <<ownerToken, conn, rid, role, joined, deleted, torn>>
      /\ roomMembers \in [Rooms -> SUBSET Sockets]
      /\ socketInfo \in [Sockets -> SocketInfos \cup {Null}]
      /\ roomMembers' = IF task[x].pc = "dropMember" THEN [roomMembers EXCEPT ![Home] = @ \ {k}]
                                                     ELSE roomMembers
      /\ socketInfo' = IF task[x].pc = "dropInfo" THEN [socketInfo EXCEPT ![k] = Null]
                                                  ELSE socketInfo
  BY <1>2, <1>4 DEF DropMember, DropInfo, RemoveRoomMember, RemoveSocketInfo,
         OnlyRedis, sockVars, At, IInv, RedisTypeOK
<1>7. /\ OthersStay(x) /\ Keeps(x) /\ task'[x].arg = task[x].arg
      /\ task'[x].then = task[x].then
      /\ task[x].pc = "dropMember" => task'[x].pc = "dropInfo" /\ task'[x].found = k
      /\ task[x].pc = "dropInfo" => task'[x].pc = "ensureOwner" /\ task'[x].found = Null
  <2>1. CASE DropMember(x)
    <3>1. OthersStay(x) /\ KeepsAll(x) /\ task'[x].pc = "dropInfo" /\ task[x].pc = "dropMember"
      BY <1>2, <2>1, GoMoves DEF DropMember, Locations, At
    <3> QED  BY <1>4, <3>1 DEF KeepsAll
  <2>2. CASE DropInfo(x)
    BY <1>2, <2>2 DEF DropInfo, At, IInv, TasksOK, TaskStates, Set, OthersStay, Keeps
  <2> QED  BY <2>1, <2>2
<1>8. Touches(x, {k}) /\ {k} \in SUBSET Sockets
  <2>1. \A c \in Calls : c # x /\ Running(c) => task[c].sock # k
    BY <1>1, <1>3, <1>5, AloneOfPerson DEF SamePerson
  <2>2. \A u \in Sockets : u # k => Untouched(u)
    BY <1>2, <1>6 DEF Untouched
  <2> QED  BY <1>6, <1>7, <2>1, <2>2 DEF Touches, OthersStay
<1>9. OnlyHome' /\ Identity'
  <2>1. OnlyHome'
    BY <1>2, <1>6 DEF Invariants, Order, OnlyHome
  <2>2. \A u \in Sockets : socketInfo'[u] \in {socketInfo[u], Null}
    BY <1>6
  <2> QED  BY <1>6, <2>1, <2>2 DEF Invariants, Order, Identity, Registered
<1>10. /\ Inside(k)' <=> Inside(k)
       /\ Ready(k)' <=> Ready(k)
       /\ Member(k)' => Member(k)
       /\ Registered(k)' <=> Registered(k) /\ task[x].pc # "dropInfo"
       /\ Member(s)' <=> Member(s)
       /\ Ready(s)' <=> Ready(s)
       /\ Registered(s)' <=> Registered(s)
       /\ Inside(s)' <=> Inside(s)
  BY <1>2, <1>5, <1>6 DEF Member, Registered, Ready, Inside
<1>11. task[x].pc = "dropMember" => ~Member(k)'
  BY <1>2, <1>6 DEF Member
<1>12. OwnerMembers' = {}
  <2>1. CASE task[x].pc = "dropMember"
    <3>1. OwnerMembers \subseteq {k}
      BY <1>2, <1>4, <2>1 DEF OwnerOK
    <3> QED  BY <1>2, <1>6, <2>1, <3>1 DEF OwnerMembers
  <2>2. CASE task[x].pc = "dropInfo"
    BY <1>2, <1>6, <2>2 DEF OwnerOK, OwnerMembers
  <2> QED  BY <1>1, <2>1, <2>2
<1>13. ~Member(k)'
  BY <1>5, <1>12 DEF OwnerMembers, Member
<1>14. ConnectionOK(k)'
  <2>1. ~Ready(k) /\ ~Inside(k) /\ (Registered(k) => task[k].pc \in Going)
    BY <1>2, <1>5 DEF ConnectionOK
  <2>2. task'[k] = task[k] /\ ~conn'[k]
    BY <1>5, <1>6, <1>7, CallsAreTasks DEF OthersStay
  <2> QED  BY <1>10, <1>13, <2>1, <2>2 DEF ConnectionOK
<1>15. task'[x].sock = s /\ conn'[s] /\ rid' = rid /\ ~conn'[k]
  BY <1>2, <1>3, <1>5, <1>6, <1>7 DEF Keeps
<1>16. ConnectionOK(s)'
  <2>1. Busy(s)'
    BY <1>1, <1>7, <1>15 DEF Busy, Serves, Running
  <2> QED  BY <1>2, <1>5, <1>10, <1>15, <2>1 DEF ConnectionOK
<1>17. CallOK(x)'
  <2>1. /\ task[x].arg = SeatedRole(s) /\ task[x].rid = RidOf(s) /\ rid'[s] = RidOf(s)
        /\ s \in OwnerSockets
    BY <1>1, <1>2, <1>3, <1>5, <1>15 DEF CallOK, Replacing
  <2>2. /\ task'[x].arg = SeatedRole(s) /\ task'[x].rid = RidOf(s) /\ task'[x].room = Home
        /\ task'[x].then # "leave"
    BY <1>2, <1>5, <1>7, <2>1 DEF Keeps
  <2>3. CASE task[x].pc = "dropMember"
    BY <1>5, <1>7, <1>15, <2>1, <2>2, <2>3
       DEF CallOK, Casting, Asking, Replacing, Exiting, Deleting, Going
  <2>4. CASE task[x].pc = "dropInfo"
    BY <1>4, <1>5, <1>7, <1>15, <2>1, <2>2, <2>4, RoomAssumption
       DEF CallOK, Casting, Asking, Replacing, Exiting, Deleting, Going
  <2> QED  BY <1>1, <2>3, <2>4
<1>18. RequestOK(x)'
  BY <1>1, <1>5, <1>7, <1>10, <1>15 DEF RequestOK, Asking, Replacing, Casting, Settled
<1>19. OwnerOK(x)' /\ DeletionOK(x)'
  BY <1>1, <1>7, <1>12 DEF OwnerOK, DeletionOK
<1>20. GoesOn(x) /\ Own(x)
  BY <1>1, <1>2, <1>3, <1>7, <1>15, <1>17, <1>18, <1>19 DEF GoesOn, Own, Deletion, Keeps
<1>21. ~Doomed
  BY <1>1, NobodyIsDoomed
<1>22. AtMostOne(OwnerMembers)'
  BY <1>12 DEF AtMostOne
<1>23. \A u \in {k} \cup {task[x].sock} : ConnectionOK(u)'
  BY <1>3, <1>14, <1>16
<1>24. \A u \in {k} : Running(u)' => LossOK(u)'
  <2>1. task'[k] = task[k] /\ conn'[k] = conn[k]
    BY <1>6, <1>7, CallsAreTasks DEF OthersStay
  <2> QED  BY <2>1 DEF Invariants, Order, LossesOK, LossOK, Running
<1> QED
  BY <1>1, <1>3, <1>5, <1>6, <1>8, <1>9, <1>12, <1>20, <1>21, <1>22, <1>23, <1>24, CallStep
-----------------------------------------------------------------------------
(***************************************************************************)
(* The deletion of the room.                                               *)
(***************************************************************************)
LEMMA DeletionIsAlone ==
  ASSUME Invariants, NEW x \in Calls, Running(x), task[x].pc \in Deletion
  PROVE  /\ \A c \in Calls : Running(c) => c = x
         /\ \A u \in Sockets : u # task[x].sock => ~Busy(u)
         /\ Doomed => task[x].pc \in {"delInfo", "delOwnInfo", "delRoom"}
         /\ Home \in deleted => task[x].pc = "delOwner"
         /\ roomOwner[Home] = Null => OwnerMembers = {} \/ task[x].pc = "delRoom"
<1>1. \A c \in Calls : Running(c) => c = x
  BY DEF Invariants, Order, InTurn
<1>2. \A c \in Calls : task[c].pc \in {"delInfo", "delOwnInfo", "delRoom"} => c = x
  BY <1>1 DEF Running
<1> QED
  BY <1>1, <1>2 DEF Busy, Serves, Doomed, Invariants, Deletions, Harmless, Deletion, Ownership

LEMMA DelOwnerStep ==
  ASSUME IInv, Invariants, NEW x \in Calls, DelOwner(x)
  PROVE  Invariants'
<1>1. Running(x) /\ task[x].pc = "delOwner" /\ task[x].pc \in Deletion
  BY DEF DelOwner, At, Running, Deletion
<1>2. /\ x \in Tasks /\ RequestOK(x) /\ CallOK(x) /\ task[x].room = Home /\ Home \in Rooms
      /\ task[x].next = 1 /\ task[x] \in TaskStates /\ task[x].sock \in Sockets
      /\ conn[task[x].sock]
  BY <1>1, CallFacts DEF Astray, ToggleSteps, Casting
<1>3. Settled(task[x].sock) /\ task[x].then # "leave"
  BY <1>1, <1>2 DEF RequestOK, CallOK, Casting, Going
<1>4. Quiet /\ roomConfig' = roomConfig
  BY ReadsOnlyIsQuiet DEF DelOwner
<1>5. CASE Set(x, Ended)
  BY <1>1, <1>3, <1>4, <1>5, EndStep
<1>6. CASE roomOwner[Home] = task[x].rid /\ Go(x, "delMembers")
  <2>1. PICK s \in Sockets : s = task[x].sock
    BY <1>2
  <2>2. roomOwner[Home] = Home /\ s \in OwnerSockets
    <3>1. task[x].rid \in {RidOf(s), s} /\ roomOwner[Home] \in {Null, Home}
      BY <1>2, <2>1 DEF CallOK, Invariants, Order, OnlyHome
    <3> QED  BY <1>6, <2>1, <3>1, RoomAssumption DEF RidOf
  <2>3. Home \notin deleted
    BY <2>2, RoomAssumption DEF Invariants, Deletions, KeysGone
  <2>4. OthersStay(x) /\ KeepsAll(x) /\ task'[x].pc = "delMembers"
    BY <1>2, <1>6, GoMoves DEF Locations
  <2>5. task'[x].sock = s /\ conn'[s]
    BY <1>2, <1>4, <2>1, <2>4 DEF KeepsAll, Keeps, Quiet
  <2>6. CallOK(x)'
    BY <1>2, <1>3, <2>1, <2>2, <2>4, <2>5
       DEF CallOK, KeepsAll, Keeps, Casting, Asking, Replacing, Exiting, Deleting, Going
  <2>7. RequestOK(x)'
    <3>1. Settled(s)'
      BY <1>3, <1>4, <2>1 DEF Quiet, Settled, Member, Inside, Registered
    <3> QED  BY <2>4, <2>5, <3>1 DEF RequestOK, Asking, Replacing, Casting
  <2>8. OwnerOK(x)' /\ DeletionOK(x)'
    BY <2>4 DEF OwnerOK, DeletionOK
  <2> QED
    BY <1>1, <1>2, <1>3, <1>4, <2>1, <2>3, <2>4, <2>5, <2>6, <2>7, <2>8, QuietStep
       DEF OthersStay, GoesOn, Own, KeepsAll, Keeps
<1> QED  BY <1>2, <1>5, <1>6 DEF DelOwner

\* One member after another is disconnected, and its info is deleted.
LEMMA KickNextStep ==
  ASSUME IInv, Invariants, OneProcess, NEW x \in Calls,
         task[x].pc \in {"delMembers", "delInfo"},
         NEW t \in TaskStates, KickNext(x, t),
         t.sock = task[x].sock, t.room = task[x].room, t.rid = task[x].rid,
         t.next = task[x].next, t.home = task[x].home, t.then = task[x].then,
         t.sock \notin t.todo,
         \A u \in Sockets : conn[u] /\ Member(u) => u \in t.todo \cup {task[x].sock},
         UNCHANGED <<roomConfig, roomOwner, roomMembers, roomReady, spinLock, roomState,
                     ownerToken, rid, role, deleted, torn>>,
         \A u \in Sockets : \/ socketInfo'[u] = socketInfo[u]
                            \/ ~conn[u] /\ socketInfo'[u] = Null
  PROVE  Invariants'
<1>1. Running(x) /\ task[x].pc \in Deletion
  BY DEF Running, Deletion
<1>2. /\ x \in Tasks /\ RequestOK(x) /\ CallOK(x)
      /\ task[x].room = Home /\ Home \in Rooms
      /\ task[x].next = 1 /\ task[x].sock \in Sockets
      /\ conn[task[x].sock] /\ \A u \in Sockets : ConnectionOK(u)
  BY <1>1, CallFacts DEF Astray, ToggleSteps, Casting
<1>3. PICK s \in Sockets : s = task[x].sock
  BY <1>2
<1>4. /\ s \in OwnerSockets /\ task[x].then # "leave" /\ Settled(s) /\ conn[s]
      /\ t.todo \subseteq Sockets /\ s \notin t.todo
  BY <1>1, <1>2, <1>3 DEF CallOK, RequestOK, Deleting, Going, Casting, TaskStates
<1>5. /\ \A c \in Calls : Running(c) => c = x
      /\ \A u \in Sockets : u # s => ~Busy(u)
      /\ Home \notin deleted
      /\ roomOwner[Home] = Null => OwnerMembers = {}
  BY <1>1, <1>3, DeletionIsAlone
<1>6. /\ conn \in [Sockets -> BOOLEAN] /\ joined \in [Sockets -> SUBSET Rooms]
      /\ task \in [Tasks -> TaskStates]
  BY DEF IInv, SocketsOK, TasksOK
\* Where request x goes, and whom it disconnects on the way.
<1> DEFINE Kicked == {u \in Sockets : conn[u] /\ ~conn'[u]}
<1>7. /\ task'[x].sock = s /\ task'[x].room = Home /\ task'[x].rid = task[x].rid
      /\ task'[x].next = 1 /\ task'[x].home = task[x].home /\ task'[x].then = task[x].then
      /\ \A y \in Tasks : y # x /\ y \notin Kicked => task'[y] = task[y]
      /\ s \notin Kicked
      /\ \A u \in Sockets : conn'[u] => conn[u]
      /\ \A u \in Sockets : u \notin Kicked => joined'[u] = joined[u] /\ conn'[u] = conn[u]
      /\ \A u \in Kicked : Running(u)' /\ LossOK(u)' /\ task'[u].pc = "goneInfo" /\ ~Inside(u)'
      /\ \/ task'[x].pc = "delOwnInfo" /\ t.todo = {}
         \/ /\ task'[x].pc = "delInfo" /\ ~conn'[task'[x].found]
            /\ task'[x].todo \subseteq t.todo
            /\ \A u \in Sockets : conn'[u] /\ u \in t.todo => u \in task'[x].todo
  <2>1. CASE t.todo = {}
    <3> DEFINE v == [t EXCEPT !.pc = "delOwnInfo", !.found = Null]
    <3>1. /\ v.pc = "delOwnInfo" /\ v.sock = s /\ v.room = Home /\ v.rid = task[x].rid
          /\ v.next = 1 /\ v.home = task[x].home /\ v.then = task[x].then
      BY <1>2, <1>3 DEF TaskStates
    <3>2. Set(x, v) /\ conn' = conn /\ joined' = joined
      BY <2>1 DEF KickNext
    <3> HIDE DEF v
    <3>3. task'[x] = v /\ \A y \in Tasks : y # x => task'[y] = task[y]
      BY <1>2, <1>6, <3>2 DEF Set
    <3> QED  BY <1>3, <2>1, <3>1, <3>2, <3>3
  <2>2. CASE t.todo # {}
    <3> DEFINE v(m) == [t EXCEPT !.pc = "delInfo", !.found = m, !.todo = @ \ {m}]
    <3>1. PICK m \in t.todo : Kick(x, m, v(m))
      BY <2>2 DEF KickNext
    <3>2. m \in Sockets /\ m # s /\ Host[m] = Host[s]
      BY <1>4 DEF OneProcess
    <3>3. /\ v(m).pc = "delInfo" /\ v(m).sock = s /\ v(m).room = Home /\ v(m).rid = task[x].rid
          /\ v(m).next = 1 /\ v(m).home = task[x].home /\ v(m).then = task[x].then
          /\ v(m).found = m /\ v(m).todo = t.todo \ {m}
      BY <1>2, <1>3 DEF TaskStates
    <3> HIDE DEF v
    <3>4. CASE ~conn[m]
      <4>1. Set(x, v(m)) /\ conn' = conn /\ joined' = joined
        BY <3>1, <3>4 DEF Kick
      <4>2. task'[x] = v(m) /\ \A y \in Tasks : y # x => task'[y] = task[y]
        BY <1>2, <1>6, <4>1 DEF Set
      <4> QED  BY <1>3, <3>2, <3>3, <3>4, <4>1, <4>2
    <3>5. CASE conn[m]
      <4>1. /\ conn' = [conn EXCEPT ![m] = FALSE] /\ joined' = [joined EXCEPT ![m] = {}]
            /\ task' = [task EXCEPT ![x] = v(m), ![m] = Disconnection(m)]
        BY <3>1, <3>2, <3>3, <3>5 DEF Kick
      <4>2. /\ \A y \in Tasks : y # x /\ y # m => task'[y] = task[y]
            /\ task'[x] = v(m)
            /\ Running(m)' /\ LossOK(m)' /\ task'[m].pc = "goneInfo"
            /\ ~conn'[m] /\ ~Inside(m)'
            /\ \A u \in Sockets : u # m => conn'[u] = conn[u] /\ joined'[u] = joined[u]
        BY <3>2, <4>1, KickedIsLost
      <4>3. Kicked = {m}
        BY <3>2, <3>5, <4>2
      <4>4. \A u \in Kicked : Running(u)' /\ LossOK(u)' /\ task'[u].pc = "goneInfo" /\ ~Inside(u)'
        BY <4>2, <4>3
      <4> HIDE DEF Kicked
      <4> QED  BY <1>3, <3>2, <3>3, <3>5, <4>2, <4>3, <4>4
    <3> QED  BY <3>4, <3>5
  <2> QED  BY <2>1, <2>2
<1>8. Running(x)' /\ Doomed'
  BY <1>7 DEF Running, Doomed
<1>9. Touches(x, Sockets \ {s})
  <2>1. Untouched(s)
    <3>1. socketInfo'[s] = socketInfo[s]
      BY <1>4
    <3> QED  BY <1>7, <3>1 DEF Untouched
  <2>2. \A y \in Tasks : y # x /\ y \notin Sockets \ {s} => task'[y] = task[y]
    BY <1>7
  <2> QED  BY <1>3, <1>5, <1>7, <2>1, <2>2 DEF Touches
<1> HIDE DEF Kicked
<1>10. OnlyHome' /\ Identity'
  <2>1. \A u \in Sockets : joined'[u] \subseteq {Home}
    <3>1. ASSUME NEW u \in Sockets PROVE joined'[u] \subseteq joined[u]
      <4>1. CASE u \in Kicked
        <5>1. ~Inside(u)' /\ conn[u] /\ ~conn'[u]
          BY <1>7, <4>1 DEF Kicked
        <5>2. joined'[u] \in {joined[u], {}}
          BY <1>6, <5>1 DEF KickNext, Kick
        <5> QED  BY <5>2
      <4> QED  BY <1>7, <3>1, <4>1
    <3> QED  BY <3>1 DEF Invariants, Order, OnlyHome
  <2>2. OnlyHome'
    BY <2>1 DEF Invariants, Order, OnlyHome
  <2>3. \A u \in Sockets : socketInfo'[u] \in {socketInfo[u], Null}
    OBVIOUS
  <2> QED  BY <2>2, <2>3 DEF Invariants, Order, Identity, Registered
<1>11. \A u \in Sockets : /\ Member(u)' <=> Member(u)
                          /\ Ready(u)' <=> Ready(u)
                          /\ Registered(u)' => Registered(u)
                          /\ conn[u] => (Registered(u)' <=> Registered(u))
  BY DEF Member, Ready, Registered
<1>12. ASSUME NEW u \in Sockets PROVE ConnectionOK(u)'
  <2>1. ConnectionOK(u)
    BY <1>2
  <2>2. CASE u \in Kicked
    BY <1>7, <1>8, <1>11, <2>1, <2>2 DEF ConnectionOK, Kicked, Going
  <2>3. CASE u \notin Kicked
    <3>1. conn'[u] = conn[u] /\ (Inside(u)' <=> Inside(u)) /\ task'[u] = task[u]
      BY <1>7, <2>3, CallsAreTasks DEF Inside
    <3>2. CASE ~conn[u]
      BY <1>8, <1>11, <2>1, <3>1, <3>2 DEF ConnectionOK
    <3>3. CASE conn[u]
      <4>1. Settled(u)' <=> Settled(u)
        BY <1>11, <3>1, <3>3 DEF Settled
      <4>2. Settled(u)
        BY <1>4, <1>5, <2>1, <3>3 DEF ConnectionOK
      <4> QED  BY <1>11, <2>1, <3>1, <3>3, <4>1, <4>2 DEF ConnectionOK
    <3> QED  BY <3>2, <3>3
  <2> QED  BY <2>2, <2>3
<1>13. conn'[s]
  BY <1>4, <1>7
<1>14. CallOK(x)'
  BY <1>1, <1>2, <1>3, <1>4, <1>7, <1>13
     DEF CallOK, Casting, Asking, Replacing, Exiting, Deleting, Going
<1>15. RequestOK(x)'
  <2>1. Settled(s)'
    BY <1>4, <1>7, <1>11 DEF Settled, Inside
  <2> QED  BY <1>7, <2>1 DEF RequestOK, Asking, Replacing, Casting
<1>16. OwnerOK(x)' /\ DeletionOK(x)'
  <2>1. OwnerOK(x)'
    BY <1>7 DEF OwnerOK
  <2>2. \A u \in Sockets : conn'[u] /\ Member(u)' => conn[u] /\ u \in t.todo \cup {s}
    BY <1>3, <1>7, <1>11
  <2> QED  BY <1>7, <2>1, <2>2 DEF DeletionOK
<1>17. GoesOn(x) /\ Own(x)
  BY <1>1, <1>3, <1>7, <1>14, <1>15, <1>16 DEF GoesOn, Own
<1>18. OwnerMembers' = OwnerMembers /\ roomOwner' = roomOwner
  BY DEF OwnerMembers
<1>19. AtMostOne(OwnerMembers)'
  BY <1>18 DEF Invariants, Ownership, AtMostOne
<1>20. \A u \in Sockets \ {s} : Running(u)' => LossOK(u)'
  <2>1. SUFFICES ASSUME NEW u \in Sockets, Running(u)' PROVE LossOK(u)'
    OBVIOUS
  <2>2. CASE u \in Kicked
    BY <1>7, <2>2
  <2>3. CASE u \notin Kicked
    <3>1. task'[u] = task[u] /\ conn'[u] = conn[u]
      BY <1>7, <2>3, CallsAreTasks
    <3> QED  BY <2>1, <3>1 DEF Invariants, Order, LossesOK, LossOK, Running
  <2> QED  BY <2>2, <2>3
<1> QED
  BY <1>1, <1>2, <1>3, <1>4, <1>5, <1>8, <1>9, <1>10, <1>12, <1>17, <1>18, <1>19, <1>20, CallStep

LEMMA DelMembersStep ==
  ASSUME IInv, Invariants, OneProcess, NEW x \in Calls, DelMembers(x) \/ DelInfo(x)
  PROVE  Invariants'
<1>1. Running(x) /\ task[x].pc \in {"delMembers", "delInfo"}
  BY DEF DelMembers, DelInfo, At, Running
<1>2. /\ x \in Tasks /\ CallOK(x) /\ DeletionOK(x) /\ task[x] \in TaskStates
      /\ task[x].room = Home /\ Home \in Rooms /\ WellFormed(task[x])
  BY <1>1, CallFacts
<1>3. CASE DelMembers(x)
  <2> DEFINE t == [task[x] EXCEPT !.todo = roomMembers[task[x].room] \ {task[x].sock}]
  <2>1. roomMembers[Home] \subseteq Sockets
    BY <1>2 DEF IInv, RedisTypeOK
  <2>2. /\ t \in TaskStates /\ t.sock = task[x].sock /\ t.room = task[x].room
        /\ t.rid = task[x].rid /\ t.next = task[x].next /\ t.home = task[x].home
        /\ t.then = task[x].then /\ t.todo = roomMembers[Home] \ {task[x].sock}
    BY <1>2, <2>1 DEF TaskStates
  <2>3. KickNext(x, t)
    BY <1>3 DEF DelMembers
  <2>4. UNCHANGED <<redisVars, ownerToken, rid, role, deleted, torn>>
    BY <1>3 DEF DelMembers
  <2> HIDE DEF t
  <2>5. \A u \in Sockets : conn[u] /\ Member(u) => u \in t.todo \cup {task[x].sock}
    BY <2>2 DEF Member
  <2> QED  BY <1>1, <2>2, <2>3, <2>4, <2>5, KickNextStep DEF redisVars
<1>4. CASE DelInfo(x)
  <2>1. PICK k \in Sockets : k = task[x].found /\ ~conn[k]
    BY <1>2, <1>4 DEF WellFormed, CallOK, DelInfo, At
  <2>2. socketInfo' = [socketInfo EXCEPT ![k] = Null] /\ socketInfo \in [Sockets -> SocketInfos \cup {Null}]
    BY <1>4, <2>1 DEF DelInfo, RemoveSocketInfo, IInv, RedisTypeOK
  <2>3. \A u \in Sockets : \/ socketInfo'[u] = socketInfo[u]
                           \/ ~conn[u] /\ socketInfo'[u] = Null
    BY <2>1, <2>2
  <2>4. task[x].sock \notin task[x].todo
    BY <1>2, <1>4 DEF CallOK, DelInfo, At
  <2>5. \A u \in Sockets : conn[u] /\ Member(u) => u \in task[x].todo \cup {task[x].sock}
    BY <1>2, <1>4 DEF DeletionOK, DelInfo, At
  <2>6. KickNext(x, task[x])
    BY <1>4 DEF DelInfo
  <2>7. UNCHANGED <<roomConfig, roomOwner, roomMembers, roomReady, spinLock, roomState,
                    ownerToken, rid, role, deleted, torn>>
    BY <1>4 DEF DelInfo, RemoveSocketInfo
  <2> QED  BY <1>1, <1>2, <2>3, <2>4, <2>5, <2>6, <2>7, KickNextStep
<1> QED  BY <1>3, <1>4

LEMMA DelOwnInfoStep ==
  ASSUME IInv, Invariants, NEW x \in Calls, DelOwnInfo(x)
  PROVE  Invariants'
<1>1. Running(x) /\ task[x].pc = "delOwnInfo" /\ task[x].pc \in Deletion
  BY DEF DelOwnInfo, At, Running, Deletion
<1>2. /\ x \in Tasks /\ CallOK(x) /\ DeletionOK(x)
      /\ task[x].room = Home /\ Home \in Rooms
      /\ task[x].next = 1 /\ task[x].sock \in Sockets
      /\ conn[task[x].sock] /\ \A u \in Sockets : ConnectionOK(u)
  BY <1>1, CallFacts DEF Astray, ToggleSteps, Casting
<1>3. PICK s \in Sockets : s = task[x].sock
  BY <1>2
<1>4. s \in OwnerSockets /\ task[x].then # "leave" /\ ~Ready(s) /\ conn[s]
  BY <1>1, <1>2, <1>3 DEF CallOK, Deleting, Going, Casting, ConnectionOK
<1>5. /\ Home \notin deleted
      /\ roomOwner[Home] = Null => OwnerMembers = {}
  BY <1>1, DeletionIsAlone
<1>6. /\ socketInfo' = [socketInfo EXCEPT ![s] = Null]
      /\ joined' = [joined EXCEPT ![s] = @ \ {Home}]
      /\ UNCHANGED <<roomConfig, roomOwner, roomMembers, roomReady, spinLock, roomState,
                     ownerToken, conn, rid, role, deleted, torn>>
      /\ socketInfo \in [Sockets -> SocketInfos \cup {Null}]
      /\ joined \in [Sockets -> SUBSET Rooms]
  BY <1>2, <1>3 DEF DelOwnInfo, RemoveSocketInfo, IInv, RedisTypeOK, SocketsOK
<1>7. OthersStay(x) /\ KeepsAll(x) /\ task'[x].pc = "delRoom"
  BY <1>2, GoMoves DEF DelOwnInfo, Locations
<1>8. AtSock(x) \in SUBSET Sockets /\ Touches(x, AtSock(x))
  BY <1>1, <1>3, <1>6, <1>7, SockIsOwn DEF Untouched
<1>9. \A u \in AtSock(x) : Running(u)' => LossOK(u)'
  BY <1>1, <1>6, <1>7, LossGoesOn
<1>10. OnlyHome' /\ Identity'
  BY <1>2, <1>3, <1>6 DEF Invariants, Order, OnlyHome, Identity, Registered
<1>11. /\ ~Inside(s)' /\ ~Registered(s)'
       /\ \A u \in Sockets : Member(u)' <=> Member(u)
       /\ Ready(s)' <=> Ready(s)
  BY <1>2, <1>6 DEF Member, Registered, Ready, Inside
<1>12. task'[x].sock = s /\ conn'[s] /\ conn' = conn
  BY <1>2, <1>3, <1>4, <1>6, <1>7 DEF KeepsAll, Keeps
<1>13. Running(x)' /\ Busy(s)' /\ Doomed'
  BY <1>7, <1>12 DEF Running, Busy, Serves, Doomed
<1>14. CallOK(x)'
  BY <1>2, <1>3, <1>4, <1>7, <1>12
     DEF CallOK, KeepsAll, Keeps, Casting, Asking, Replacing, Exiting, Deleting, Going
<1>15. RequestOK(x)'
  BY <1>7, <1>11, <1>12 DEF RequestOK, Asking, Replacing, Casting
<1>16. OwnerOK(x)' /\ DeletionOK(x)'
  BY <1>1, <1>2, <1>3, <1>7, <1>11, <1>12 DEF OwnerOK, DeletionOK, KeysGone, KeepsAll, Keeps
<1>17. GoesOn(x) /\ Own(x)
  BY <1>1, <1>3, <1>7, <1>12, <1>14, <1>15, <1>16 DEF GoesOn, Own
<1>18. OwnerMembers' = OwnerMembers /\ roomOwner' = roomOwner
  BY <1>6 DEF OwnerMembers
<1>19. AtMostOne(OwnerMembers)'
  BY <1>18 DEF Invariants, Ownership, AtMostOne
<1>20. \A u \in AtSock(x) : ConnectionOK(u)'
  BY <1>3, <1>4, <1>11, <1>12, <1>13 DEF ConnectionOK, AtSock
<1> QED
  BY <1>1, <1>3, <1>4, <1>5, <1>6, <1>8, <1>9, <1>10, <1>13, <1>17, <1>18, <1>19, <1>20, CallStep
     DEF AtSock

\* The DELs of deleteRoom.
LEMMA DelRoomStep ==
  ASSUME IInv, Invariants, NEW x \in Calls, DelRoom(x)
  PROVE  Invariants'
<1>1. Running(x) /\ task[x].pc = "delRoom" /\ task[x].pc \in Deletion
  BY DEF DelRoom, At, Running, Deletion
<1>2. /\ x \in Tasks /\ CallOK(x) /\ RequestOK(x) /\ DeletionOK(x) /\ task[x] \in TaskStates
      /\ task[x].room = Home /\ Home \in Rooms /\ task[x].sock \in Sockets
      /\ conn[task[x].sock] /\ \A u \in Sockets : ConnectionOK(u)
  BY <1>1, CallFacts DEF Astray, ToggleSteps, Casting
<1>3. PICK s \in Sockets : s = task[x].sock
  BY <1>2
<1>4. /\ s \in OwnerSockets /\ task[x].then # "leave" /\ ~Ready(s) /\ conn[s]
      /\ ~Inside(s) /\ ~Registered(s)
  BY <1>1, <1>2, <1>3 DEF CallOK, RequestOK, Deleting, Going, Casting, ConnectionOK
<1>5. /\ \A c \in Calls : Running(c) => c = x
      /\ \A u \in Sockets : u # s => ~Busy(u)
      /\ Home \notin deleted
  BY <1>1, <1>3, DeletionIsAlone
<1>6. Len(DeletionOrder) = 7 /\ \E n \in 1..7 : n = task[x].next
  BY <1>2 DEF DeletionOrder, TaskStates
<1> PICK n \in 1..7 : n = task[x].next
  BY <1>6
<1> DEFINE last == n = 7
<1>7. /\ DeletionOrder[n] = "token" <=> n = 3
      /\ DeletionOrder[n] = "config" <=> n = 1
      /\ DeletionOrder[n] = "owner" <=> n = 2
      /\ DeletionOrder[n] = "members" <=> n = 4
      /\ DeletionOrder[n] = "ready" <=> n = 5
      /\ DeletionOrder[n] = "state" <=> n = 6
      /\ DeletionOrder[n] = "lock" <=> n = 7
  BY <1>6 DEF DeletionOrder
<1>8. /\ roomConfig' = IF n = 1 THEN [roomConfig EXCEPT ![Home] = Null] ELSE roomConfig
      /\ roomOwner' = IF n = 2 THEN [roomOwner EXCEPT ![Home] = Null] ELSE roomOwner
      /\ ownerToken' = IF n = 3 THEN [ownerToken EXCEPT ![Home] = FALSE] ELSE ownerToken
      /\ roomMembers' = IF n = 4 THEN [roomMembers EXCEPT ![Home] = {}] ELSE roomMembers
      /\ roomReady' = IF n = 5 THEN [roomReady EXCEPT ![Home] = {}] ELSE roomReady
      /\ roomState' = IF n = 6 THEN [roomState EXCEPT ![Home] = Null] ELSE roomState
      /\ spinLock' = IF n = 7 THEN [spinLock EXCEPT ![Home] = Null] ELSE spinLock
      /\ socketInfo' = socketInfo
  BY <1>2, <1>7 DEF DelRoom, DeleteRoomKey, redisVars
<1>9. /\ UNCHANGED <<conn, rid, role, joined, torn>>
      /\ deleted' = IF last THEN deleted \cup {Home} ELSE deleted
      /\ Set(x, IF last THEN Ended ELSE [task[x] EXCEPT !.next = n + 1])
  BY <1>2, <1>6 DEF DelRoom, sockVars
<1>10. /\ roomConfig \in [Rooms -> WinnersCounts \cup {Null}]
       /\ roomOwner \in [Rooms -> Rids \cup {Null}] /\ ownerToken \in [Rooms -> BOOLEAN]
       /\ roomMembers \in [Rooms -> SUBSET Sockets] /\ roomReady \in [Rooms -> SUBSET Sockets]
       /\ roomState \in [Rooms -> Spins \cup {Null}] /\ spinLock \in [Rooms -> Spins \cup {Null}]
  BY DEF IInv, RedisTypeOK, SocketsOK
<1>11. /\ \A u \in Sockets : /\ Member(u)' => Member(u)
                             /\ Ready(u)' => Ready(u)
                             /\ Registered(u)' <=> Registered(u)
                             /\ Inside(u)' <=> Inside(u)
       /\ OwnerMembers' \subseteq OwnerMembers
  BY <1>2, <1>8, <1>9, <1>10 DEF Member, Ready, Registered, Inside, OwnerMembers
<1>12. OnlyHome' /\ Identity'
  BY <1>2, <1>8, <1>9, <1>10 DEF Invariants, Order, OnlyHome, Identity, Registered
<1>13. KeysGone(n)
  BY <1>1, <1>2 DEF DeletionOK
<1>14. /\ n = 1 => roomConfig'[Home] = Null
       /\ n = 2 => roomOwner'[Home] = Null
       /\ n = 3 => ~ownerToken'[Home]
       /\ n = 4 => roomMembers'[Home] = {}
       /\ n = 5 => roomReady'[Home] = {}
       /\ roomConfig[Home] = Null => roomConfig'[Home] = Null
       /\ roomOwner[Home] = Null => roomOwner'[Home] = Null
       /\ ~ownerToken[Home] => ~ownerToken'[Home]
       /\ roomMembers[Home] = {} => roomMembers'[Home] = {}
       /\ roomReady[Home] = {} => roomReady'[Home] = {}
  BY <1>2, <1>8, <1>10
<1>15. KeysGone(IF last THEN 7 ELSE n + 1)'
  BY <1>6, <1>13, <1>14 DEF KeysGone
<1>16. AtMostOne(OwnerMembers)'
  BY <1>11 DEF Invariants, Ownership, AtMostOne
<1>17. \A u \in Sockets : u # s /\ conn[u] => ~Member(u) /\ ~Ready(u) /\ ~Inside(u) /\ ~Registered(u)
  <2>1. SUFFICES ASSUME NEW u \in Sockets, u # s, conn[u]
                 PROVE  ~Member(u) /\ ~Ready(u) /\ ~Inside(u) /\ ~Registered(u)
    OBVIOUS
  <2>2. ~Member(u)
    BY <1>1, <1>2, <1>3, <2>1 DEF DeletionOK
  <2> QED  BY <1>2, <1>5, <2>1, <2>2 DEF ConnectionOK, Settled
<1>18. ASSUME OthersStay(x),
              Running(x)' => task'[x].sock = s /\ Doomed',
              ~Running(x)' => roomMembers'[Home] = {} /\ roomReady'[Home] = {}
       PROVE  \A u \in Sockets : ConnectionOK(u)'
  <2>1. SUFFICES ASSUME NEW u \in Sockets PROVE ConnectionOK(u)'
    OBVIOUS
  <2>2. ConnectionOK(u) /\ conn'[u] = conn[u] /\ task'[u] = task[u]
    BY <1>2, <1>5, <1>9, <1>18, CallsAreTasks DEF OthersStay
  <2>3. CASE ~conn[u]
    <3>1. Doomed' \/ (~Member(u)' /\ ~Ready(u)')
      BY <1>18 DEF Member, Ready
    <3> QED  BY <1>11, <2>2, <2>3, <3>1 DEF ConnectionOK
  <2>4. CASE conn[u] /\ u # s
    BY <1>11, <1>17, <2>2, <2>4 DEF ConnectionOK, Settled
  <2>5. CASE u = s
    <3>1. ~Ready(u)' /\ ~Inside(u)' /\ ~Registered(u)' /\ conn[u]
      BY <1>4, <1>11, <2>5
    <3>2. Running(x)' => Busy(u)'
      BY <1>18, <2>5 DEF Busy, Serves
    <3>3. ~Running(x)' => ~Member(u)'
      BY <1>18 DEF Member
    <3> QED  BY <2>2, <3>1, <3>2, <3>3 DEF ConnectionOK, Settled
  <2> QED  BY <2>3, <2>4, <2>5
<1>19. ASSUME OthersStay(x)
       PROVE  /\ Touches(x, Sockets)
              /\ \A u \in Sockets : Running(u)' => LossOK(u)'
  <2>1. \A u \in Sockets : task'[u] = task[u]
    BY <1>2, <1>5, <1>19, CallsAreTasks DEF OthersStay
  <2>2. \A u \in Sockets : Running(u)' => LossOK(u)'
    BY <1>9, <2>1 DEF Invariants, Order, LossesOK, LossOK, Running
  <2> QED  BY <1>5, <1>9, <1>19, <2>2 DEF Touches, OthersStay
<1>20. CASE last
  <2>1. OthersStay(x) /\ ~Running(x)'
    BY <1>2, <1>9, <1>20, EndMoves
  <2>2. KeysGone(7)'
    BY <1>15, <1>20
  <2>3. roomMembers'[Home] = {} /\ roomReady'[Home] = {} /\ OwnerMembers' = {}
    BY <2>2 DEF KeysGone, OwnerMembers
  <2>4. \A u \in Sockets : ConnectionOK(u)'
    BY <1>18, <2>1, <2>3
  <2> QED
    BY <1>1, <1>2, <1>3, <1>4, <1>12, <1>16, <1>19, <2>1, <2>2, <2>3, <2>4, CallStep
       DEF GoesOn, Own
<1>21. CASE ~last
  <2> DEFINE t == [task[x] EXCEPT !.next = n + 1]
  <2>1. /\ t.pc = "delRoom" /\ t.sock = s /\ t.room = Home /\ t.rid = task[x].rid
        /\ t.then = task[x].then /\ t.home = task[x].home /\ t.next = n + 1
    BY <1>1, <1>2, <1>3 DEF TaskStates
  <2>2. Set(x, t)
    BY <1>9, <1>21
  <2> HIDE DEF t
  <2>3. task'[x] = t /\ OthersStay(x)
    BY <1>2, <2>2 DEF Set, OthersStay, IInv, TasksOK
  <2>4. Running(x)' /\ Doomed' /\ task'[x].sock = s
    BY <2>1, <2>3 DEF Running, Doomed
  <2>5. \A u \in Sockets : ConnectionOK(u)'
    BY <1>18, <2>3, <2>4
  <2>6. conn'[s] /\ rid' = rid
    BY <1>4, <1>9
  <2>7. CallOK(x)'
    BY <1>2, <1>3, <1>4, <2>1, <2>3, <2>6
       DEF CallOK, Casting, Asking, Replacing, Exiting, Deleting, Going
  <2>8. RequestOK(x)'
    BY <1>4, <1>11, <2>1, <2>3 DEF RequestOK, Asking, Replacing, Casting
  <2>9. OwnerOK(x)' /\ DeletionOK(x)'
    <3>1. \A u \in Sockets : conn'[u] /\ Member(u)' => u = s
      BY <1>9, <1>11, <1>17
    <3>2. KeysGone(n + 1)'
      BY <1>15, <1>21
    <3> QED  BY <2>1, <2>3, <3>1, <3>2 DEF OwnerOK, DeletionOK
  <2>10. GoesOn(x) /\ Own(x)
    BY <1>1, <1>3, <2>1, <2>3, <2>7, <2>8, <2>9 DEF GoesOn, Own
  <2>11. Home \notin deleted' /\ task'[x].pc = "delRoom"
    BY <1>5, <1>9, <1>21, <2>1, <2>3
  <2> QED
    BY <1>1, <1>2, <1>3, <1>4, <1>12, <1>16, <1>19, <2>3, <2>4, <2>5, <2>10, <2>11, CallStep
<1> QED  BY <1>20, <1>21
-----------------------------------------------------------------------------
(***************************************************************************)
(* The handleDisconnect of a lost socket, which runs beside the requests.  *)
(***************************************************************************)
LEMMA LossFacts ==
  ASSUME IInv, Invariants, NEW x \in Sockets, Running(x)
  PROVE  /\ x \in Tasks /\ task[x] \in TaskStates /\ WellFormed(task[x])
         /\ task[x].sock = x /\ ~conn[x] /\ task[x].then = "end"
         /\ task[x].pc \in Going \cup Casting \cup Touching
         /\ task[x].pc # "goneInfo" => task[x].room = Home
         /\ Home \in Rooms /\ ConnectionOK(x) /\ ~Inside(x)
<1>1. LossOK(x) /\ ConnectionOK(x)
  BY DEF Invariants, Order, LossesOK, Registry
<1>2. x \in Tasks /\ task[x] \in TaskStates /\ WellFormed(task[x])
  BY CallsAreTasks DEF IInv, TasksOK
<1> QED  BY <1>1, <1>2, RoomAssumption DEF LossOK, ConnectionOK

\* It takes from the registry what there is of its socket, and nothing else.
LEMMA LossStep ==
  ASSUME IInv, Invariants, NEW x \in Sockets, Running(x), OthersStay(x),
         \A u \in Sockets : u # x => Untouched(u),
         UNCHANGED <<conn, joined, rid, role, roomConfig, roomOwner, roomState, spinLock,
                     ownerToken, deleted, torn>>,
         \A r \in Rooms : r # Home => /\ roomMembers'[r] = roomMembers[r]
                                      /\ roomReady'[r] = roomReady[r],
         roomMembers'[Home] \subseteq roomMembers[Home],
         roomReady'[Home] \subseteq roomReady[Home],
         socketInfo'[x] \in {socketInfo[x], Null},
         Running(x)' => LossOK(x)',
         Registered(x)' => task'[x].pc \in Going,
         Member(x)' => Doomed \/ (Registered(x)' /\ task'[x].pc \in Going \ {"goneDelete"}),
         Ready(x)' => \/ Doomed
                      \/ x \in torn
                      \/ Registered(x)' /\ task'[x].pc \in {"goneInfo", "goneReady"}
  PROVE  Invariants'
<1>1. x \in Tasks /\ x \notin Calls /\ ConnectionOK(x) /\ ~conn[x] /\ ~Inside(x)
  BY LossFacts, CallsAreTasks
<1>2. \A c \in Calls : task'[c] = task[c] /\ Running(c)' = Running(c)
  BY <1>1, CallsAreTasks DEF OthersStay, Running
<1>3. ASSUME NEW c \in Calls, Running(c)
      PROVE  /\ task[c].sock \in Sockets
             /\ task[c].sock # x => Untouched(task[c].sock)
             /\ task[c].sock = x => task[c].pc \in Astray /\ task[c].then # "leave"
  BY <1>1, <1>3 DEF Invariants, Order, CallsOK, CallOK
<1>4. (Doomed' <=> Doomed) /\ \A u \in Sockets : Busy(u)' <=> Busy(u)
  BY <1>2 DEF Doomed, Busy, Serves
<1>5. OnlyHome' /\ Identity'
  <2>1. OnlyHome'
    BY DEF Invariants, Order, OnlyHome
  <2>2. \A u \in Sockets : socketInfo'[u] \in {socketInfo[u], Null}
    BY DEF Untouched
  <2> QED  BY <2>1, <2>2 DEF Invariants, Order, Identity, Registered
<1>6. CallsOK'
  <2>1. SUFFICES ASSUME NEW c \in Calls, Running(c) PROVE CallOK(c)'
    BY <1>2 DEF CallsOK
  <2>2. CallOK(c) /\ task'[c] = task[c]
    BY <1>2, <2>1 DEF Invariants, Order, CallsOK
  <2> QED  BY <2>2 DEF CallOK
<1>7. InTurn'
  BY <1>2 DEF Invariants, Order, InTurn
<1>8. LossesOK'
  <2>1. SUFFICES ASSUME NEW u \in Sockets, u # x, Running(u)' PROVE LossOK(u)'
    BY DEF LossesOK
  <2>2. task'[u] = task[u] /\ conn'[u] = conn[u]
    BY <2>1, CallsAreTasks DEF OthersStay
  <2> QED  BY <2>1, <2>2 DEF Invariants, Order, LossesOK, LossOK, Running
<1>9. Registry'
  <2>1. ASSUME NEW u \in Sockets PROVE ConnectionOK(u)'
    <3>1. CASE u = x
      <4>1. /\ ~conn'[x] /\ ~Inside(x)'
            /\ Ready(x)' => Ready(x)
        BY <1>1 DEF Inside, Ready
      <4> QED  BY <1>1, <1>4, <3>1, <4>1 DEF ConnectionOK
    <3>2. CASE u # x
      <4>1. /\ task'[u] = task[u] /\ conn'[u] = conn[u] /\ ConnectionOK(u)
            /\ Member(u)' <=> Member(u)
            /\ Ready(u)' <=> Ready(u)
            /\ Registered(u)' <=> Registered(u)
            /\ Inside(u)' <=> Inside(u)
        BY <2>1, <3>2, CallsAreTasks
           DEF OthersStay, Untouched, Member, Ready, Registered, Inside, Invariants, Registry
      <4>2. Settled(u)' <=> Settled(u)
        BY <4>1 DEF Settled
      <4> QED  BY <1>4, <2>1, <4>1, <4>2 DEF ConnectionOK
    <3> QED  BY <3>1, <3>2
  <2>2. ASSUME NEW c \in Calls, Running(c) PROVE RequestOK(c)'
    <3>1. RequestOK(c) /\ task'[c] = task[c]
      BY <1>2, <2>2 DEF Invariants, Registry
    <3>2. CASE task[c].sock # x
      <4>1. Untouched(task[c].sock)
        BY <1>3, <2>2, <3>2
      <4> QED  BY <3>1, <4>1 DEF RequestOK, Settled, Untouched, Member, Inside, Registered, Ready
    <3>3. CASE task[c].sock = x
      <4>1. task'[c].pc \in Astray /\ task'[c].then # "leave" /\ ~conn'[task'[c].sock]
        BY <1>1, <1>3, <2>2, <3>1, <3>3
      <4> QED  BY <4>1 DEF RequestOK, Settled, Astray, ToggleSteps, Casting, Asking, Replacing
    <3> QED  BY <3>2, <3>3
  <2> QED  BY <1>2, <2>1, <2>2 DEF Registry
<1>10. Ownership'
  <2>1. OwnerMembers' \subseteq OwnerMembers
    BY DEF OwnerMembers
  <2>2. AtMostOne(OwnerMembers)'
    BY <2>1 DEF Invariants, Ownership, AtMostOne
  <2>3. roomOwner'[Home] = Null =>
          OwnerMembers' = {} \/ \E c \in Calls : task'[c].pc = "delRoom"
    BY <1>2, <2>1 DEF Invariants, Ownership
  <2>4. ASSUME NEW c \in Calls, Running(c) PROVE OwnerOK(c)'
    <3>1. OwnerOK(c) /\ task'[c] = task[c]
      BY <1>2, <2>4 DEF Invariants, Ownership
    <3> QED  BY <2>1, <3>1 DEF OwnerOK
  <2> QED  BY <1>2, <2>2, <2>3, <2>4 DEF Ownership
<1>11. Deletions'
  <2>1. ASSUME NEW k \in Nat, KeysGone(k) PROVE KeysGone(k)'
    BY <2>1 DEF KeysGone
  <2>2. ASSUME NEW c \in Calls, Running(c) PROVE DeletionOK(c)'
    <3>1. DeletionOK(c) /\ task'[c] = task[c]
      BY <1>2, <2>2 DEF Invariants, Deletions
    <3>2. \A u \in Sockets : conn'[u] /\ Member(u)' => conn[u] /\ Member(u)
      BY DEF Member
    <3>3. task[c].next \in Nat
      <4>1. task[c] \in TaskStates /\ Len(DeletionOrder) = 7
        BY CallsAreTasks DEF IInv, TasksOK, DeletionOrder
      <4> QED  BY <4>1 DEF TaskStates
    <3>4. KeysGone(task[c].next) => KeysGone(task[c].next)'
      BY <1>2, <2>2, <3>3 DEF KeysGone
    <3> QED  BY <1>2, <2>2, <3>1, <3>2, <3>3, <3>4 DEF DeletionOK, KeysGone
  <2>3. Home \in deleted' => KeysGone(7)'
    BY <2>1 DEF Invariants, Deletions
  <2>4. ASSUME NEW c \in Calls, Running(c)
        PROVE  Registered(task[c].sock)' => Registered(task[c].sock)
    BY <1>2, <1>3, <2>4 DEF Registered, Untouched
  <2> QED  BY <1>2, <2>2, <2>3, <2>4 DEF Invariants, Deletions
<1> QED
  BY <1>5, <1>6, <1>7, <1>8, <1>9, <1>10, <1>11 DEF Invariants, Order

\* Every step of a request.
LEMMA RequestRuns ==
  ASSUME IInv, Invariants, OneProcess, NEW x \in Calls, Run(x)
  PROVE  Invariants'
<1>1. CASE PassThrough(x) \/ ReplyState(x) \/ Close(x)
  BY <1>1, ControlStep
<1>2. CASE Join(x)
  <2>1. CASE CheckToken(x) \/ ActiveOwner(x) \/ ActiveMembers(x)
    BY <2>1, JoinReadStep
  <2>2. CASE TakeOwnerRid(x)
    BY <2>2, TakeRidStep
  <2>3. CASE ActiveInfo(x)
    BY <2>3, ReplaceStep
  <2>4. CASE DropMember(x) \/ DropInfo(x)
    BY <2>4, DropStep
  <2>5. CASE EnsureOwner(x) \/ RecordOwner(x) \/ CheckRoom(x)
    BY <2>5, EnsureOwnerStep
  <2>6. CASE AddMember(x)
    BY <2>6, AddMemberStep
  <2>7. CASE RecordInfo(x)
    BY <2>7, InfoStep
  <2>8. CASE EnsureConfig(x)
    BY <2>8, DefaultConfigStep
  <2> QED  BY <1>2, <2>1, <2>2, <2>3, <2>4, <2>5, <2>6, <2>7, <2>8 DEF Join
<1>3. CASE Broadcast(x)
  BY <1>3, BroadcastStep
<1>4. CASE Gone(x)
  BY <1>4, GoneInfoStep, GoneStep DEF Gone
<1>5. CASE Leave(x)
  BY <1>5, LeaveInfoStep, OwnerLeaveStep DEF Leave
<1>6. CASE Settings(x)
  <2>1. CASE ToggleInfo(x) \/ NickInfo(x) \/ ConfigOwner(x) \/ ConfigSet(x)
    BY <2>1, SettingsStep
  <2>2. CASE ToggleWrite(x)
    BY <2>2, ToggleStep
  <2>3. CASE NickSet(x)
    BY <2>3, InfoStep
  <2> QED  BY <1>6, <2>1, <2>2, <2>3 DEF Settings
<1>7. CASE Delete(x)
  <2>1. CASE DelOwner(x)
    BY <2>1, DelOwnerStep
  <2>2. CASE DelMembers(x) \/ DelInfo(x)
    BY <2>2, DelMembersStep
  <2>3. CASE DelOwnInfo(x)
    BY <2>3, DelOwnInfoStep
  <2>4. CASE DelRoom(x)
    BY <2>4, DelRoomStep
  <2> QED  BY <1>7, <2>1, <2>2, <2>3, <2>4 DEF Delete
<1> QED  BY <1>1, <1>2, <1>3, <1>4, <1>5, <1>6, <1>7 DEF Run

\* Once it has come to the broadcast, there is nothing left to take.
LEMMA LossEndStep ==
  ASSUME IInv, Invariants, NEW x \in Sockets, Running(x), OthersStay(x),
         Quiet, roomConfig' = roomConfig, task[x].pc \in Casting \cup Touching,
         Running(x)' => /\ task'[x].sock = x /\ task'[x].then = "end"
                        /\ task'[x].room = task[x].room
                        /\ task'[x].pc \in Casting \cup Touching
  PROVE  Invariants'
<1>1. /\ ~conn[x] /\ ConnectionOK(x) /\ task[x].pc \notin Going
      /\ task[x].room = Home
  BY LossFacts DEF Casting, Touching, Going
<1>2. ~Registered(x) /\ (Member(x) => Doomed) /\ (Ready(x) => Doomed \/ x \in torn)
  BY <1>1 DEF ConnectionOK, Going
<1>3. ~Registered(x)' /\ (Member(x)' => Doomed) /\ (Ready(x)' => Doomed \/ x \in torn)
  BY <1>2 DEF Quiet, Registered, Member, Ready
<1>4. Running(x)' => LossOK(x)'
  BY <1>1 DEF LossOK, Quiet
<1>5. \A u \in Sockets : Untouched(u)
  BY DEF Quiet, Untouched
<1> QED
  BY <1>3, <1>4, <1>5, LossStep DEF Quiet

LEMMA LossControlStep ==
  ASSUME IInv, Invariants, NEW x \in Sockets,
         PassThrough(x) \/ ReplyState(x) \/ Close(x) \/ Broadcast(x)
  PROVE  Invariants'
<1>1. Running(x)
  BY DEF PassThrough, ReplyState, Close, Broadcast, CastOwner, CastMembers, CastReady,
         CastInfo, Onward, At, Running
<1>2. /\ x \in Tasks /\ task[x] \in TaskStates /\ task[x].sock = x /\ task[x].then = "end"
      /\ task[x].pc \in Going \cup Casting \cup Touching
  BY <1>1, LossFacts
<1>3. CASE PassThrough(x)
  <2>1. /\ task[x].pc = "ttlMembers" /\ Go(x, "ttlExpire") /\ ReadsOnly
    BY <1>2, <1>3 DEF PassThrough, Onward, Going, Casting, Touching
  <2>2. OthersStay(x) /\ KeepsAll(x) /\ task'[x].pc = "ttlExpire"
    BY <1>2, <2>1, GoMoves DEF Locations
  <2>3. Quiet /\ roomConfig' = roomConfig
    BY <2>1, ReadsOnlyIsQuiet
  <2> QED  BY <1>1, <1>2, <2>1, <2>2, <2>3, LossEndStep DEF KeepsAll, Keeps, Touching
<1>4. CASE ReplyState(x)
  BY <1>2, <1>4 DEF ReplyState, At, Going, Casting, Touching
<1>5. ASSUME task' = Finished(x), LeaveRoom(x), task[x].pc \in Casting \cup Touching,
             UNCHANGED <<redisVars, ownerToken, conn, rid, role, deleted, torn>>
      PROVE  Invariants'
  <2>1. OthersStay(x) /\ ~Running(x)'
    BY <1>2, <1>5, EndMoves
  <2>2. UNCHANGED joined
    BY <1>2, <1>5 DEF LeaveRoom
  <2>3. Quiet /\ roomConfig' = roomConfig
    BY <1>5, <2>2, ReadsAreQuiet
  <2> QED  BY <1>1, <1>5, <2>1, <2>3, LossEndStep
<1>6. CASE Close(x)
  <2>1. task[x].pc \in Touching
    BY <1>2, <1>6 DEF Close, Going, Casting, Touching
  <2> QED  BY <1>5, <1>6, <2>1 DEF Close
<1>7. ASSUME task[x].pc \in Casting, CastDone(x),
             UNCHANGED <<redisVars, ownerToken, conn, rid, role, deleted, torn>>
      PROVE  Invariants'
  BY <1>2, <1>5, <1>7 DEF CastDone
<1>8. ASSUME NEW t, Set(x, t), task[x].pc \in Casting, t.pc \in Casting, UNCHANGED joined,
             t.sock = task[x].sock, t.room = task[x].room, t.then = task[x].then,
             UNCHANGED <<redisVars, ownerToken, conn, rid, role, deleted, torn>>
      PROVE  Invariants'
  <2>1. OthersStay(x) /\ task'[x] = t
    BY <1>2, <1>8 DEF Set, OthersStay, IInv, TasksOK
  <2>2. Quiet /\ roomConfig' = roomConfig
    BY <1>8, ReadsAreQuiet
  <2> QED  BY <1>1, <1>2, <1>8, <2>1, <2>2, LossEndStep
<1>9. CASE CastOwner(x)
  <2>1. task[x].pc \in Casting
    BY <1>9 DEF CastOwner, At, Casting
  <2>2. CASE roomOwner[task[x].room] = Null
    BY <1>7, <1>9, <2>1, <2>2 DEF CastOwner
  <2>3. CASE roomOwner[task[x].room] # Null
    <3> DEFINE t == [task[x] EXCEPT !.pc = "castMembers", !.owner = roomOwner[task[x].room],
                                    !.found = Null, !.parts = {}]
    <3>1. /\ t.pc \in Casting /\ t.sock = task[x].sock /\ t.room = task[x].room
          /\ t.then = task[x].then
      BY <1>2 DEF TaskStates, Casting
    <3>2. Set(x, t) /\ UNCHANGED joined
      BY <1>9, <2>3 DEF CastOwner
    <3> HIDE DEF t
    <3> QED  BY <1>8, <1>9, <2>1, <3>1, <3>2 DEF CastOwner
  <2> QED  BY <2>2, <2>3
<1>10. CASE CastMembers(x)
  <2> DEFINE t == [task[x] EXCEPT !.pc = "castReady", !.todo = roomMembers[task[x].room]]
  <2>1. /\ t.pc \in Casting /\ t.sock = task[x].sock /\ t.room = task[x].room
        /\ t.then = task[x].then
    BY <1>2 DEF TaskStates, Casting
  <2>2. Set(x, t) /\ task[x].pc \in Casting
    BY <1>10 DEF CastMembers, At, Casting
  <2>3. UNCHANGED <<redisVars, ownerToken, conn, rid, role, deleted, torn>> /\ UNCHANGED joined
    BY <1>10 DEF CastMembers, ReadsOnly, OnlyRedis, sockVars
  <2> HIDE DEF t
  <2> QED  BY <1>8, <2>1, <2>2, <2>3
<1>11. CASE CastReady(x)
  <2>1. task[x].pc \in Casting
    BY <1>11 DEF CastReady, At, Casting
  <2>2. CASE task[x].todo = {}
    BY <1>7, <1>11, <2>1, <2>2 DEF CastReady
  <2>3. CASE task[x].todo # {}
    <3> DEFINE t == [task[x] EXCEPT !.pc = "castInfo", !.ready = roomReady[task[x].room]]
    <3>1. /\ t.pc \in Casting /\ t.sock = task[x].sock /\ t.room = task[x].room
          /\ t.then = task[x].then
      BY <1>2 DEF TaskStates, Casting
    <3>2. Set(x, t) /\ UNCHANGED joined
      BY <1>11, <2>3 DEF CastReady
    <3> HIDE DEF t
    <3> QED  BY <1>8, <1>11, <2>1, <3>1, <3>2 DEF CastReady
  <2> QED  BY <2>2, <2>3
<1>12. CASE CastInfo(x)
  <2>1. task[x].pc \in Casting
    BY <1>12 DEF CastInfo, At, Casting
  <2>2. PICK m \in task[x].todo :
          LET t == Sorted(task[x], m) IN
          IF t.todo # {} THEN Set(x, t) /\ UNCHANGED <<view, joined>>
                         ELSE view' = Delivered(t) /\ CastDone(x)
    BY <1>12 DEF CastInfo
  <2> DEFINE t == Sorted(task[x], m)
  <2>3. /\ t.pc = task[x].pc /\ t.sock = task[x].sock /\ t.room = task[x].room
        /\ t.then = task[x].then
    BY <1>2 DEF TaskStates, Sorted
  <2>4. CASE t.todo # {}
    <3>1. Set(x, t) /\ UNCHANGED joined
      BY <2>2, <2>4
    <3> HIDE DEF t
    <3> QED  BY <1>8, <1>12, <2>1, <2>3, <3>1 DEF CastInfo
  <2>5. CASE t.todo = {}
    BY <1>7, <1>12, <2>1, <2>2, <2>5 DEF CastInfo
  <2> QED  BY <2>4, <2>5
<1> QED  BY <1>3, <1>4, <1>6, <1>9, <1>10, <1>11, <1>12 DEF Broadcast

LEMMA LossInfoStep ==
  ASSUME IInv, Invariants, NEW x \in Sockets, GoneInfo(x)
  PROVE  Invariants'
<1>1. Running(x) /\ task[x].pc = "goneInfo"
  BY DEF GoneInfo, At, Running
<1>2. /\ x \in Tasks /\ task[x] \in TaskStates /\ task[x].sock = x /\ task[x].then = "end"
      /\ ~conn[x] /\ ConnectionOK(x)
  BY <1>1, LossFacts
<1>3. socketInfo[x] \in {Null, InfoOf(x)}
  BY DEF Invariants, Order, Identity
<1>4. UNCHANGED <<redisVars, ownerToken, conn, rid, role, deleted, torn>>
  BY DEF GoneInfo
<1>5. /\ OthersStay(x) /\ UNCHANGED joined
      /\ Running(x)' => /\ LossOK(x)' /\ task'[x].pc = "goneReady" /\ Registered(x)
      /\ Registered(x) => Running(x)'
  <2>1. CASE socketInfo[x] = Null
    <3>1. task' = Finished(x) /\ LeaveRoom(x)
      BY <1>2, <2>1 DEF GoneInfo
    <3> QED  BY <1>2, <2>1, <3>1, EndMoves DEF LeaveRoom, Registered
  <2>2. CASE socketInfo[x] # Null
    <3> DEFINE t == [task[x] EXCEPT !.pc = "goneReady", !.room = socketInfo[x].roomId,
                                    !.arg = socketInfo[x].role]
    <3>1. Set(x, t) /\ UNCHANGED joined
      BY <1>2, <2>2 DEF GoneInfo
    <3>2. task' = [task EXCEPT ![x] = t]
      BY <3>1 DEF Set
    <3>3. t.pc = "goneReady" /\ t.room = Home /\ t.sock = x /\ t.then = "end"
      BY <1>2, <1>3, <2>2 DEF TaskStates, InfoOf
    <3> HIDE DEF t
    <3>4. OthersStay(x) /\ task'[x] = t
      BY <1>2, <3>2 DEF OthersStay, IInv, TasksOK
    <3> QED
      BY <1>2, <1>4, <2>2, <3>1, <3>3, <3>4 DEF LossOK, Going, Running, Registered
  <2> QED  BY <2>1, <2>2
<1>6. Quiet /\ roomConfig' = roomConfig
  BY <1>4, <1>5, ReadsAreQuiet
<1>7. /\ Registered(x)' <=> Registered(x)
      /\ Member(x)' <=> Member(x)
      /\ Ready(x)' <=> Ready(x)
      /\ \A u \in Sockets : Untouched(u)
  BY <1>6 DEF Quiet, Registered, Member, Ready, Untouched
<1>8. /\ Member(x) => Doomed \/ Registered(x)
      /\ Ready(x) => Doomed \/ x \in torn \/ Registered(x)
  BY <1>2 DEF ConnectionOK
<1> QED
  BY <1>1, <1>5, <1>6, <1>7, <1>8, LossStep DEF Quiet, Going

LEMMA LossGoneStep ==
  ASSUME IInv, Invariants, NEW x \in Sockets, GoneReady(x) \/ GoneMember(x) \/ GoneDelete(x)
  PROVE  Invariants'
<1>1. Running(x) /\ task[x].pc \in {"goneReady", "goneMember", "goneDelete"}
  BY DEF GoneReady, GoneMember, GoneDelete, At, Running
<1>2. /\ x \in Tasks /\ task[x] \in TaskStates /\ task[x].sock = x /\ task[x].then = "end"
      /\ ~conn[x] /\ ConnectionOK(x) /\ task[x].room = Home /\ Home \in Rooms
  BY <1>1, LossFacts
<1>3. OnlyRedis /\ UNCHANGED <<conn, joined, rid, role, ownerToken, deleted, torn>>
  BY DEF GoneReady, GoneMember, GoneDelete, OnlyRedis, sockVars
<1>4. RedisTypeOK
  BY DEF IInv
<1>5. CASE GoneReady(x)
  <2>1. task[x].pc = "goneReady" /\ Go(x, "goneMember")
    BY <1>5 DEF GoneReady, At
  <2>2. OthersStay(x) /\ KeepsAll(x) /\ task'[x].pc = "goneMember"
    BY <1>2, <2>1, GoMoves DEF Locations
  <2>3. /\ UNCHANGED <<roomConfig, roomOwner, roomState, spinLock, socketInfo, roomMembers>>
        /\ roomReady' = [roomReady EXCEPT ![Home] = @ \ {x}]
    BY <1>2, <1>5 DEF GoneReady, RemoveParticipantReady
  <2>4. /\ \A r \in Rooms : r # Home => roomReady'[r] = roomReady[r]
        /\ roomReady'[Home] = roomReady[Home] \ {x}
    BY <1>2, <1>4, <2>3 DEF RedisTypeOK
  <2>5. \A u \in Sockets : u # x => Untouched(u)
    BY <1>3, <2>3, <2>4 DEF Untouched
  <2>6. LossOK(x)'
    BY <1>2, <1>3, <2>2 DEF LossOK, KeepsAll, Keeps, Going
  <2>7. /\ Registered(x)' <=> Registered(x)
        /\ Member(x)' <=> Member(x)
        /\ ~Ready(x)'
    BY <2>3, <2>4 DEF Registered, Member, Ready
  <2>8. Member(x) => Doomed \/ Registered(x)
    BY <1>2 DEF ConnectionOK
  <2> QED
    BY <1>1, <1>3, <2>2, <2>3, <2>4, <2>5, <2>6, <2>7, <2>8, LossStep DEF Going
<1>6. CASE GoneMember(x)
  <2>1. task[x].pc = "goneMember" /\ Go(x, "goneDelete")
    BY <1>6 DEF GoneMember, At
  <2>2. OthersStay(x) /\ KeepsAll(x) /\ task'[x].pc = "goneDelete"
    BY <1>2, <2>1, GoMoves DEF Locations
  <2>3. /\ UNCHANGED <<roomConfig, roomOwner, roomState, spinLock, socketInfo, roomReady>>
        /\ roomMembers' = [roomMembers EXCEPT ![Home] = @ \ {x}]
    BY <1>2, <1>6 DEF GoneMember, RemoveRoomMember
  <2>4. /\ \A r \in Rooms : r # Home => roomMembers'[r] = roomMembers[r]
        /\ roomMembers'[Home] = roomMembers[Home] \ {x}
    BY <1>2, <1>4, <2>3 DEF RedisTypeOK
  <2>5. \A u \in Sockets : u # x => Untouched(u)
    BY <1>3, <2>3, <2>4 DEF Untouched
  <2>6. LossOK(x)'
    BY <1>2, <1>3, <2>2 DEF LossOK, KeepsAll, Keeps, Going
  <2>7. /\ Registered(x)' <=> Registered(x)
        /\ Ready(x)' <=> Ready(x)
        /\ ~Member(x)'
    BY <2>3, <2>4 DEF Registered, Member, Ready
  <2>8. Ready(x) => Doomed \/ x \in torn
    BY <1>2, <2>1 DEF ConnectionOK
  <2> QED
    BY <1>1, <1>3, <2>2, <2>3, <2>4, <2>5, <2>6, <2>7, <2>8, LossStep DEF Going
<1>7. CASE GoneDelete(x)
  <2>1. task[x].pc = "goneDelete"
    BY <1>7 DEF GoneDelete, At
  <2>2. OthersStay(x) /\ LossOK(x)'
    <3>1. CASE task[x].arg = "owner"
      <4>1. Go(x, "ttlMembers")
        BY <1>7, <3>1 DEF GoneDelete
      <4>2. OthersStay(x) /\ KeepsAll(x) /\ task'[x].pc = "ttlMembers"
        BY <1>2, <4>1, GoMoves DEF Locations
      <4> QED  BY <1>2, <1>3, <4>2 DEF LossOK, KeepsAll, Keeps, Touching
    <3>2. CASE task[x].arg # "owner"
      <4>1. Cast(x, Home, "end")
        BY <1>2, <1>7, <3>2 DEF GoneDelete
      <4> QED  BY <1>2, <1>3, <4>1, CastMoves DEF LossOK, Casting
    <3> QED  BY <3>1, <3>2
  <2>3. /\ UNCHANGED <<roomConfig, roomOwner, roomState, spinLock, roomMembers, roomReady>>
        /\ socketInfo' = [socketInfo EXCEPT ![x] = Null]
    BY <1>2, <1>7 DEF GoneDelete, RemoveSocketInfo
  <2>4. socketInfo'[x] = Null /\ \A u \in Sockets : u # x => socketInfo'[u] = socketInfo[u]
    BY <1>4, <2>3 DEF RedisTypeOK
  <2>5. \A u \in Sockets : u # x => Untouched(u)
    BY <1>3, <2>3, <2>4 DEF Untouched
  <2>6. /\ ~Registered(x)'
        /\ Ready(x)' <=> Ready(x)
        /\ Member(x)' <=> Member(x)
    BY <2>3, <2>4 DEF Registered, Member, Ready
  <2>7. (Ready(x) => Doomed \/ x \in torn) /\ (Member(x) => Doomed)
    BY <1>2, <2>1 DEF ConnectionOK
  <2> QED
    BY <1>1, <1>3, <2>2, <2>3, <2>4, <2>5, <2>6, <2>7, LossStep
<1> QED  BY <1>5, <1>6, <1>7

\* Every step of the handleDisconnect of a lost socket.
LEMMA LostRuns ==
  ASSUME IInv, Invariants, NEW x \in Sockets, Run(x)
  PROVE  Invariants'
<1>1. CASE PassThrough(x) \/ ReplyState(x) \/ Close(x) \/ Broadcast(x)
  BY <1>1, LossControlStep
<1>2. CASE Gone(x)
  BY <1>2, LossInfoStep, LossGoneStep DEF Gone
<1>3. ~Join(x)
  <2>1. Join(x) => Running(x) /\ task[x].pc \notin Going \cup Casting \cup Touching
    BY DEF Join, CheckToken, TakeOwnerRid, ActiveOwner, ActiveMembers, ActiveInfo, DropMember,
           DropInfo, EnsureOwner, RecordOwner, CheckRoom, AddMember, RecordInfo,
           EnsureConfig, At, Running, Going, Casting, Touching
  <2> QED  BY <2>1, LossFacts
<1>4. ~Leave(x) /\ ~Settings(x) /\ ~Delete(x)
  <2>1. Leave(x) \/ Settings(x) \/ Delete(x) =>
          Running(x) /\ task[x].pc \notin Going \cup Casting \cup Touching
    BY DEF Leave, LeaveInfo, LeaveMember, LeaveDelete, LeaveOwner, Settings, ToggleInfo,
           ToggleWrite, NickInfo, NickSet, ConfigOwner, ConfigSet, Delete, DelOwner,
           DelMembers, DelInfo, DelOwnInfo, DelRoom, At, Running, Going, Casting, Touching
  <2> QED  BY <2>1, LossFacts
<1> QED  BY <1>1, <1>2, <1>3, <1>4 DEF Run

(***************************************************************************)
(* A connection is lost: the handleDisconnect that starts has everything   *)
(* of the socket to take.                                                  *)
(***************************************************************************)
LEMMA LostSocketStep ==
  ASSUME Orderly, IInv, Invariants, NEW s \in Sockets, Drop(s)
  PROVE  Invariants'
<1>1. /\ conn[s] /\ UNCHANGED <<redisVars, ownerToken, rid, role, deleted>>
      /\ torn \subseteq torn'
      /\ \A c \in Calls : Running(c) /\ task[c].sock = s =>
           task[c].pc \in ToggleSteps /\ s \in torn'
  BY DEF Drop, Toggling
<1>2. /\ ~conn'[s] /\ joined'[s] = {}
      /\ \A u \in Sockets : u # s => conn'[u] = conn[u] /\ joined'[u] = joined[u]
  BY DEF Drop, IInv, SocketsOK
<1>3. /\ task'[s] = Disconnection(s)
      /\ \A y \in Tasks : y # s => task'[y] = task[y]
  BY CallsAreTasks DEF Drop, IInv, TasksOK
<1>4. \A c \in Calls : c # s /\ task'[c] = task[c] /\ Running(c)' = Running(c)
  BY <1>3, CallsAreTasks DEF Running
<1>5. Disconnection(s).pc = "goneInfo" /\ Disconnection(s).sock = s /\ Disconnection(s).then = "end"
  BY DEF Disconnection, NoTask
<1>6. (Doomed' <=> Doomed) /\ \A u \in Sockets : Busy(u)' <=> Busy(u)
  BY <1>4 DEF Doomed, Busy, Serves
<1>7. Settled(s)
  <2>1. CASE ~Busy(s)
    BY <1>1, <2>1 DEF Invariants, Registry, ConnectionOK
  <2>2. CASE Busy(s)
    <3>1. PICK c \in Calls : Running(c) /\ task[c].sock = s /\ task[c].pc \in ToggleSteps
      BY <1>1, <2>2 DEF Busy, Serves
    <3>2. RequestOK(c)
      BY <3>1 DEF Invariants, Registry
    <3> QED  BY <3>1, <3>2 DEF RequestOK, ToggleSteps, Casting
  <2> QED  BY <2>1, <2>2
<1>8. OnlyHome' /\ Identity'
  <2>1. OnlyHome'
    BY <1>1, <1>2 DEF Invariants, Order, OnlyHome, redisVars
  <2>2. Identity'
    BY <1>1 DEF Invariants, Order, Identity, Registered, redisVars
  <2> QED  BY <2>1, <2>2
<1>9. ASSUME NEW c \in Calls, Running(c) PROVE CallOK(c)'
  <2>1. CallOK(c) /\ task'[c] = task[c]
    BY <1>4, <1>9 DEF Invariants, Order, CallsOK
  <2>2. \A u \in Sockets : conn'[u] => conn[u]
    BY <1>2
  <2>3. task[c].pc \in {"dropMember", "dropInfo", "delInfo"} => task[c].found \in Sockets
    BY CallsAreTasks DEF IInv, TasksOK, WellFormed
  <2>4. CASE task[c].sock # s
    BY <1>1, <1>2, <2>1, <2>2, <2>3, <2>4 DEF CallOK
  <2>5. CASE task[c].sock = s
    <3>1. task[c].pc \in ToggleSteps /\ s \in torn'
      BY <1>1, <1>9, <2>5
    <3>2. task[c].then # "leave"
      BY <2>1, <3>1 DEF CallOK, ToggleSteps, Going, Casting
    <3> QED
      BY <1>1, <2>1, <2>5, <3>1, <3>2 DEF CallOK, Astray, ToggleSteps
  <2> QED  BY <2>4, <2>5
<1>10. InTurn'
  BY <1>4 DEF Invariants, Order, InTurn
<1>11. ASSUME NEW u \in Sockets, Running(u)' PROVE LossOK(u)'
  <2>1. CASE u = s
    BY <1>2, <1>3, <1>5, <2>1 DEF LossOK, Going
  <2>2. CASE u # s
    <3>1. task'[u] = task[u] /\ conn'[u] = conn[u]
      BY <1>2, <1>3, <2>2, CallsAreTasks
    <3> QED  BY <1>11, <3>1 DEF Invariants, Order, LossesOK, LossOK, Running
  <2> QED  BY <2>1, <2>2
<1>12. ASSUME NEW u \in Sockets
       PROVE  /\ Member(u)' <=> Member(u)
              /\ Ready(u)' <=> Ready(u)
              /\ Registered(u)' <=> Registered(u)
              /\ u # s => (Inside(u)' <=> Inside(u))
  BY <1>1, <1>2 DEF Member, Ready, Registered, Inside, redisVars
<1>13. ASSUME NEW u \in Sockets PROVE ConnectionOK(u)'
  <2>1. ConnectionOK(u)
    BY DEF Invariants, Registry
  <2>2. CASE u = s
    <3>1. Settled(s) /\ (Ready(s) => Member(s)) /\ (Ready(s) => s \notin OwnerSockets)
      BY <1>1, <1>7, <2>1, <2>2 DEF ConnectionOK
    <3>2. ~Inside(s)' /\ task'[s].pc = "goneInfo"
      BY <1>2, <1>3, <1>5 DEF Inside
    <3> QED  BY <1>1, <1>2, <1>12, <2>2, <3>1, <3>2 DEF ConnectionOK, Settled, Going
  <2>3. CASE u # s
    <3>1. task'[u] = task[u] /\ conn'[u] = conn[u]
      BY <1>2, <1>3, <2>3, CallsAreTasks
    <3>2. Settled(u)' <=> Settled(u)
      BY <1>12, <2>3, <3>1 DEF Settled
    <3> QED  BY <1>1, <1>6, <1>12, <2>1, <2>3, <3>1, <3>2 DEF ConnectionOK
  <2> QED  BY <2>2, <2>3
<1>14. ASSUME NEW c \in Calls, Running(c) PROVE RequestOK(c)'
  <2>1. RequestOK(c) /\ CallOK(c) /\ task'[c] = task[c] /\ task[c].sock \in Sockets
    BY <1>4, <1>14 DEF Invariants, Registry, Order, CallsOK, CallOK
  <2>2. CASE task[c].sock # s
    <3>1. /\ conn'[task[c].sock] = conn[task[c].sock]
          /\ Settled(task[c].sock)' <=> Settled(task[c].sock)
      BY <1>2, <1>12, <2>1, <2>2 DEF Settled
    <3> QED  BY <1>12, <2>1, <2>2, <3>1 DEF RequestOK
  <2>3. CASE task[c].sock = s
    <3>1. task[c].pc \in ToggleSteps /\ ~conn'[task'[c].sock]
      BY <1>1, <1>2, <1>14, <2>1, <2>3
    <3> QED  BY <2>1, <3>1 DEF RequestOK, Settled, ToggleSteps, Casting, Asking, Replacing
  <2> QED  BY <2>2, <2>3
<1>15. Ownership'
  <2>1. OwnerMembers' = OwnerMembers /\ roomOwner' = roomOwner
    BY <1>1 DEF OwnerMembers, redisVars
  <2>2. ASSUME NEW c \in Calls, Running(c) PROVE OwnerOK(c)'
    <3>1. OwnerOK(c) /\ task'[c] = task[c]
      BY <1>4, <2>2 DEF Invariants, Ownership
    <3> QED  BY <2>1, <3>1 DEF OwnerOK
  <2> QED  BY <1>4, <2>1, <2>2 DEF Invariants, Ownership
<1>16. Deletions'
  <2>1. \A k : KeysGone(k) => KeysGone(k)'
    BY <1>1 DEF KeysGone, redisVars
  <2>2. ASSUME NEW c \in Calls, Running(c) PROVE DeletionOK(c)'
    <3>1. DeletionOK(c) /\ task'[c] = task[c]
      BY <1>4, <2>2 DEF Invariants, Deletions
    <3>2. \A u \in Sockets : conn'[u] /\ Member(u)' => conn[u] /\ Member(u)
      BY <1>2, <1>12
    <3> QED  BY <1>1, <3>1, <3>2 DEF DeletionOK, KeysGone, redisVars
  <2>3. Home \in deleted' => KeysGone(7)'
    BY <1>1, <2>1 DEF Invariants, Deletions
  <2>4. ASSUME NEW c \in Calls, Running(c)
        PROVE  Registered(task[c].sock)' => Registered(task[c].sock)
    BY <1>1, <1>4, <2>4 DEF Registered, redisVars
  <2> QED  BY <1>1, <1>4, <2>2, <2>3, <2>4 DEF Invariants, Deletions
<1> QED
  BY <1>4, <1>8, <1>9, <1>10, <1>11, <1>13, <1>14, <1>15, <1>16
     DEF Invariants, Order, CallsOK, LossesOK, Registry

(***************************************************************************)
(* A request arrives: its handler starts from a settled registry.          *)
(***************************************************************************)
LEMMA FirstAwaits ==
  ASSUME Orderly, Invariants, NEW q \in Inputs
  PROVE  /\ q.sock \in Sockets /\ q.room = Home
         /\ q.kind = "join" => q.arg = SeatedRole(q.sock)
         /\ FirstAwait(q) \in {"joinToken", "joinConfig", "leaveInfo", "toggleInfo", "nickInfo",
                               "configOwner", "delOwner", "done"}
         /\ FirstAwait(q) = "joinToken" => q.kind = "join" /\ q.sock \in OwnerSockets
         /\ FirstAwait(q) = "joinConfig" => q.kind = "join" /\ q.sock \notin OwnerSockets
         /\ FirstAwait(q) = "leaveInfo" => q.kind = "leave" /\ role[q.sock] = SeatedRole(q.sock)
         /\ FirstAwait(q) = "delOwner" => q.kind = "delete"
<1>1. /\ q.sock \in Sockets /\ q.room = Home /\ q.kind \in Kinds
      /\ q.kind = "join" => q.arg = SeatedRole(q.sock)
  BY RoomAssumption, OrderlyAssumption DEF InputData
<1>2. role[q.sock] \in {SeatedRole(q.sock), "none"}
  BY <1>1 DEF Invariants, Order, Identity
<1> QED  BY <1>1, <1>2 DEF FirstAwait, Kinds, SeatedRole

LEMMA ArriveStep ==
  ASSUME Orderly, IInv, Invariants, NEW c \in Calls, Arrive(c)
  PROVE  Invariants'
<1>1. PICK q \in Inputs :
        /\ conn[q.sock] /\ InOrder(q)
        /\ Set(c, IF FirstAwait(q) = "done" THEN Ended ELSE
                    [NoTask EXCEPT !.pc = FirstAwait(q), !.sock = q.sock,
                       !.room = q.room, !.rid = rid[q.sock],
                       !.arg = IF q.kind = "leave" THEN role[q.sock] ELSE q.arg])
  BY DEF Arrive
<1>2. ~Running(c) /\ task[c].pc = "idle"
  BY DEF Arrive, At, Running
<1>3. UNCHANGED <<redisVars, ownerToken, sockVars, deleted, torn>>
  BY DEF Arrive, ReadsOnly, OnlyRedis
<1>4. /\ UNCHANGED <<roomConfig, roomOwner, roomMembers, roomReady, socketInfo, roomState,
                     spinLock>>
      /\ UNCHANGED <<ownerToken, conn, rid, role, joined, deleted, torn>>
  BY <1>3 DEF redisVars, sockVars
<1> DEFINE l == FirstAwait(q)
           s == q.sock
           a == IF q.kind = "leave" THEN role[q.sock] ELSE q.arg
           t == [NoTask EXCEPT !.pc = l, !.sock = s, !.room = q.room, !.rid = rid[s], !.arg = a]
<1>5. task'[c] = (IF l = "done" THEN Ended ELSE t) /\ \A y \in Tasks : y # c => task'[y] = task[y]
  BY <1>1, CallsAreTasks DEF Set, IInv, TasksOK
<1>6. /\ l # "done" => /\ task'[c].pc = l /\ task'[c].sock = s /\ task'[c].room = q.room
                       /\ task'[c].rid = rid[s] /\ task'[c].arg = a
                       /\ task'[c].found = Null /\ task'[c].then = "end"
                       /\ task'[c].next = 1
      /\ l = "done" => ~Running(c)'
  BY <1>5 DEF NoTask, Ended, Running
<1>7. /\ s \in Sockets /\ q.room = Home
      /\ l \in {"joinToken", "joinConfig", "leaveInfo", "toggleInfo", "nickInfo",
                "configOwner", "delOwner", "done"}
      /\ l = "joinToken" => q.kind = "join" /\ s \in OwnerSockets
      /\ l = "joinConfig" => q.kind = "join" /\ s \notin OwnerSockets
      /\ l \in {"joinToken", "joinConfig", "leaveInfo"} => a = SeatedRole(s)
      /\ l = "delOwner" => q.kind = "delete"
  BY FirstAwaits
<1> HIDE DEF l, s, a, t
<1>8. Running(c)' <=> l # "done"
  BY <1>6, <1>7 DEF Running
<1>9. \A d \in Calls : d # c => task'[d] = task[d] /\ Running(d)' = Running(d)
  BY <1>5, CallsAreTasks DEF Running
<1>10. ASSUME NEW d \in Calls, Running(d)
       PROVE  /\ d # c /\ ~SamePerson(task[d].sock, s)
              /\ l # "delOwner" /\ task[d].pc \notin Deletion
  BY <1>1, <1>2, <1>7, <1>10 DEF InOrder, s
<1>11. ~Busy(s) /\ conn[s] /\ ConnectionOK(s)
  BY <1>1, <1>7, <1>10 DEF Busy, Serves, SamePerson, Invariants, Registry, s
<1>12. Settled(s) /\ (l = "joinToken" => ~Inside(s))
  <2>1. Settled(s)
    BY <1>11 DEF ConnectionOK
  <2>2. q.kind = "join" /\ s \in OwnerSockets => joined[s] = {}
    BY <1>1, FirstAwaits DEF InOrder, SeatedRole, s
  <2> QED  BY <1>7, <2>1, <2>2 DEF Inside
<1>13. /\ Doomed' <=> Doomed
       /\ \A u \in Sockets : Busy(u) => Busy(u)'
  <2>1. task'[c].pc \notin {"delInfo", "delOwnInfo", "delRoom"}
    BY <1>5, <1>6, <1>7 DEF Ended, NoTask
  <2>2. Doomed' <=> Doomed
    BY <1>2, <1>9, <2>1 DEF Doomed
  <2>3. ASSUME NEW u \in Sockets, NEW d \in Calls, Serves(d, u) PROVE Serves(d, u)'
    BY <1>2, <1>9, <2>3 DEF Serves
  <2> QED  BY <2>2, <2>3 DEF Busy
<1>14. OnlyHome' /\ Identity'
  <2>1. OnlyHome'
    BY <1>4 DEF Invariants, Order, OnlyHome
  <2>2. Identity'
    BY <1>4 DEF Invariants, Order, Identity, Registered
  <2> QED  BY <2>1, <2>2
<1>15. ASSUME NEW d \in Calls, Running(d)' PROVE CallOK(d)'
  <2>1. CASE d = c
    <3>1. rid[s] \in {RidOf(s), s}
      BY <1>7 DEF Invariants, Order, Identity
    <3>2. l = "joinConfig" => rid[s] = RidOf(s)
      BY <1>7, <3>1 DEF RidOf
    <3> QED
      BY <1>4, <1>6, <1>7, <1>8, <1>11, <1>15, <2>1, <3>1, <3>2
         DEF CallOK, Asking, Replacing, Exiting, Deleting, Going, Casting
  <2>2. CASE d # c
    <3>1. CallOK(d) /\ task'[d] = task[d]
      BY <1>9, <1>15, <2>2 DEF Invariants, Order, CallsOK
    <3> QED  BY <1>4, <3>1 DEF CallOK
  <2> QED  BY <2>1, <2>2
<1>16. InTurn'
  <2> SUFFICES ASSUME NEW d \in Calls, NEW e \in Calls, Running(d)', Running(e)', d # e
               PROVE  /\ ~SamePerson(task'[d].sock, task'[e].sock)
                      /\ task'[d].pc \notin Deletion
    BY DEF InTurn
  <2>1. CASE d # c /\ e # c
    BY <1>9, <2>1 DEF Invariants, Order, InTurn
  <2>2. CASE d = c
    <3>1. Running(e) /\ ~SamePerson(task[e].sock, s) /\ l # "delOwner" /\ task'[e] = task[e]
      BY <1>9, <1>10, <2>2
    <3> QED  BY <1>6, <1>7, <1>8, <2>2, <3>1 DEF SamePerson, Deletion
  <2>3. CASE e = c
    <3>1. Running(d) /\ ~SamePerson(task[d].sock, s) /\ task[d].pc \notin Deletion
          /\ task'[d] = task[d]
      BY <1>9, <1>10, <2>3
    <3> QED  BY <1>6, <1>8, <2>3, <3>1
  <2> QED  BY <2>1, <2>2, <2>3
<1>17. \A u \in Sockets : task'[u] = task[u]
  BY <1>5, CallsAreTasks
<1>18. LossesOK'
  BY <1>4, <1>17 DEF Invariants, Order, LossesOK, LossOK, Running
<1>19. ASSUME NEW u \in Sockets
       PROVE  /\ Member(u)' <=> Member(u)
              /\ Ready(u)' <=> Ready(u)
              /\ Registered(u)' <=> Registered(u)
              /\ Inside(u)' <=> Inside(u)
              /\ Settled(u)' <=> Settled(u)
  BY <1>4 DEF Member, Ready, Registered, Inside, Settled
<1>20. ASSUME NEW u \in Sockets PROVE ConnectionOK(u)'
  <2>1. ConnectionOK(u) /\ task'[u] = task[u] /\ conn'[u] = conn[u]
    BY <1>4, <1>17 DEF Invariants, Registry
  <2> QED  BY <1>4, <1>13, <1>19, <2>1 DEF ConnectionOK
<1>21. ASSUME NEW d \in Calls, Running(d)' PROVE RequestOK(d)'
  <2>1. CASE d = c
    <3>1. Settled(s)' /\ (l = "joinToken" => ~Inside(s)' /\ ~Member(s)' /\ ~Registered(s)')
      BY <1>7, <1>11, <1>12, <1>19 DEF Settled
    <3> QED
      BY <1>6, <1>7, <1>8, <1>21, <2>1, <3>1 DEF RequestOK, Asking, Replacing, Casting
  <2>2. CASE d # c
    <3>1. RequestOK(d) /\ task'[d] = task[d] /\ task[d].sock \in Sockets
      BY <1>9, <1>21, <2>2 DEF Invariants, Registry, Order, CallsOK, CallOK
    <3> QED  BY <1>4, <1>19, <3>1 DEF RequestOK
  <2> QED  BY <2>1, <2>2
<1>22. Ownership'
  <2>1. OwnerMembers' = OwnerMembers /\ roomOwner' = roomOwner
    BY <1>4 DEF OwnerMembers
  <2>2. ASSUME NEW d \in Calls, Running(d)' PROVE OwnerOK(d)'
    <3>1. CASE d = c
      BY <1>6, <1>7, <1>8, <2>2, <3>1 DEF OwnerOK
    <3>2. CASE d # c
      <4>1. OwnerOK(d) /\ task'[d] = task[d]
        BY <1>9, <2>2, <3>2 DEF Invariants, Ownership
      <4> QED  BY <2>1, <4>1 DEF OwnerOK
    <3> QED  BY <3>1, <3>2
  <2>3. ASSUME NEW d \in Calls, task[d].pc = "delRoom" PROVE task'[d].pc = "delRoom"
    BY <1>2, <1>9, <2>3
  <2> QED  BY <2>1, <2>2, <2>3 DEF Invariants, Ownership
<1>23. Deletions'
  <2>1. \A k : KeysGone(k) <=> KeysGone(k)'
    BY <1>4 DEF KeysGone
  <2>2. ASSUME NEW d \in Calls, Running(d)'
        PROVE  /\ DeletionOK(d)' /\ (task'[d].next = 1 \/ task'[d].pc = "delRoom")
               /\ Home \in deleted =>
                    /\ task'[d].pc \in Harmless
                    /\ task'[d].pc = "toggleInfo" => ~Registered(task[d].sock)'
    <3>1. CASE d = c
      <4>1. Home \in deleted => ~Registered(s)'
        <5>1. Home \in deleted => ~Member(s)
          BY DEF Invariants, Deletions, KeysGone, Member
        <5> QED  BY <1>7, <1>11, <1>12, <1>19, <5>1 DEF Settled
      <4> QED  BY <1>6, <1>7, <1>8, <2>2, <3>1, <4>1 DEF DeletionOK, Harmless
    <3>2. CASE d # c
      <4>1. /\ DeletionOK(d) /\ (task[d].next = 1 \/ task[d].pc = "delRoom")
            /\ Home \in deleted =>
                 /\ task[d].pc \in Harmless
                 /\ task[d].pc = "toggleInfo" => ~Registered(task[d].sock)
            /\ task'[d] = task[d]
        BY <1>9, <2>2, <3>2 DEF Invariants, Deletions
      <4> QED  BY <1>4, <4>1 DEF DeletionOK, KeysGone, Member, Registered
    <3> QED  BY <3>1, <3>2
  <2> QED  BY <1>4, <2>1, <2>2 DEF Invariants, Deletions
<1> QED
  BY <1>14, <1>15, <1>16, <1>18, <1>20, <1>21, <1>22, <1>23
     DEF Invariants, Order, CallsOK, Registry
-----------------------------------------------------------------------------
(***************************************************************************)
(* The invariant and what it says once no handler runs.                    *)
(***************************************************************************)
LEMMA InitIsConsistent ==
  ASSUME Orderly, Init
  PROVE  RegistryInv
<1>1. IInv
  BY InitKeeps
<1>2. /\ Home \in Rooms /\ Null # Home /\ Seated \subseteq Sockets /\ OwnerSockets \subseteq Sockets
      /\ \A s, u \in Seated \cap OwnerSockets : s = u
  BY RoomAssumption, OrderlyAssumption
<1>3. \A x \in Tasks : ~Running(x) /\ task[x].pc = "idle"
  BY DEF Init, NoTask, Running
<1>4. /\ \A c \in Calls : ~Running(c) /\ task[c].pc = "idle"
      /\ \A s \in Sockets : ~Running(s)
  BY <1>3, CallsAreTasks
<1>5. ASSUME NEW s \in Sockets
      PROVE  /\ Member(s) <=> s \in Seated
             /\ Inside(s) <=> s \in Seated
             /\ Registered(s) <=> s \in Seated
             /\ Ready(s) => s \in Seated \ OwnerSockets
             /\ socketInfo[s] \in {Null, InfoOf(s)}
             /\ rid[s] \in {RidOf(s), s}
             /\ Registered(s) => rid[s] = RidOf(s)
             /\ role[s] \in {SeatedRole(s), "none"}
             /\ joined[s] \subseteq {Home}
             /\ conn[s]
  <2>1. rid[s] = IF s \in Seated \cap OwnerSockets THEN Home ELSE s
    BY DEF Init
  <2>2. s \in Seated => rid[s] = RidOf(s) /\ socketInfo[s] = InfoOf(s)
    BY <2>1 DEF Init, RidOf, InfoOf
  <2>3. socketInfo[s] # Null <=> s \in Seated
    BY <2>2, <1>1, NullInfoAssumption, RoomAssumption, RolesAssumption
       DEF Init, InfoOf, SocketInfos, RidOf, SeatedRole
  <2>4. roomReady[Home] \subseteq Seated \ OwnerSockets
    BY <1>2 DEF Init
  <2> QED
    BY <1>2, <2>1, <2>2, <2>3, <2>4
       DEF Init, Member, Inside, Registered, Ready, RidOf
<1>6. OnlyHome
  BY <1>2, <1>5 DEF OnlyHome, Init
<1>7. Identity
  BY <1>5 DEF Identity
<1>8. CallsOK /\ InTurn /\ LossesOK
  BY <1>4 DEF CallsOK, InTurn, LossesOK
<1>9. Registry
  BY <1>4, <1>5 DEF Registry, ConnectionOK, Settled
<1>10. Ownership
  <2>1. OwnerMembers = Seated \cap OwnerSockets
    BY <1>2 DEF OwnerMembers, Init
  <2>2. roomOwner[Home] = Home
    BY <1>2 DEF Init
  <2> QED  BY <1>2, <1>4, <2>1, <2>2 DEF Ownership, AtMostOne
<1>11. Deletions
  BY <1>4 DEF Deletions, Init
<1> QED
  BY <1>1, <1>6, <1>7, <1>8, <1>9, <1>10, <1>11 DEF RegistryInv, Order

LEMMA StutterIsConsistent ==
  ASSUME RegistryInv, UNCHANGED vars
  PROVE  RegistryInv'
<1>1. IInv'
  BY StutterKeeps DEF RegistryInv
<1>2. /\ UNCHANGED <<roomConfig, roomOwner, roomMembers, roomReady, socketInfo, roomState,
                     spinLock>>
      /\ UNCHANGED <<ownerToken, conn, rid, role, joined, deleted, torn, task>>
  BY DEF vars, redisVars, sockVars
<1>3. Order'
  BY <1>2
     DEF RegistryInv, Order, OnlyHome, Identity, Registered, CallsOK, CallOK, InTurn,
         LossesOK, LossOK, Running
<1>4. Registry'
  BY <1>2
     DEF RegistryInv, Registry, ConnectionOK, RequestOK, Settled, Member, Inside, Registered,
         Ready, Busy, Serves, Doomed, Running
<1>5. Ownership'
  BY <1>2 DEF RegistryInv, Ownership, OwnerOK, OwnerMembers, AtMostOne, Running
<1>6. Deletions'
  BY <1>2 DEF RegistryInv, Deletions, DeletionOK, KeysGone, Member, Registered, Running
<1> QED  BY <1>1, <1>3, <1>4, <1>5, <1>6 DEF RegistryInv

LEMMA StepIsConsistent ==
  ASSUME Orderly, OneProcess, RegistryInv, [Next]_vars
  PROVE  RegistryInv'
<1>1. CASE UNCHANGED vars
  BY <1>1, StutterIsConsistent
<1>2. CASE Next
  <2>1. IInv'
    BY <1>2, StepKeeps, CommandsAreTyped DEF RegistryInv, Kept, IInv
  <2>2. IInv /\ Invariants
    BY DEF RegistryInv, Invariants
  <2>3. Invariants'
    <3>1. ASSUME NEW c \in Calls, Arrive(c) PROVE Invariants'
      BY <2>2, <3>1, ArriveStep
    <3>2. ASSUME NEW s \in Sockets, Drop(s) PROVE Invariants'
      BY <2>2, <3>2, LostSocketStep
    <3>3. ASSUME NEW x \in Tasks, Run(x) PROVE Invariants'
      BY <2>2, <3>3, RequestRuns, LostRuns DEF Tasks
    <3> QED  BY <1>2, <3>1, <3>2, <3>3 DEF Next
  <2> QED  BY <2>1, <2>3 DEF RegistryInv, Invariants
<1> QED  BY <1>1, <1>2

\* The inductive invariant: with orderly clients in one server process, every
\* state of the room handlers satisfies RegistryInv, which says of each step at
\* which a handler can stand what is missing or left over of its socket.
THEOREM RoomsAreConsistent ==
  ASSUME Orderly, OneProcess
  PROVE  Spec => []RegistryInv
<1>1. Init => RegistryInv
  BY InitIsConsistent
<1>2. RegistryInv /\ [Next]_vars => RegistryInv'
  BY StepIsConsistent
<1> QED  BY <1>1, <1>2, PTL DEF Spec

\* Between the handlers nothing is on its way.
LEMMA QuietRegistry ==
  ASSUME RegistryInv, Quiescent, NEW s \in Sockets
  PROVE  /\ (Member(s) <=> Inside(s)) /\ (Member(s) <=> Registered(s))
         /\ s \notin Rooms \cup {Null} /\ Home \in Rooms /\ Home # Null
         /\ ~conn[s] => ~Member(s)
         /\ Ready(s) => (Member(s) \/ s \in torn) /\ s \notin OwnerSockets
         /\ socketInfo[s] \in {Null, InfoOf(s)} /\ joined[s] \subseteq {Home}
         /\ Registered(s) => rid[s] = RidOf(s)
<1>1. \A x \in Tasks : task[x].pc \in {"idle", "done"}
  BY DEF Quiescent, Running
<1>2. ~Busy(s) /\ ~Doomed
  BY <1>1, CallsAreTasks DEF Busy, Doomed, Serves, Running
<1>3. task[s].pc \notin Going
  BY <1>1, CallsAreTasks DEF Going
<1>4. ConnectionOK(s)
  BY DEF RegistryInv, Registry
<1>5. /\ socketInfo[s] \in {Null, InfoOf(s)} /\ joined[s] \subseteq {Home}
      /\ Registered(s) => rid[s] = RidOf(s)
  BY DEF RegistryInv, Order, Identity, OnlyHome
<1>6. conn[s] => Settled(s) /\ (Ready(s) => Member(s))
  BY <1>2, <1>4 DEF ConnectionOK
<1>7. ~conn[s] => ~Inside(s) /\ ~Registered(s) /\ ~Member(s) /\ (Ready(s) => s \in torn)
  BY <1>2, <1>3, <1>4 DEF ConnectionOK
<1>8. Ready(s) => s \notin OwnerSockets
  BY <1>4 DEF ConnectionOK
<1> QED  BY <1>5, <1>6, <1>7, <1>8, RoomAssumption DEF Settled

\* When no handler runs, the members of every room are the sockets in its
\* socket.io room, and exactly they have a socket info naming it.
THEOREM RegistryMatches ==
  ASSUME Orderly, OneProcess
  PROVE  Spec => []RegistryMatchesConnections
<1>1. RegistryInv => RegistryMatchesConnections
  <2> SUFFICES ASSUME RegistryInv, Quiescent, NEW s \in Sockets, NEW r \in Rooms
               PROVE  /\ (s \in roomMembers[r]) = (r \in joined[s])
                      /\ (s \in roomMembers[r]) = (socketInfo[s] # Null /\ socketInfo[s].roomId = r)
    BY DEF RegistryMatchesConnections
  <2>1. /\ (Member(s) <=> Inside(s)) /\ (Member(s) <=> Registered(s))
        /\ socketInfo[s] \in {Null, InfoOf(s)} /\ joined[s] \subseteq {Home}
    BY QuietRegistry
  <2>2. CASE r = Home
    BY <2>1, <2>2 DEF Member, Inside, Registered, InfoOf
  <2>3. CASE r # Home
    <3>1. roomMembers[r] = {}
      BY <2>3 DEF RegistryInv, Order, OnlyHome
    <3> QED  BY <2>1, <2>3, <3>1 DEF InfoOf
  <2> QED  BY <2>2, <2>3
<1> QED  BY <1>1, RoomsAreConsistent, PTL

\* When no handler runs, whoever is marked ready takes part in the room, or has
\* lost its connection before a toggle of its own had written.
THEOREM ReadyMarksAreParticipants ==
  ASSUME Orderly, OneProcess
  PROVE  Spec => []ReadyAreParticipants
<1>1. RegistryInv => ReadyAreParticipants
  <2> SUFFICES ASSUME RegistryInv, Quiescent, NEW r \in Rooms, NEW s \in roomReady[r]
               PROVE  s \in Listed(r) \cup torn
    BY DEF ReadyAreParticipants
  <2>1. s \in Sockets
    BY DEF RegistryInv, IInv, RedisTypeOK
  <2>2. r = Home
    BY DEF RegistryInv, Order, OnlyHome
  <2>3. Ready(s)
    BY <2>2 DEF Ready
  <2>0. CASE s \in torn
    BY <2>0
  <2> SUFFICES ASSUME s \notin torn PROVE s \in Listed(r)
    BY <2>0
  <2>4. /\ Member(s) /\ Registered(s) /\ s \notin OwnerSockets
        /\ socketInfo[s] = InfoOf(s) /\ s \notin Rooms \cup {Null} /\ Home \in Rooms
    BY <2>1, <2>3, QuietRegistry DEF Registered
  <2>5. socketInfo[s].role = "participant" /\ socketInfo[s].rid = s
    BY <2>4 DEF InfoOf, SeatedRole, RidOf
  <2>6. roomOwner[Home] \in {Null, Home}
    BY DEF RegistryInv, Order, OnlyHome
  <2> QED  BY <2>2, <2>4, <2>5, <2>6 DEF Listed, Member, Registered
<1> QED  BY <1>1, RoomsAreConsistent, PTL

LEMMA OwnersAreMembers ==
  ASSUME RegistryInv, Quiescent, NEW r \in Rooms, NEW s \in Sockets, Owns(s, r)
  PROVE  r = Home /\ s \in OwnerMembers /\ rid[s] = Home
<1>1. /\ Registered(s) /\ socketInfo[s].roomId = r /\ socketInfo[s].role = "owner"
  BY DEF Owns, Registered
<1>2. /\ socketInfo[s] = InfoOf(s) /\ Member(s) /\ rid[s] = RidOf(s)
  BY <1>1, QuietRegistry DEF Registered
<1>3. r = Home /\ s \in OwnerSockets
  BY <1>1, <1>2 DEF InfoOf, SeatedRole
<1> QED  BY <1>2, <1>3 DEF OwnerMembers, Member, RidOf

\* When no handler runs, a room has at most one connected owner.
THEOREM RoomHasOneOwner ==
  ASSUME Orderly, OneProcess
  PROVE  Spec => []OneOwner
<1>1. RegistryInv => OneOwner
  <2> SUFFICES ASSUME RegistryInv, Quiescent, NEW r \in Rooms, NEW s \in Sockets,
                      NEW u \in Sockets, Owns(s, r), Owns(u, r)
               PROVE  s = u
    BY DEF OneOwner
  <2>1. s \in OwnerMembers /\ u \in OwnerMembers
    BY OwnersAreMembers
  <2> QED  BY <2>1 DEF RegistryInv, Ownership, AtMostOne
<1> QED  BY <1>1, RoomsAreConsistent, PTL

\* When no handler runs, the connected owner is the owner Redis has on record.
THEOREM RoomOwnerIsRecorded ==
  ASSUME Orderly, OneProcess
  PROVE  Spec => []OwnerIsRecorded
<1>1. RegistryInv => OwnerIsRecorded
  <2> SUFFICES ASSUME RegistryInv, Quiescent, NEW r \in Rooms, NEW s \in Sockets, Owns(s, r)
               PROVE  roomOwner[r] = rid[s]
    BY DEF OwnerIsRecorded
  <2>1. r = Home /\ s \in OwnerMembers /\ rid[s] = Home
    BY OwnersAreMembers
  <2>2. \A c \in Calls : task[c].pc # "delRoom"
    BY CallsAreTasks DEF Quiescent, Running
  <2>3. roomOwner[Home] # Null
    BY <2>1, <2>2 DEF RegistryInv, Ownership
  <2> QED  BY <2>1, <2>3 DEF RegistryInv, Order, OnlyHome
<1> QED  BY <1>1, RoomsAreConsistent, PTL

\* When no handler runs, a room that has been deleted has no key, no member, no
\* socket info and no socket in its socket.io room, also when connections were
\* lost while it was deleted.  No other request runs when a deletion begins.
THEOREM DeletionsAreComplete ==
  ASSUME Orderly, OneProcess
  PROVE  Spec => []DeletedRoomIsGone
<1>1. RegistryInv => DeletedRoomIsGone
  <2> SUFFICES ASSUME RegistryInv, Quiescent, NEW r \in deleted
               PROVE  /\ roomConfig[r] = Null /\ roomOwner[r] = Null /\ ~ownerToken[r]
                      /\ roomMembers[r] = {} /\ roomReady[r] = {}
                      /\ roomState[r] = Null /\ spinLock[r] = Null
                      /\ \A s \in Sockets : /\ r \notin joined[s]
                                             /\ socketInfo[s] # Null => socketInfo[s].roomId # r
    BY DEF DeletedRoomIsGone
  <2>1. r = Home /\ Home \in Rooms
    BY RoomAssumption DEF RegistryInv, Order, OnlyHome
  <2>2. KeysGone(7)
    BY <2>1 DEF RegistryInv, Deletions
  <2>3. /\ roomConfig[r] = Null /\ roomOwner[r] = Null /\ ~ownerToken[r]
        /\ roomMembers[r] = {} /\ roomReady[r] = {}
    BY <2>1, <2>2 DEF KeysGone
  <2>4. roomState[r] = Null /\ spinLock[r] = Null
    BY <2>1 DEF RegistryInv, Order, OnlyHome
  <2>5. ASSUME NEW s \in Sockets PROVE ~Inside(s) /\ ~Registered(s)
    BY <2>1, <2>3, QuietRegistry DEF Member
  <2> QED  BY <2>1, <2>3, <2>4, <2>5 DEF Inside, Registered
<1> QED  BY <1>1, RoomsAreConsistent, PTL
=============================================================================
