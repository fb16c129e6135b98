# Formal models of roulette-together-be

TLA+ models of the server in `src/`: a NestJS application in which users join
rooms over Socket.IO, mark themselves ready, and the owner of a room spins a
roulette. All shared state is in Redis; several server instances may share it.
The models are checked with TLC and, where a theorem is stated, proved with
TLAPS.

## The system

| Component | Source | State | Operations |
|---|---|---|---|
| RedisService | `src/src/common/redis/redis.service.ts` | Redis keys: `room:config`, `room:owner`, `room:owner:token`, `room:members`, `room:ready`, `room:state`, `room:socket:{socket}`, `lock:spin`, `idem:spin`, and keys that are only shown (title, initial nickname, counter, last activity); a TTL on each, except on the two sets | one method per read or write; `acquireSpinLock` (SET NX PX), `releaseSpinLock` (compare-and-delete script), `deleteRoom` and `extendRoomTTL` (pipelines), `getSocketInfoBatch`, `getRoomOwnerTokenBatch`, `getRoomConfigBatch` (pipelines of GETs) |
| RouletteService, spin | `src/src/modules/roulette/roulette.service.ts:411-605` | local variables of each call | `handleSpinRequest` |
| RouletteService, rooms | same file, the rest | `socket.data` (rid, role), socket.io rooms | `handleRoomJoin`, `handleRoomLeave`, `handleDisconnect`, `handleReadyToggle`, `handleNicknameChange`, `handleRoomConfigSet`, `handleRoomDelete`, `broadcastParticipantsToOwner` |
| RouletteGateway | `roulette.gateway.ts` | the connections of this process | `handleConnection` draws a rid; one subscription per message; `afterInit` installs the Redis adapter |
| RouletteController | `roulette.controller.ts` | the owner's cookies, kept by the client | `createRoom` (six writes), `getRooms` (two decisive pipelines) |
| selectRandom, cookie parsing | `roulette.utils.ts` | none | Fisher-Yates shuffle; parsing |
| WsThrottlerGuard | `common/guards/ws-throttler.guard.ts` | a list of timestamps per socket | `canActivate`, `cleanup` |
| filters, exceptions, DTOs, health, metrics, logging, configuration | `common/`, `utils/`, `main.ts` | counters nobody reads | stateless mapping, framework wiring |

The components meet in Redis and in the socket.io rooms. A handler is an
`async` function: between two of its awaits any other handler, of this process
or of another one behind the same Redis, may run. Nothing but the spin lock
serialises them. That is where the hard behaviour is:

- a spin whose 10 s lock expires under it, whose process dies, or whose command
  is executed although its reply is lost;
- reads that belong to different moments (members, ready set, infos; tokens and
  configs in `getRooms`);
- `handleDisconnect` and `handleRoomDelete` overlapping with handlers that have
  passed their checks and are about to write;
- a connection that is cleaned up by several handlers at the same time;
- lists sent to the owner by overlapping handlers;
- lookups of sockets that only see this process;
- keys of one room whose TTLs start, end and are shortened at different times;
- boundaries: of the throttler's window, of the shuffle's loop.

`PROJECT.json` lists each hazard at its line, with the properties about it.

What makes each component correct: a spin excludes other spins of the room,
misses nobody who was in the room and starts past nobody who was not ready,
is not repeated for a retried request, and leaves neither a held lock nor an
unanswered request. The registry (members, infos, ready marks, owner) agrees
with who is connected once the handlers have ended; the owner's list agrees
with the registry; a deleted room leaves nothing. No key that a present socket
needs expires before the owner's token, the owner has half an hour, or as long as
the cookie lasts, to come back, and what is abandoned vanishes. The throttler lets no more through than its
limit and rejects nothing else. Every set of winners is equally likely.

## Modules

| Module | Models | Composition |
|---|---|---|
| `RedisService` | one variable per key family, one operator per writing method. A write says what happens to its family and frames the others. `RoomCommand` and `RoomDeletion` are the single writes of the room handlers | extended by the handlers |
| `Spin` | `handleSpinRequest`: an action per Redis command with the continuation up to the next await; faults; the commands of other handlers; key expiry | EXTENDS `RedisService`; INSTANCEs `SpinContract` |
| `SpinContract` | the abstract specification: spins of a room take turns, each announces one outcome at most | |
| `SpinSingleInstance` | `Spin` in one process, whose one ioredis connection is FIFO | EXTENDS `Spin`, restricts its interleaving by a queue |
| `RoomService` | the other handlers of RouletteService and the gateway events | EXTENDS `RedisService` |
| `RoomSingleInstance` | `RoomService` in one process | EXTENDS `RoomService` |
| `RoomLifetime` | the TTL of every key of a room, as the handlers set, shorten or lose it | |
| `RoomController` | `createRoom` write by write, with failures; `getRooms` as two reads; the passing of time | EXTENDS `RoomLifetime` |
| `WsThrottler` | the sliding window per socket, its clean-up, `retryAfter` | |
| `SelectRandom` | the draw, for every value of `Math.random()` | |
| `SpinProofs` | theorems about `Spin`: the lock and the reads; retries, `room:state` and the contract | EXTENDS `Spin`, `TLAPS` |
| `SpinFifoProofs` | theorems about `SpinSingleInstance` | EXTENDS `SpinSingleInstance`, `SpinProofs` |
| `RoomProofs`, `RoomRegistryProofs` | theorems about `RoomService`: for any clients; for orderly clients in one process | `RoomProofs` EXTENDS `RoomService` and `TLAPS`, `RoomRegistryProofs` EXTENDS `RoomProofs` |
| `RoomViewProofs` | theorems about `RoomSingleInstance`: the owner's list | EXTENDS `RoomSingleInstance`, `RoomRegistryProofs` |
| `RoomLifetimeProofs` | theorems about `RoomController` | EXTENDS `RoomController`, `TLAPS` |
| `WsThrottlerProofs` | theorems about `WsThrottler` | EXTENDS `WsThrottler`, `TLAPS` |
| `SelectRandomProofs` | theorems about `SelectRandom` | EXTENDS `SelectRandom`, `TLAPS` |
| `MC...` | definitions for TLC: inputs, symmetry, hosts | EXTENDS the module of that name |

### From code to actions

In `Spin`, `pc[t]` names the next command of call `t`; in `RoomService`,
`task[x].pc` does, and the rest of `task[x]` are the handler's local variables.
An action executes that command and everything the handler does when the reply
arrives: early returns, emits, the `finally`. A Redis reply is what the key
holds when the command is executed. Two reads of one `Promise.all` are two
steps, as are the commands of a pipeline: a pipeline is not a transaction.

In `Spin`, every other handler is `Other`: any `RoomCommand` or `RoomDeletion`,
that is any single write to a key the spin reads, in any order. That is more than
the real handlers do, so what holds there holds with them; that they do no more
is `KeepsSpinEnvironment` of `RoomService`, checked and proved. This is how the
two halves of RouletteService compose. `deleteRoom` may take the lock away; the
history `overrun` remembers the calls that lost their lock, to its TTL or to a
deletion, before releasing it. `stayed[t]` and `waiting[t]` remember who has been
in the room, and in the room but not ready, ever since `t` took the lock;
`latest[r]` is the last spin announced.

In `RoomService`, a task is an element of `Calls` (a client's message, numbered as
they arrive) or, for the disconnect handler, the socket itself. `conn`, `rid`,
`role` and `joined` are the socket and its data; `Kick` is
`socket.disconnect(true)`, which finds the socket only in its own process (`Host`)
and starts its disconnect handler before the caller goes on. The sockets of
`Droppable` may lose their connection. `view[s]` is the last `room:participants`
that reached `s`. The constant `Orderly` restricts clients to one request at a
time, for all connections of the owner together, to losing a connection only
between its requests or before a ready toggle has written, to joining with the
role it has, to leaving before joining, and to no other request while the room is
being deleted. `torn` remembers the connections that were lost before a toggle of
theirs had written. The requests of different people, all disconnect
handlers, and the disconnect of an old owner connection with the join of a new
one, still overlap. The runs that end in a violation, and `room_view`, drop the
restriction.

In `RoomLifetime`, a handler that takes milliseconds is one action against TTLs of
hours. Two are split, because they overlap in every run of the code: an owner's
join (`OwnerAsks` up to the removal of the connection it replaces, `OwnerEnters`
from there) and the rest of the replaced connection's disconnect handler
(`Closes`). A key is the number of ticks it has left; `Age` is a tick. A socket
that has left nothing behind stands for a new connection, so a behaviour has any
number of them. `RoomController` adds `createRoom`, whose every write may fail
before or after Redis has executed it, and a `getRooms` whose two pipelines may be
torn apart by anything else.

In `WsThrottler`, a timestamp is its age in ticks, which stops growing at the end
of the window; `canActivate` is synchronous and one action. The history `served`
has the ages of the last `Limit + 1` events let through, however the list is
pruned: the limit is kept as long as the oldest of them is out of the window. In
`SelectRandom`, a behaviour is one call; `Random` is the set of all outcomes of its
draws. The filter of the one and the loop of the other are recursive functions
over the positions of the list (`YoungerThan`, `Shuffled`), which the proofs can
follow step by step.

### Abstractions

- Nicknames, titles, timestamps, outcome labels and win sentiment are left out.
  `winnersCount` is kept: how many win depends on it. In `RoomService` clients send
  a nickname; in `RoomLifetime` they may not, because that touches two more keys.
- Nothing validates what clients send over the gateway: it imports its DTOs as
  types only, it has no pipe, and the global `ValidationPipe` of `main.ts` does not
  reach gateways. So `Roles` has what clients join as besides `owner` and
  `participant`, and a `winnersCount` is anything that is not less than 1. What
  `selectRandom` takes for no winner (`undefined`, `NaN`) is 0 in `WinnersCounts`; a
  fraction counts as its whole part. What the code then does is part of the
  models: a socket with a role of its own is a member, is drawn, need not be ready,
  is not listed, and cannot leave with `room:leave`; a spin without a number for
  `winnersCount` is announced without a winner.
- In `Spin` the drawn winners are any subset of the right size; `SelectRandom`
  says why.
- In `RoomService` and `Spin`, `createRoom` is in `Init`: a room that exists has
  its config, owner and token. Its steps are in `RoomController`.
- TTLs of 2 h and 30 min end in `RoomLifetime` only; that of `lock:spin` may end at
  any time when `LocksExpire` holds, that of `idem:spin` when `RequestsExpire` does.
- In `RoomService` the rid drawn for a connection is the socket, and the owner
  rid of room `r` is `r`; tokens are there or not. Redis does not fail there.
- `idem` and `roomState` hold the spinId that wrote them.
- In `RoomLifetime`, INCR and EXPIRE of the participant counter are one step, and
  so are the DELs of `deleteRoom`. A `getRooms` that reads the token between the DEL
  of the config and that of the token takes the cookie of a room whose token is
  gone a moment later; `CookieLostOnlyWithRoom` does not see that moment.
- In the two `...SingleInstance` modules a reply's continuation sends its next
  command before the next reply is taken. When one read from the Redis socket
  carries several replies, their continuations are microtasks that can pass
  each other by a few promise hops; the argument of each property there needs a
  difference of a whole round trip, which such hops do not make up.

## What is checked

Passing runs (bounds in the cfg):

| Run | Shows |
|---|---|
| `spin_calls` | `LockHeld`: nobody else's acquisition or release costs a spin its lock. `MutualExclusion`: two spins are critical at once only if one overran its lock. `ReplayIsOfAnnounced`: without faults a refused retry was announced. `RetryIsRecognised`: a retry that checks after the announcement is refused. `LatestSpinShown`: `room:state` is the last spin. `LocksAreReleased`: a lock that no running spin holds was left by a crash, or by a failing command on it. `ImplementsContract`: the handler implements `SpinContract`. `TypeOK`. 3 spins, expiring locks, 2 faults, crashes included; no foreign command, which `spin_reads` and the theorems have |
| `spin_reads` | `ReadsCoverRoom` and its two consequences: whoever stays in the room is dealt in (`NoMemberLeftOut`), whoever stays unready stops the spin (`NoSpinPastWaitingParticipant`). 2 rooms, 2 sockets, 2 foreign commands, 1 fault |
| `spin_fifo` | in one process a request is announced at most once, although it is checked before the lock is taken, as long as no lock is overrun. 3 spins of one request, 1 foreign command, 1 fault |
| `spin_liveness` | every request is answered (`EveryRequestAnswered`), unless its process dies, also when a command or the release fails; 2 spins, winner counts 0 and 1, 1 fault |
| `room_registry` | `RegistryMatchesConnections`, `ReadyAreParticipants`, `OneOwner`, `OwnerIsRecorded`, `DeletedRoomIsGone` and `TypeOK`, with two requests of orderly clients, two connections of the owner, and any connection lost while others' handlers, or a toggle of its own, run; one nickname change and one config change are among the requests |
| `room_view` | in one process, with any two requests, deletion included, of clients that wait for nothing, a participant, a socket that may join with a role that is neither, winner counts 0 and 1, and a connection lost in the middle of its handlers: once the handlers have ended the owner's list is what Redis holds (`OwnerViewIsCurrent`), and under fairness it catches up with every change (`OwnerCatchesUp`); every command is one that `Spin` allows for (`KeepsSpinEnvironment`) |
| `room_lifetime` | no key that whoever is in the room needs expires before the token (`TokenExpiresFirst`); the owner can come back for half an hour, or for what is left of the cookie's two hours (`GraceIsKept`); `getRooms` takes the cookie only of a room that has gone (`CookieLostOnlyWithRoom`); an abandoned or half-created room vanishes (`AbandonedRoomVanishes`); `TypeOK` |
| `ws_throttler` | at most the limit in any window (`AtMostLimit`), only bursts rejected (`OnlyBurstsRejected`), who waits for `retryAfter` is let through (`RetryAfterSuffices`), entries of sockets that have gone are freed (`GoneAreForgotten`); `TypeOK` |
| `select_random` | different winners, as many as wanted (`WinnersAreDifferent`), and every set equally likely (`DrawIsFair`); 0 to 5 winners of 1 to 4 sockets |

Runs that end in a violation, each a disagreement between the code and what a
document of the repository says (`findings` in `PROJECT.json` quote them):

| Run | Shows |
|---|---|
| `room_ghost` | a connection lost during its join stays a member for ever |
| `room_delete_race` | a join in flight brings a deleted room back |
| `room_expiry` | a room whose owner came back within the half hour, and is connected, expires half an hour after the owner's first disconnect |

### Limits of the code that have no run

Three further disagreements are reproduced with the existing definitions; no
configuration is kept for them.

- **Two instances spin one request.** `NoRequestSpunTwice` of `Spin` as an
  invariant of `Spec`, with two spins of one request and neither faults nor
  expiry: both check the request before either has stored it, and take the lock
  one after the other. `src/README.md:79` promises that retries are not processed
  twice, `src/README.md:91` several instances. In one process `spin_fifo` excludes
  it.
- **Two owner connections that join at once both stay.** `OneOwner` in
  `MCRoomService` with `Inputs <- Joins`, `Orderly = FALSE`, `Seated = {}` and two
  owner sockets: each looks for the active connection before the other has
  registered. `src/src/common/redis/redis-spec.md:801` lets an owner in only when
  no other connection is active.
- **The owner's list ignores changes made on another instance.**
  `OwnerViewIsCurrent` in `MCRoomService` with a `Host` that gives the owner's socket
  another process than the participants', and one request:
  the socket is looked up in the process of the participant.
  `src/src/modules/roulette/roulette-spec.md:215` promises the list,
  `roulette-spec.md:813` several instances.

Exceptions that the passing properties spell out mark more of them: a spin that
outlives the 10 s of its lock shares the critical section (`overrun`); with a lost
reply of `setIdempotency` the spin is not announced and its retry refused
(`faults = 0` in `ReplayIsOfAnnounced`); a socket whose GET fails is skipped
(`seen[t].lost`), and a room whose GET fails in `getRooms` loses its cookie
(`query.lost`); a socket whose info has expired is not cleaned up when it
disconnects (`Stranded`), and the sets it is stranded in may have no TTL; a
connection that is lost before its toggle has written may leave its ready mark
behind, since `handleReadyToggle` writes after `handleDisconnect` has removed it
(`torn` in `ReadyAreParticipants`); the owner who loses the connection has the half
hour that `handleDisconnect` speaks of only if the cookie, which lives for two hours
from `createRoom` on and is never set again, lasts as long (`TimeToReturn`); the
promises about participants are about those who were there, or unready, from the
lock to the announcement: someone who becomes unready in between is not noticed.
A ready toggle is written to the room the client names, which need not be the one
it is in; the runs have one room.

**Bounds.** Two spins are enough for a conflict over the lock and a third for
one that profits from a lock already lost; two requestIds tell a retry from
another request; two foreign commands tear reads apart in both directions (one
removes, one adds again); one lost command or crash at each place. In
`room_registry` two requests are a leave and a rejoin, or two people at once, or the
owner's departure and return on another connection, and each of the three
connections can be lost once on top; the theorems have any number; `room_view` takes two, from
all states the handlers of the first can be in when the second starts, and loses
the connection of the participant that was there. One room is enough there because
the checked clients are in one room at a time, and no key of one room is read for
another. `room_lifetime` has 2 h in three ticks and 30 min in two, so that keys
of all ages meet and shortening differs from storing anew; two owner connections
are one that replaces the other; it drops two keys that are treated as another one
is, and `room_expiry` has all of them and a tick of 30 min. `ws_throttler` has a limit
of three in four ticks, so that events of different ages are in the window
together, and three ticks to a second, which do not divide the window: rounding
shows. `select_random` has every list of up to four sockets and one more winner
than that. `CHECK_DEADLOCK FALSE` is set for `Spin`, `RoomService` and
`SelectRandom`: when the requests of the bound have been served the system rests,
rightly. In the two modules with time it is not set, since time goes on.

**Fairness.** In `Spin`, weak fairness of each call's steps (Redis answers or
rejects every command, and Node runs the continuation). In `RoomSingleInstance`, weak fairness of `Serve`: the
oldest command is answered and its continuation runs. In `RoomController`, weak
fairness of `Tick` only: time passes. In `WsThrottler`, the same, and that
`cleanup` is drawn again and again if events go on being accepted
(`Math.random() < 0.01`). No fairness is assumed of clients, faults, or other
handlers.

**Symmetry** permutes spins, sockets, rids and requests in `spin_calls`,
`spin_reads` and `spin_fifo`; nowhere else, and never with liveness.

Every property has a mutant in `PROJECT.json`: a definition altered the way a
bug would alter the code, under which the run fails. Their operators stand
before the definition they would replace.

## What is proved

All theorems hold for any sets of rooms, sockets, rids, requests and calls, any
TTLs, any limit and window, from the assumptions named in the modules: `Null`
differs from the values it stands beside, winner counts and bounds are naturals,
the set of sockets is finite, what clients join as is in `Roles`, of which `owner`
and `participant` are only two, or missing (`RoomAssumption`), `Grace <= Full` (`LifetimeAssumption`), the
throttler's limit, window and second are positive (`ThrottlerAssumption`). What
orderly clients are is `OrderlyAssumption` and the guards `InOrder` and `Drop`
read; the theorems that need them say `ASSUME Orderly`, and no others use it.
`OwnerSeesTheCrowd` assumes `OneOwnerConnection` of the constants instead.

**Spin** (`SpinProofs`, also for the next three paragraphs), with any number of faults
and foreign commands, and with or without expiry:

- `TypeCorrect`: `Spec => []TypeOK`.
- `LockIsHeld`: `Spec => []LockHeld`. `LockHeld` is inductive together with
  `TypeOK`: acquisition succeeds only on a free lock, release deletes only the
  caller's own value, and expiry and deletion put the holder into `overrun`.
- `SpinsExclude`: `Spec => []MutualExclusion`. It is not inductive: it says
  nothing about the lock's value; it follows from `LockHeld`, since two calls
  cannot both hold it.
- `ReadsAreFaithful`: `Spec => []ReadsCoverRoom`, the inductive invariant behind
  the next two. It says what each read so far has captured: sockets still to be
  looked up, counted or lost cover those that stayed; the ready set read has
  nobody who has been waiting all the time. It is preserved by foreign writes
  because `stayed` and `waiting` only shrink.
- `WaitingParticipantsBlock`: `Spec => NoSpinPastWaitingParticipant`.
- `MembersAreDealtIn`: `Spec => NoMemberLeftOut`.

**Retries**: `RetriesAreRecognised` from `Recorded` (as long as
requests do not expire, whoever has announced has its key stored), and
`ReplaysWereAnnounced` from `Backed` (without faults, the key names a spin that was
announced; a property of the client's answer alone is not inductive).

**State**: `LatestIsShown` from `Shown`, which follows a spin
from its announcement to `setRoomState` and needs mutual exclusion: two spins in
between could store in the other order.

**Refinement**: `SpinImplementsContract`. `pc` maps to
`asked`, `running` or `over`, `overrun` to `lapsed`, `announced` to `outcome`. The
abstract guard of `Begin`, no other turn in the room, is `LockHeld` read at a
successful acquisition; that of `Announce`, somebody active and as many winners as
a count allows, needs `Prepared`: a call that is about to announce has a verdict
`ok`, hence somebody active and the count of a config.

**Release**: `LocksAreGivenBack`. No lock becomes one that no running spin holds,
unless in the step of a crash or of a failing command on the lock: what `LockHeld`
says of a spin and its lock, read at every way out of the critical section.

**One process** (`SpinFifoProofs`): `FifoTypeCorrect`, the queue holds each call
that awaits a reply once; `OneProcessIsASpin`, `FifoSpec => Spec`, so that all
theorems above hold there; and `OneProcessSpinsOnce`. When a call announces, another
call of the request may be past the check, waiting for the reply to its `SET NX`.
`OthersComeTooLate` says that this command then stands in the queue before the first
of the two that the announcing call still has to send before it releases the lock:
the lock is still held when it is executed. A lock overrun or a request forgotten
would void that; hence both conditions in the property. `SpinSingleInstance` has no
deletion of the room in it.

**Rooms** (`RoomProofs`), for clients that keep to no order: `RoomsTyped`, the
inductive invariant that every task is `WellFormed`, i.e. has the socket, room,
found connection or info that its next step uses; from it `RoomTypeCorrect` and
`RoomsKeepSpinEnvironment`. The latter is what makes the theorems about `Spin`
hold beside `RoomService`.

**Lifetimes** (`RoomLifetimeProofs`): `TokenIsFirst`, `GraceKept`, `CookieKept`
and `LifetimeTypeCorrect` from `IInv`. It adds to the properties what they leave
open: the owner key outlives the token even when nobody is there, members of a
living room are present, an empty set has no key, owners replace one another, no
socket knows the room while it is being created (`Unopened`), and a `getRooms` that
missed the token for no error has found a room that will not come back
(`QueryInv`: nothing ever stores a token again).

**Registry** (`RoomRegistryProofs`), for orderly clients (`Orderly`) and one process
(`OneProcess`: all sockets have the same host), any number of requests, sockets,
lost connections and deletions that overlap with them. The properties speak of the
states in which no handler runs and are far from inductive; `RegistryInv`
(`RoomsAreConsistent`) says what becomes of them in between, step by step of each
handler:

- `Order`: what `Orderly` buys. No room but `Home` is touched, a socket has one
  identity in it, one request runs per person, and a `handleDisconnect` runs for a
  connection that is lost.
- `Registry`: of a connected socket without a request, being a member, being in the
  socket.io room and having an info are the same (`Settled`); of one with a request,
  what the step of its handler has still to write or to remove; of a lost one, that
  its disconnect handler has not yet come to what is left of it, or that the room is
  being deleted.
- `Ownership`: at most one owner socket is a member, an owner who joins has found or
  will find it, and the owner key is there as long as one is.
- `Deletions`: members that a deletion has still to visit are in its list, after it
  has begun no new one appears, and the keys before `next` are gone.

From it: `RegistryMatches`, `ReadyMarksAreParticipants`, `RoomHasOneOwner`,
`RoomOwnerIsRecorded`, `DeletionsAreComplete`. The second excepts `torn`, and the
last is about deletions during which members lose their connections, but that begin
when no other request runs. Without `Orderly` the last one, and without ghosts the
first, are false: `room_delete_race`, `room_ghost`.

**The owner's list** (`RoomViewProofs`), in one process, where the commands are a
queue: `OneProcessIsARoomService`, `FifoSpec => Spec`, and twice
`FifoSpec => []OwnerViewIsCurrent`: `OwnerSeesTheRoom` for orderly clients,
`OwnerSeesTheCrowd` for clients that wait for nothing. The list that is delivered
last must have been read last, by a broadcast of four rounds of reads between which
other handlers write. The invariant `ViewOK` says of every connected owner: some
handler has changed what is shown and has still to broadcast (`Pending`); or some
broadcast has read nothing that has changed since (`Fresh`) and will end after all
others (`Last`); or nobody broadcasts and the list is right. Every change is followed
by a new broadcast, which stands at the end of the queue and is in its first round,
so it is last whatever the others have read; and since each round of it goes to the
end of the queue again, none can pass it. `Outcome` is what the steps of all handlers
amount to here: nobody watches any more, a change that is `Pending`, a broadcast that
begins or goes on, or nothing that is shown. The handler of a lost owner connection
does not broadcast: what it removes is of the owner that has gone. All this needs of
the clients is `Seating`: one owner socket at most is a member, infos are those of the
room and broadcasts go there, and a handler of a socket runs for a lost connection
only.

For orderly clients `RegistryInv` gives that, and that every step has an `Outcome`.
For the others `room_view` has the one owner connection of `OneOwnerConnection`, and
the theorem takes it over: every request is about the room, and, unlike in the run,
every connection joins with the role that is its own. Then the registry may be left in disorder: an owner's
leave, rename and deletion overlap with its own join, members stay without an info and
infos without a member. `CrowdInv` says what is still true, with `QueueOK` and `ViewOK`
as before:

- `Seats`: what Redis and the sockets hold about the room is of this room.
- `TasksFit`: what each handler has in hand at each of its steps (`Fits`), whatever
  has been overwritten meanwhile.
- `LossesRun`: handlers of sockets run for lost connections only, and do nothing but
  the steps of `handleDisconnect`.
- `AbsentAreNew`: an owner that is connected and on record without being a member has
  no info and none to come, unless one of its handlers is about to make it a member or
  take the record away (`Undecided`). So an owner who presides is shown the list.
- `PipelineOK`: once a deletion has deleted the owner key nothing overtakes the rest of
  its DELs, so that they have nobody to show the empty room to.

With two connections of the owner, of which one joins as a participant under the
owner's rid, the property is false; with rooms switched without leaving it is not
stated.

**Throttling** (`WsThrottlerProofs`): `ThrottlerTypeCorrect`, `LimitIsKept`,
`WaitSuffices` and `OnlyBursts`, from two facts about every socket. `Remembers`: the
list is what is younger than the window among the last events let through, in the
opposite order, at most `Limit` of them. `Covers`: the wait promised last reaches
to the end of the window of the event that stands in the way. That the filter
takes off exactly the front of the list (`RecentIsRest`) is by induction over the
list: `UpTo`, a fact about sets of naturals, follows from the least element of the
set of counterexamples, since the induction theorems of the library cannot be
used.

**Draw** (`SelectRandomProofs`): `WinnersDiffer`, by the same induction over the
passes of the loop: each swap keeps the entries different. `DrawFair` takes the two
ends of a count. Different random numbers shuffle differently (`ShufflesDiffer`: the
first pass in which they differ puts different entries where no later pass comes) and
every order comes up (`EveryOrderIsDrawn`: the entry wanted at a position is still
before it when its pass comes), so the random numbers are the orders of the list. Renaming the sockets by a
permutation that takes one set of winners to another pairs the orders that draw the
one with those that draw the other; all sets of that size together with the draws of
one of them are therefore as many as all draws (`SharesAreEqual`).

Only model-checked are: liveness (`EveryRequestAnswered`, `OwnerCatchesUp`,
`AbandonedRoomVanishes`, `GoneAreForgotten`), out of TLAPS's reach.

## Plan

Done: the spin with its faults, its contract and proofs, also in one process; the
room handlers with the registry, and the owner's list also for clients that wait for
nothing; lifetimes with the HTTP API; throttling; the draw. Left: switching rooms
without leaving, and failing Redis commands, in `RoomService`.

## Not modelled

- Cookie and token parsing: string functions of one request, without state.
- Filters and exceptions: stateless mapping of errors; the models name the outcome
  of an error. DTO validation does not reach the gateway, see Abstractions.
- Health, metrics and logging: they observe, and nothing reads them back.
- Configuration, start-up and the Redis connections: framework wiring. `afterInit`
  of the gateway polls for the Redis clients once and then installs the adapter; a
  socket that connects before is served without it, which matters only with
  several instances.
- Titles, nicknames and the participant counter as values: they are only shown.
  A crash between INCR and EXPIRE leaves a counter without TTL until the next
  `extendRoomTTL` or `deleteRoom`.
- A second `room:join` of another room without `room:leave` (the runs have one
  room), and Redis errors in the room handlers.
