# Verification of Monky

Monky is a self-hosted voice and chat server with desktop, mobile and bot
clients. This directory holds TLA+ models of its core logic, the TLC
configurations that check them on small instances, and theorems proved with
TLAPS for every value of the constants. Paths below are relative to the
repository; `WebSocketServer.ts`, `AuthHandler.ts` and their neighbours are in
`apps/server/src/infrastructure/websocket/`, `AuthService.ts` and the other
services are in `apps/server/src/application/services/`, `SfuManager.ts` is in
`apps/server/src/infrastructure/sfu/`, and the direct messages (`dm*.ts`) are in
`packages/dm/src/`.

- [The system](#the-system)
- [What is modelled](#what-is-modelled)
- [Scheduling](#scheduling)
- [Runs, bounds and fairness](#runs-bounds-and-fairness)
- [Where the code and its documents disagree](#where-the-code-and-its-documents-disagree)
- [Proofs](#proofs)
- [What is not modelled](#what-is-not-modelled)
- [Plan](#plan)

## The system

The server is one Node.js process. One thread runs every handler, so two
handlers interleave only where one of them awaits. State is in memory (the
connection registry, calls, interactions) or in a SQLite database that `sql.js`
keeps in memory and that is saved to disk. Clients connect over one WebSocket
per device and server; WebRTC media goes peer to peer or through mediasoup
workers the server starts. Direct messages are end-to-end encrypted and go
through the servers two people share, which store none of them.

| Component | Keeps | Operations | Hard part |
| --- | --- | --- | --- |
| Connection registry, `WebSocketServer.ts` | registered sessions, the socket of each session id, graces, anonymous counters | connect, message, close, replace, revoke, heartbeat, shut down | late close events, replaced sockets, timers that cross a return, counters settled on five paths |
| Sign-in, `AuthHandler.ts` | the await each sign-in is suspended at | `AUTH_CONNECT`, `AUTH_CHALLENGE_RESPONSE`, bot tokens | six awaits between the first read and the announcement |
| Identity, `AuthService.ts`, `UserService.ts` | challenges, user records, owner | challenge, verify, caps, create the record | values checked after they may have changed |
| Message routing, `routing/MessageRouter.ts` | routes | dispatch in wire order per connection | messages of a connection let go |
| Broadcast, `Outbox.ts` | nothing | publish, broadcast, channel audiences | audience at send time |
| Presence, `PresenceHandler.ts` | visibility, away and custom status of each session | change for all devices of a person | a person is several connections |
| Roles and kick, `RoleHandler.ts` | roles, members | create, assign, kick | an await between the deletion and the disconnection |
| Access, `access/*`, `PermissionService.ts` | versions of the channel and role rules, what each connection was told | change, reconcile, resynchronise | a message, a broadcast or a sign-in prepared before a change |
| Voice, `voice/*`, `SignalingService.ts` | who is in which call, reconnection grants, restrictions | join, move, leave, AFK, return | joins superseded while the SFU answers |
| SFU, `infrastructure/sfu/SfuManager.ts` | workers, routers, transports, producers, consumers | create and destroy with calls | creation that finishes after its call ended |
| Bots, `BotInteractionHandler.ts`, `BotLocalExecutionService.ts` | interactions, admissions | invoke, reply, finish, cancel | a disconnect or revocation half way |
| Chat, channels, forums, polls, attachments | database rows, upload tokens | transactions | undo windows and deletion |
| DM relay, `DmRelayService.ts` | connections by identity | forward or refuse | nothing is stored |
| Lifecycle, `server.ts`, `infrastructure/lifecycle/*`, `database/SqliteWrapper.ts`, `cli/context.ts` | the database in memory and on file, the lock file, deferred releases | open, seed, serve, save, stop, edit from the command line | one release or save that fails, a process that dies, a command beside a server |
| Direct messages, `packages/dm/src` | conversations, tombstones, outbox, unwritten documents, receipts owed | send, edit, delete, retry, expire, receive, acknowledge, merge, write | nothing stored on servers: repeats, late deletes and edits, receipts against crashes, several devices |
| Client, `apps/client/src/renderer/core` | member list, reconnection, peers | apply events, reconnect | events of an older socket |

What makes each correct is what the hazards of `PROJECT.json` list, at the line
where each one bites and with the property that would catch it.

## What is modelled

### `Connections` and `Presence`

`Connections` is the registry together with everything that changes it: the
socket events and timers of `WebSocketServer.ts`, the sign-in of people and bots
in `AuthHandler.ts`, the visibility part of `PresenceHandler.ts`, the kick of
`RoleHandler.ts`, and what a connected client shows as a result
(`ParticipantManager.ts`, `serverStateEvents.ts`, `serverStore.ts`).

| Variable | Code |
| --- | --- |
| `sock`, `addr`, `opened` | `ws.readyState` as the server sees it, `session.ip`, the sockets so far |
| `sessions`, `sid` | the keys of `sessions`; `session.sessionId`, which is set together with `session.user` |
| `replaced`, `loggedOut`, `invisible` | the flags of `ClientSession` |
| `sessionSockets`, `reconnectTimers` | the maps of the same name, the second with the `wasInvisible` its timer captured |
| `anonymous`, `perAddress` | `anonymousSessions` (members have `countedAnonymous`), `anonymousPerAddress` |
| `stage`, `claim` | the await of `answerChallenge` or `admitBot` a connection is suspended at, and for which session id |
| `removed`, `kicking` | user records deleted; kicks between `deleteMember` and `closeSessionsOfUser` |
| `choice` | each app's saved "appear offline" |
| `told` | `ParticipantManager.participants` of each client: how it shows the entry of each key (`keyOf`: a session id, or a user id) |
| `listed` | `serverDetails.members` of each client: the people it lists as online |
| `unannounced` | not in the code: the devices that left, or came back hidden, with nobody told, since they were last announced |
| `phase` | `closing`, then the deferred releases of `close()` that touch the registry |

One action is the code between two awaits:

- `connection`, `PeerCloses`, `authDeadline`, `closeEvent`, `checkLiveness`,
  `graceExpires`: socket events and timers. A socket error and a silent peer are
  the same step, `checkLiveness`: the connection is let go and its close event
  is still to come.
- `answerChallenge` (up to the TURN probe), `probed` (up to the end of
  `verifyChallengeResponse`), then `refused` or `admitted` (up to
  `includePresenceChannels` and the ICE servers), `welcomed` (`AUTH_SUCCESS`, up
  to `sendSettingsList`), `joined` (`USER_JOINED`). A bot goes through the same
  stages; its announcement is in `welcomed`.
- `setVisibility`, `toggleOffline` (the choice changed while disconnected),
  `logout`, `kick` and `kicked` (before and after `deleteMember`),
  `disconnectBot`.
- `close`, `closeTimers`, `closeTransport`.

A client shows a person twice, and the two may differ. An entry of `told` is
added by `AUTH_SUCCESS` and `USER_JOINED` and removed by `USER_LEFT` and
`MEMBER_KICKED`; it is "online" or "hidden" (status `DISCONNECTED`), reconnecting
or not. Hiding is no departure: it is a `USER_UPDATED` that takes the member row
away and turns every entry of the person hidden, and the next visible one turns
every entry online again, also that of a device that is gone
(`UpdateHidden`, `UpdateVisible`). A client without an entry of the person adds
one: under the user id when the person is hidden, since the update then carries
no session. `USER_LEFT` of a device removes its entry, and the member row only
with the person's last one (`Leave`).

The connections a kick or a replacement lets go are updated in one step because
the loop that does it does not await. `Crowding`, `Release`, `settleAnonymous`
take a set for that reason.

`Presence` is what the registry promises of each device without sockets:
offline, online, reconnecting; sign in, goodbye, drop, leave, expire, removal,
shutdown. `Connections` maps `status` from its two maps and implements it.

### `SignIn`

`SignIn` is `AuthService.ts`: `createChallenge`, `verifyChallengeResponse` and
`finishAuthentication`, await by await, over the user rows that matter
(`records`, `keyRequired`, `ownerUserId`, `admins`).

| Action | Code |
| --- | --- |
| `createChallenge`, `challengeSent` | before and after the password derivation |
| `challengeExpires` | the 30 s timer |
| `answerChallenge`, `verified` | before and after the probe; the challenge is used up and the server row read |
| `snapshot`, `recheck` | the online sessions and the lookups by key and by client id |
| `weigh` | `requiresServerKey`, or the count of members |
| `enroll` | device cap, nickname, the row created or updated |
| `grant` | server-key mark, first owner and its role |
| `admit` | back in `AuthHandler.answerChallenge`: the connection is bound, the older one of the device released |

Passwords, keys and nicknames are members of small sets; a request says whether
its password is right and whether the app signs with the server key.

The two modules overlap at admission on purpose: `Connections` leaves open
whether `AuthService` accepts (`refused` or `admitted`), `SignIn` decides it and
leaves out what everybody is told.

### `DmMessages` and `DirectMessages`

`DmMessages` is one message as a device holds it and the functions that change
it: the clock of a text (`contentClock`, `contentWins`), the operations `edit`
and `delete`, the copy sent to another own device (`toWireMessage` and
`parseWireMessage`), the merge of `mergeHistory` and the fingerprint devices
compare. `DirectMessages` is the engine around it, on every device of an author
and of a friend.

| Variable | Code |
| --- | --- |
| `copies` | the messages in memory (`DmHistory`) |
| `tombstones` | `head.tombstones` |
| `outbox` | `state.outbox` for the friend |
| `pendingWrites`, `disk` | `DmPersistence.pendingWrites` and the stored documents: a month of messages, the head, the state |
| `pendingAcks` | `DmOutbox.pendingAcks` |
| `net` | items handed to the transport; `used` are ids given, `crashes` is a bound |

The engine is synchronous, so one action is one call into it:

| Action | Code |
| --- | --- |
| `sendMessage`, `editMessage`, `deleteMessage`, `resendMessage` | the methods of `DmConversations` |
| `outgoing`, `expire`, `acknowledged` | the next round or a friend's hello, the 30-day deadline, a receipt |
| `ingestPeer`, `ingestSelf` | `applyOp` for a friend's operation with `ackWhenStored`, or for the copy from another own device |
| `historyFor`, `mergeHistory` | what own devices send each other after a digest, and how it is taken |
| `writePass` | one document is stored and the receipts that waited for it leave |
| `crash` | the app stops and starts from `disk`; what was on its way to it is lost |

Servers store nothing and the relay gives no guarantee, so an item on its way is
taken at any time, in any order, or never: what is lost simply stays in `net`.
Each round picks one of the servers both people use, so two items may well
arrive the other way round. A write that fails stays pending, which is the
document not being written yet. `fingerprint` is compared as a value and not as
a hash of a day, and a digest is one message old at any time: `historyFor` may
send any message of any conversation.

### `ServerLifecycle`, `ResourceScope` and `SqlJsDriver`

`ResourceScope` is `ServerResourceScope.ts` and `SqlJsDriver` is
`SqliteWrapper.ts`, each as the functions that change one record: a scope with
its deferred releases, and a connection with the rows in memory, the rows its
transaction began with and the save that is due. `ServerLifecycle` runs several
processes on one data directory: servers one after the other and the commands
that edit the directory.

| Variable | Code |
| --- | --- |
| `file`, `lock` | `server.db`; the server that `server.lock` names |
| `db` | the `SqliteWrapper` of each process |
| `phase` | where a server is between `MonkyServer.create` and the end of `stop` |
| `start`, `startup`, `turn` | `startPromise`, `startupTasks`, the relay |
| `scope` | `resources`: database and marker, listener, relay, startup work, sockets, in the order they are deferred |
| `done` | how far each command of `withWritableContext` is |
| `committed`, `writes`, `failures` | history of what was committed, and the two bounds |

A server is launched and opens the file (`Launch`, `OpenDatabase`), creates its
identity and saves it (`SetUp`, `Serve`), starts (`Listening`, `Announced`,
`StartupEnds`), is written to by its members (`MemberWrites`) and stops (`Stop`),
each release a step of its own that may fail (`Release`, `ReleaseFails`); a stop
that failed may be tried again by the desktop app. `Dies` ends a server at any
step, also between a commit and its save. A command opens, edits and saves, or is
refused.

Assumptions: one server at a time per directory, which `server.ts` leaves to
whoever starts it (a second one takes the marker over, as `serverLock.ts`
documents); the check of PM2 is left out; a command's second check and its save
are one step; the write of the marker succeeds and process ids are not reused.

### `VoiceRooms`

`VoiceSessionHandler.ts`, the voice state of `SignalingService.ts` and the lists
of `ChannelVisibility.ts`. A handler awaits the database, which answers at once,
or the worker that mutes a microphone, which does not: what is left of a handler
after that wait is an entry of `waiting`.

| Variable | Code |
| --- | --- |
| `may` | the rooms that the roles of each person show |
| `order`, `room`, `returns`, `moving` | the server's map of sessions, `voiceStates`, `voiceReturnGrants`, `movingOut` |
| `mic` | the room where a session has a microphone at the worker |
| `views` | the list each connection was sent, with whom it shows where |
| `waiting` | joins, moves and permission passes that wait for the worker |

`SignIn`, `Drop`, `Logout`, `ReturnLapses`, `Join`, `JoinRefused`, `Move`, `Leave`,
`Publish` and `ChangeRoles` are the handlers and timers; `JoinGoesOn`,
`MoveGoesOn` and `ReconcileGoesOn` go on with what waited. There are two modes:
with calls peer to peer nothing waits.

### `SfuMedia`

`SfuManager.ts` and the requests of `SfuSignalingHandler.ts`: one worker that
starts, dies and is replaced; per room one router; per session one transport
that sends or receives; microphones and the consumers that hear them.

| Variable | Code |
| --- | --- |
| `room`, `muted`, `channels` | `voiceStates` and the rooms that exist |
| `generation`, `worker`, `startup`, `starting`, `processes` | the fields of `SfuManager`, the starts under way and the processes they spawned |
| `delayed`, `ready` | handlers that wait for a start, and those whose wait is over |
| `routers`, `creations`, `transports`, `producers`, `consumers`, `pending`, `joined` | the maps of `SfuManager`, with what is being created |
| `requests` | what the worker still has to answer, in order |
| `open`, `paused` | what the worker has open and has paused |
| `told`, `asked`, `lost` | what each client knows of the producers |

Each answer runs what the handler does after its await, with every check it makes
again. A handler whose start has ended is in `ready` and goes on, one step each,
before anything else happens. `open` is what the worker has open, kept apart from
what the server has on record, so that what one forgets and the other keeps is a
state and not a gap of the model. A record stands for an object of the program:
its `id` tells it apart from others that are alike, and a new one takes the least
that nothing refers to any more. A creation of a router that is rejected takes
along those who wait for it. mediasoup is external: it answers in order, and when
a transport's DTLS fails it closes what the transport carries (`lost` remembers
those producers).

### `ChannelAccess`

`AccessEpoch.ts` and the role version of `PermissionService.ts`; the requests
that change access between two of their versions (`ChannelHandler.ts`,
`RoleHandler.ts`); and the work that compares versions: sending a message
(`ChatHandler.ts`, `ChatService.ts`), its audience (`Outbox.ts`), and the
catching up of a sign-in whose snapshot is out of date (`AuthHandler.ts`).

| Variable | Code |
| --- | --- |
| `rows`, `holders` | channels and the holders of the role, as stored |
| `changes`, `running`, `generation`, `roleVersion`, `roleMutations` | the fields of the two classes |
| `edit`, `carries`, `refreshes` | each request, the roles it read, the queue `screenRolesRefresh` |
| `post` | each message: asked, allowed, stored, heard |
| `conn` | each connection: versions captured, snapshot read, what it was told |

Here the versions are judged by themselves: every await of the work they guard
may take a turn, more than today's database allows. Reading a state and sending
it with nothing but database reads between is one step, and so is what
`ResyncLate` reads and sends: a read that begins before the deadline and ends
after it goes out unchecked, which the model does not show.

## Scheduling

A promise that is already settled resumes before the event loop delivers the
next socket event or timer. The database answers synchronously, so an await on
it only yields to handlers that are ready as well. Two awaits really wait: the
TURN probe (`CoturnManager.availability`, one run shared by all the callers that
arrive meanwhile and cached for a minute) and the scrypt password derivation.
The models say so with `LoopFree`: socket events, timers and new messages are
enabled only when no handler is ready to go on. Several sign-ins are ready at
once when they waited for the same probe.

`VoiceRooms` and `SfuMedia` follow the same rule with the wait that matters
there, the worker's; `ChannelAccess` is more generous, as said above.

Handlers that are ready may go in any order, which is more than the microtask
queue allows, so what holds here holds there. The counterexamples below need no
more than the lockstep order the queue has: each step of one sign-in follows
the same step of the other.

## Runs, bounds and fairness

| Run | Checks | Instance |
| --- | --- | --- |
| `registry` | `IndexAgrees`, `NoGraceWhileBound`, `RostersAgree`, `NeverReadmitted` | one person with two devices, another watching, three sockets of which one may wait, visibility on and off |
| `shutdown` | `CleanShutdown`, `AnonymousBounded`, `ImplementsPresence`, no deadlock | two people, three sockets of which two may wait, kick, `close()` at any time |
| `liveness` | `ReconnectingEnds`, `AnonymousEnds` | two people who may hide while disconnected and a bot, two sockets, one anonymous socket per address |
| `sign_in` | `TypeOK` (one row per identity), `NoChallengeLeft`, `ChallengeEnds`, `Caps`, `OwnerKept`; `NoDowngrade` where sign-ins run alone | three sockets, three identities, one session each, two members, one attempt per socket; or two sockets whose sign-ins interleave |
| `dm_receipts` | `ReceiptIsTrue`, `PendingIsQueued`, `FriendsSeeTheSame`, `DeleteIsFinal` | one device each, one message, two texts, one edit clock; the friend writes each document late and may crash once; messages expire |
| `dm_devices` | `VersionTellsText`, `FriendsSeeTheSame` | two devices of the author, one that sends and one that edits and deletes, and the friend |
| `server_life` | `FileIsCommitted`, `IdentityOnFile`, `HeldWhileUsed`, `StoppedIsSaved`, `NoSaveOverServer`, `StopEnds` | two servers, one of them hosted by the desktop app, one command, one change by a member, one failed write or release, a death at any step |
| `voice_rooms` | `RostersAgree`, `PresenceIsListed`, `MovingIsWaiting` | two people, one of whom has a microphone and changing roles, two rooms, two handlers waiting |
| `sfu_media` | `OneRouter`, `NothingLeaks`, `MediaFollowsRoom`, `MutesSettle`, `HearsOnlyLive`, `NobodyUnheard` | one who sends, one who receives, two rooms, two handlers waiting, one fault, four identities |
| `channel_access` | `VersionsComeBack`, `ToldAsItIs`, `OnlyReadersHear`, `SavedWithLeave` | two people of whom one signs in, a channel, one change of it, a role given and taken, one message |
| `hidden_leak`, `ghost_participant` | must be violated, see below | two devices; two people in voice |

What the main properties say:

- `IndexAgrees`: a device is bound to a socket exactly when that socket's
  session is registered, signed in for the device and was not let go. This is
  what makes `getSessionsOfUser`, `findSession` and the broadcast agree.
- `RostersAgree`: once the sign-ins of a device are settled, every connected
  client of somebody else shows it and lists its person if it is connected and
  visible, whatever crossed the client's own sign-in. What the client shows or
  lists besides has a reason: a visible device in its grace, a device that left
  or came back hidden with nobody told (`unannounced`), or an entry under the
  user id. Nothing is ever kept of a device whose departure was announced.
- `AnonymousBounded`: the counters are the sockets that wait, so the caps hold
  for the sockets.
- `NeverReadmitted`: a connection let go never acts as signed in again.
- `ImplementsPresence`: the registry refines `Presence`.
- `Caps`: device cap, nickname and member cap, which a sign-in compares with what
  it read some awaits earlier. Whatever overlaps, whoever is admitted fits beside
  the people it saw who are still there (`FitsBesideSeen`); sign-ins that run alone
  keep the limits themselves.
- `OwnerKept`: a server with an owner gets another one only from a sign-in that
  overlapped with the first one's, each of them once, and their number only
  shrinks (`Rivals`). Alone there is none.

- `ReceiptIsTrue`: a receipt on its way for a message or a delete means that it
  is on the disk of a device of the friend, whatever crashed.
- `DeleteIsFinal`: once a device has a delete on disk, nothing that is late or
  repeated, and no crash, shows the message there again.
- `FriendsSeeTheSame`: when nothing waits and the devices of each person hold the
  same versions (`Settled`), author and friend see the same messages, even if all
  that is still on its way is lost.
- `VersionTellsText`: own devices with one version of a message have one text;
  otherwise the digest would never repair it.
- `FileIsCommitted`: the file holds nothing of a transaction that is open or was
  rolled back, although an export takes all that is in memory.
- `IdentityOnFile`: what members pin as the server's key is on file before the
  server listens.
- `HeldWhileUsed`: the marker and the database are held while they are used, the
  relay while it starts, and after a stop that failed exactly what refused.
- `StoppedIsSaved`, `NoSaveOverServer`, `StopEnds`: a stop that succeeds has saved
  everything and left nothing; a command never replaces the file of a server
  that runs; a stop ends whatever the start was waiting for.
- `PresenceIsListed`, `MovingIsWaiting`: nobody loses from their list the room they
  are in, are leaving or may return to, and no move leaves that right behind.
- `NothingLeaks`: what the worker has open is on record or about to be closed.
- `MediaFollowsRoom`: a session's media are in the room the session is in.
- `HearsOnlyLive`, `NobodyUnheard`, `MutesSettle`: clients know of every producer in
  their room and of none that is gone, and a microphone is paused exactly when
  its session may not be heard, once no request is under way. `MutesSettle` also
  says that a transport carries one microphone, which two productions at once
  could break.
- `ToldAsItIs`: once no request is under way, whoever signed in was told the roles
  and channels as they are, however the sign-in crossed the changes.
- `OnlyReadersHear`, `SavedWithLeave`: of the people connected when the lookup of
  its audience began, a message goes to exactly those who may read its channel when
  it is sent, and it is stored only while its author may post.

Each state machine has a type invariant, `TypeOK`. All are proved; `SignIn`'s is
also checked by its run because it holds one row per identity; the others can be added to a configuration to see them hold.

Bounds. `MaxConns` is how many sockets ever connect. Three let a device be
connected, dropped and replaced while a third socket watches or drops in turn;
each hazard of the registry needs two sockets of one device and a witness. Two
sockets are enough for liveness, where one waits and the other watches. `Hiders`
and `OfflineToggle` bound which visibility changes happen, `MayClose` and
`Kickable` whether shutdown and kicks do; a run switches off what its question
does not need. `MaxConnects` bounds the attempts of a socket in `SignIn`, one
number for sign-ins that run alone and one for those that interleave (`overlap`,
chosen in the initial state). The two devices of `registry` are interchangeable
(`SameUser`): no property or action tells them apart, and the runs with liveness
use no symmetry. The same holds for the rooms of `voice_rooms` and of
`sfu_media`, and for the two role changes of `channel_access`. For direct
messages one message is enough, since nothing but the documents ties two of them
together; two texts are an old and a new one, and the clock steps past what a
device has seen, so one clock value is one edit. `Can` says which device does
what: with one device that edits, equal clocks of two devices do not arise.
`Slow` devices write each document on its own, the others all at once before the
next event (`Written`), which keeps the number of states of the second run in
reach. `History` keeps one history message on its way, an older one being lost.
`Ids` holds four identities, so that a new transport, producer or consumer always
finds one that nothing refers to. `MaxWaiting` and `MaxRequests` are how many handlers wait for the worker when
another one begins: two let any one be overtaken by another (a session that only
receives has one at a time). `MaxFaults` counts what may go wrong or rarely
happens around the SFU (a start that fails, a worker that dies, the SFU closed,
DTLS that fails, a connection replaced, a room deleted), `MaxFailures` the
failed writes and releases of a server. `Apart` keeps a message and a sign-in
from being under way at once in `channel_access`; they share nothing but the
versions. Caps are 1 or 2 so that they are reached: that of an address in
`liveness`, that of the server in `shutdown`, where three sockets never reach the
three an address may have. Deadlock is checked in
`shutdown` and `voice_rooms` (in the first, `stopped` is the legitimate end) and
not elsewhere, where a bounded number of sockets may simply be used up.

Fairness. A suspended handler resumes and a shutdown goes on (weak fairness:
they are promises that settle). A close event, an authentication deadline and a
grace timer are served although ready handlers go first (strong fairness: they
become enabled again and again as handlers finish). Nothing is assumed of
people: connecting, leaving, signing in and kicking may never happen. Liveness
of the registry needs no fairness of `checkLiveness`, and that of the challenges
none of the password derivation. A server that stops goes on with its releases,
and what it waits for settles or fails; that it starts, or is asked to stop, is
not assumed.

## Where the code and its documents disagree

Two runs must end in a violation.

- `hidden_leak`: "You will be invisible to all other users on any server."
  A device that drops while visible and comes back within the grace with
  "appear offline" switched on is not announced as gone; everybody goes on
  showing it as reconnecting.
- `ghost_participant`: no access change may drop a departure, "or a participant
  who left would stay listed for good" (`VoiceSessionHandler.ts:1040`). A join
  that waits for the SFU to mute the microphone of the room just left announces
  itself afterwards without asking whether the session is still inside; when it
  left meanwhile, the others list a participant who is gone.

The following were found the same way and no run is kept for them. Where a
property is named it is in the module, with the remark that it does not hold:
adding it to the configuration named here, with the constants given, shows the
steps.

- `Connections.NoDeviceLeftOnline` (`MCHidden.cfg` with `Kickable = {u1}` and
  `OfflineToggle = FALSE`): "must not leave the other devices online"
  (`WebSocketServer.ts:698`). A sign-in whose user record was read before the
  kick is admitted after it, since `isLive` asks about the socket and not about
  the person (`AuthHandler.ts:215`). A kick that falls on the await between
  `AUTH_SUCCESS` and `USER_JOINED` is followed by the late `USER_JOINED`;
  `RostersAgree` therefore says nothing of removed users.
- What `SignIn` claims for `~overlap` only (`SessionCap`, `NicknamesUnique`,
  `MemberCap`, `Rivals = {}` in `OwnerKept`, `NoDowngrade`), without that premise:
  "the first member made owner" (`AuthService.ts:87`). `ownerUserId` is read some
  awaits before it is written (`AuthService.ts:429`), and two first members that
  waited for one probe both become owner and administrator. The caps, the unique
  nickname and the refusal of a bare nonce fail the same way, each check being made
  on what was read before the other sign-in wrote. What remains true of sign-ins
  that overlap is in `Caps` and `OwnerKept`: each fits beside those it saw, and only
  the first rivals can take over. Of the cap of members nothing remains, since the
  count it compares is of rows that another sign-in may be about to write.
- `Connections.NobodyGoneListed` (add it to `MCConnections.cfg`): "Only drop the
  member row once the person has no device left online"
  (`serverStateEvents.ts:109`). Two devices of a person are connected; the first
  hides the person, the second logs out, of which nobody is told, and the first
  shows the person again. The others now show the second device as online
  (`ParticipantManager.ts:132`), and when the first one leaves, that entry keeps
  the member row. The same comes of an update about a hidden person whom a client
  does not know: it adds an entry under the user id (`ParticipantManager.ts:141`),
  which no `USER_LEFT` removes.
- `Connections.RostersAgree` and `ReconnectingEnds` without the exception for
  `unannounced` devices: the omissions of `hidden_leak` and of the last item. The
  first needs no change while disconnected: with four sockets, an older connection
  of a device replaces a newer one that another device of the person made visible
  while the older sign-in, still hidden, waited for the probe. What is replaced
  goes on being shown as online, or as reconnecting if it had dropped. Besides its
  run, `RostersAgree` was checked once on a larger instance, where the watcher may
  hide too (`Hiders = {u1, u2}`, 1.7 million states).
- `DirectMessages.SameTexts` (`MCDmReceipts.cfg` with `Slow` and `Crashing` empty
  and `MayExpire = FALSE`): "so every device ends with the same conversation
  whatever order the operations reach it in" (`dmConversations.ts:30`). An edit
  that overtakes its message is dropped and acknowledged (line 301), an older copy
  of the message is inserted next, and the copy with the new text is refused as
  already there.
- `ServerLifecycle.SavedStays` (`MCServerLifecycle.cfg` with `SPECIFICATION Spec`):
  a command saves the copy it read when it began, and its second check asks only
  whether a server runs now (`cli/context.ts:165`). What a server, or another
  command, saved in between is overwritten.
- `VoiceRooms.ListsSettle` (`MCGhost.cfg`): `reconcile` "brings every client's channel
  list back in sync" (`ChannelVisibility.ts:50`). It reads the rows once and waits
  for a microphone between sessions (line 133); a pass that began before a newer
  one may end after it and send the older lists.

Observations from reading that no property states: a debounced save that fails
is logged and not tried again until another write (`SqliteWrapper.ts:117`,
unlike line 91); a signal during `start()` makes it reject, and the main program
exits while `stop()` still runs; two updates that find the same stale lock may
take it over one after the other (`cli/updateSafety.ts:177`); a move that
continues late closes all media of its session, a join that is refused gives up
the session's right to return; a message that was stored and whose broadcast met
a change of access is not sent, and a retry with the same `clientMessageId` is
not broadcast either.

## Proofs

`ConnectionsProofs` and `PresenceProofs` prove, for any number of sockets,
users, devices and addresses and any values of the caps (from
`ConnectionsAssumption` alone):

| Theorem | States |
| --- | --- |
| `TypeCorrect` | `Spec => []TypeOK` |
| `IndexCorrect` | `Spec => []IndexAgrees` |
| `GraceCorrect` | `Spec => []NoGraceWhileBound` |
| `CapsCorrect` | `Spec => []AnonymousBounded` |
| `ShutdownClean` | `Spec => []CleanShutdown` |
| `RostersCorrect` | `Spec => []RostersAgree` |
| `LetGoForever` | `Spec => NeverReadmitted` |
| `Refinement` | `Spec => ImplementsPresence` |

The argument. `TypeOK` is inductive by itself once the released counts are
known to be natural numbers. `IndexAgrees` is not: admission binds a socket
without looking at its flags, so the invariant behind it also says that a
suspended sign-in belongs to a connection that was not let go unless its stage
can no longer admit it, that sockets which have not connected yet carry no
state, and that a session id is set exactly from the stage of admission on. The
grace follows from the same invariant, because the only step that starts a grace
unbinds the device first. `LetGoForever` needs that a connection outside
`sessions` is not live, which every step that admits or binds checks. The
refinement maps each action to one step of `Presence` or to a stutter:
disconnections to `Drop` or `Leave`, admissions to `SignIn`, the second half of
a kick to `Remove`, the shutdown to `Stop` and `ClearGraces`. It needs
`IndexAgrees`, so that the released connection is the one its device is bound
to, and an invariant about kicks, so that nobody is removed twice.

`AnonymousBounded` and `CleanShutdown` come from `CapsInv`, on top of the
invariant of the index: an anonymous socket is registered and was not admitted,
the counter of an address is the cardinality of its anonymous sockets, every
registered socket that waits is counted while the server is up, the close event
of a socket took its connection out of the registry, and no grace starts once
the server is closing. The sum over addresses is never needed: both caps are
cardinalities of sets of sockets.

`RostersAgree` speaks of devices whose sign-ins are settled. `RosterInv` says of
every device, settled or not, what each client keeps of it (`Seen`): its entry is
"online" and its person listed once it was announced and while it is on show; an
entry is reconnecting only for a device in its grace or left with nobody told; and
a device with no excuse (`Excused`: on show, in its grace, or unannounced) has no
entry, or a hidden one while it is connected and its person is not listed.
`Backed` adds that a client lists only whom it has an entry of, which is what
leaves the excuses of `RowAgrees`: the row goes with the last entry.

Four things could go wrong. A late `USER_JOINED` could announce a device that is
gone: between admission and announcement the device of a person stays bound, by
this connection or by the one that replaced it, unless the person was removed
(`InFlight`, which needs that a connection keeps the device it asked for,
`Claims`). A visibility change could reach a bot, or leave out a device: nobody
hides a bot (`BotsVisible`), which needs that a bot's user record is its own
(`ConnectionsAssumption`; bots and users are rows of two tables, each with a fresh
UUID), and the registered devices of a person are exactly those bound (`Bound`). A
visible `USER_UPDATED` shows every entry again: one that was hidden belongs to a
device that is connected, and so is on show now, or to one that left with nobody
told, or was made by an update and has the person's id for a key. And a member
list could be older than the events that follow: it is read from the registry in
the step that sends it, so the new client is right about everybody at once.

`SignInProofs` proves, for any number of sockets and keys and any values of the
caps (from `SignInAssumption` alone):

| Theorem | States |
| --- | --- |
| `SignInTypes` | `Spec => []TypeOK`, one row per identity, with or without `overlap` |
| `ChallengesEndWithConnection` | `Spec => []NoChallengeLeft`, with or without `overlap` |
| `CapsHold` | `Spec => []Caps`, with or without `overlap` |
| `OwnerSettles` | `Spec => OwnerKept`, with or without `overlap` |
| `NobodyDowngrades` | `Spec => NoDowngrade` |

The caps are checked against a snapshot that is some awaits old, so they are not
inductive. With `overlap`, others are admitted between the snapshot and the check.
`SignInInv` says that whoever was in it is still a session or gone for good
(`SeenAreSettled`), that a device has one session (`OneEach`, since an admission
replaces the older one of its device), and so that whoever passed the check goes
on passing it, whoever came in between (`Passed`); `FitsBesideSeen` follows.
The first two parts of `OwnerKept` need only the types: each handler reads the
owner once, at the start, and a takeover is the end of a rival.

Without `overlap`, at most one handler is past its probe (`OneAtATime`) and all it
read is still the case, stage by stage (`StillTrue`): the online sessions until the
admission, the owner until the grant, whether the key has a row until `enroll`
writes it, the refusal until it is acted on. `LoopFree` is what keeps the first: a
socket event or a timer comes only when no handler is half way. From it come the
limits themselves (`Limits`), an empty `Rivals` and `NoDowngrade`, which says
nothing of sign-ins that overlap.

`ChannelAccessProofs` proves, for any people, channels, requests and messages
(from `ChannelAccessAssumption` alone):

| Theorem | States |
| --- | --- |
| `TypesHold` | `Spec => []TypeOK` |
| `VersionsReturn` | `Spec => []VersionsComeBack` |
| `HeardByReaders` | `Spec => OnlyReadersHear` |
| `StoredWithLeave` | `Spec => SavedWithLeave` |
| `EveryoneToldAsItIs` | `Spec => []ToldAsItIs` |

The counters are the cardinalities of the requests under way (`CountsAgree`),
which is why a version is handed out again after the last of them and why no
counter leaves the naturals. The two action properties need three more parts of
`IInv`. `VersionsBehind`: a version that work carries is never ahead of the
counters, which only grow, so that a version that is equal when it is compared
was equal all along. `Addressed`: a message under way names a channel and an
author. `ReadsStand`: what was read under a version that still stands is what is
stored now, for the row and, of the people who were connected when the lookup
began, for those already asked and which of them may read. `SavedWithLeave` and
`OnlyReadersHear` are then the step that compares.

`ToldAsItIs` holds when everything has come to rest, so `TInv` says what is still
on its way. `refreshScreenRoles` publishes in the order it read, so once every
role that was written was read, the last request of its queue carries the roles
as they are, and with an empty queue everyone was told them (`RolesOnTheWay`,
which needs that the queue holds each waiting request once, `QueueIsWaiting`).
Once no request owes a reconciliation the lists are right (`ListsFollow`). A
sign-in crosses both: the snapshot it read is what is stored as long as its
versions stand, and what the session remembers is what its connection was told
(`ConnsInStep`), so it ends either with a snapshot that still stands or with the
resynchronisation that replaces it.

`DirectMessagesProofs` proves, for any devices of the two people, any set of slow
ones, and any messages, texts, clocks and crashes (from
`DirectMessagesAssumption`, which only adds to the types that `None` is neither a
copy nor a version):

| Theorem | States |
| --- | --- |
| `DirectMessagesTypes` | `Spec => []TypeOK` |
| `ReceiptsAreTrue` | `Spec => []ReceiptIsTrue` |
| `DeletesAreFinal` | `Spec => DeleteIsFinal` |
| `WaitingIsQueued` | `Spec => []PendingIsQueued`, if `Crashing \cap Mine = {}` |
| `FriendsAgree` | `Spec => []FriendsSeeTheSame`, if `Crashing \cap Mine = {}` |
| `VersionsTellText` | `Spec => []VersionTellsText`, if one device of the author edits and does not crash |

A receipt leaves when the documents of an operation have been written, perhaps
long after the operation, and later operations change the same documents in
between. `DiskInv` says why that is no harm: a document that does not wait to be
written is stored as it is (`DiskCurrent`), nothing that was known is ever
forgotten, in memory or between the disk and memory (`Remembered`), nothing is
about an id that was not given yet (`OnlyUsed`), and a receipt that waits is for
something in memory whose document either still waits or holds it (`Held`).
`Remembered` also says that a tombstone never stands beside a message that
shows, in memory or on disk; that part is what `DeleteIsFinal` and the crash need.

`FriendsInv` adds what relates the two people: whoever holds any trace of a
delete, down to an item on its way, has an author's device that shows it deleted
and either queues it or has had it stored by the friend (`DeletesGoOut`); the
device that sent a message still has it, and shows it as delivered only if it
arrived (`SenderKnows`). The hypothesis is that the author's devices do not
crash. It is what the run assumes too, and it is needed: such a device may lose
its queue while the month of the message was written (the hazard at
`dmPersistence.ts:139`, which no property claims).

`TextsInv` is about all that says something of a message: copies in memory and on
disk, queued operations, and items on their way (`Told`). A clock belongs to one
text wherever it is found (`OneText`), and the copy of the device that edits is
the latest of all (`Leads`), so that a new edit gets a clock that nothing has; a
stale copy that comes back from a disk or from a mate brings an old text with
its own clock. The hypothesis is what the run assumes, and it is needed. Two own
devices that edit one message with one clock hold two texts under one version
(the hazard at `dmModel.ts:278`). A device that crashes may forget an edit that
went out and, since the model leaves time out, give its clock to another text; in
the code the stamps follow the clock of the machine, so that takes one set back.

The same module proves, for all texts, clocks and marks, what the merge of two
copies of one message does; the two copies are any that are `WellFormed`, which
`TypeOK` of `DirectMessages` says of every copy a device holds:

| Theorem | States |
| --- | --- |
| `MergeWellFormed` | the merge keeps a copy `WellFormed` |
| `MergeAgrees` | two devices that send each other the copy they had end with the same text and fingerprint (a text nobody edited being the one that was sent) |
| `MergeIdempotent` | a copy that arrives twice changes nothing the second time |

They rest on one lemma that says, part by part, what a merge leaves. The order of
the "edited" mark and of the text matters: `MarkFirst`, which takes the mark
before it compares the texts, breaks `MergeAgrees` and is the mutant of
`VersionTellsText`.

`ServerLifecycleProofs` proves, for any number of servers and commands on one
directory, of changes and of failures (from `LifecycleAssumption` alone):

| Theorem | States |
| --- | --- |
| `LifecycleTypes` | `Spec => []TypeOK` |
| `FileCorrect` | `Spec => []FileIsCommitted` |
| `IdentityCorrect` | `Spec => []IdentityOnFile` |
| `HeldCorrect` | `Spec => []HeldWhileUsed` |
| `NoSaveCorrect` | `Spec => NoSaveOverServer` |
| `StopCorrect` | `Spec => StoppedIsSaved` |

One inductive invariant, `LifecycleInv`, serves them all, and each part needs the
others. The file holds what was committed because a connection outside a
transaction does (`RowsKnown`) and every export is made outside one, or by a
command that commits with it (`CommandState`). The identity stays on the file because nobody
else writes it; nobody else does because the lock names a server from its launch
until it closes the database (`DatabaseState`); and it is closed, and the lock
removed, exactly when the scope no longer has that release (`ScopeState`). That
last part also says that, while a pass runs, an entry is still to be tried or
was refused, which is what a stop that failed leaves behind.

`VoiceRoomsProofs` proves, for any people, sessions and rooms and any number of
waiting handlers (from `VoiceRoomsAssumption` alone):

| Theorem | States |
| --- | --- |
| `PresenceAlwaysListed` | `Spec => []PresenceIsListed` |
| `NoMoveLeft` | `Spec => []MovingIsWaiting` |
| `RostersAlwaysAgree` | `Spec => []RostersAgree` |
| `VoiceTypes` | `Spec => []TypeOK` |

A handler is a chain of functions on the state, so there is one lemma per
function about any record of that shape (`World`), and an action only says which
chain it is. `VoiceInv` says that every list was made for the presence its
person has now (`Fresh`), which `PresenceIsListed` follows from: a handler that
changes presence ends in the presence pass, and a list that a permission pass
made is made for the presence of that moment, however old the roles it read.
A move marks the room it leaves and the last waiting move of that session is
the one out of it (`MovesWait`), so two moves that overlap do not unmark each
other's room. Peer to peer nothing waits and there is no microphone, so each
list is also exactly the roles and the presence (`Composed`) and everybody is
shown right in it (`ShownRight`).

`SfuMediaProofs` proves, for any sessions, senders, rooms, identities and bounds
(from `SfuMediaAssumption` alone):

| Theorem | States |
| --- | --- |
| `SfuTypes` | `Spec => []TypeOK` |
| `OneRouterCorrect` | `Spec => []OneRouter` |
| `NothingLeaksCorrect` | `Spec => []NothingLeaks` |
| `MediaFollowsRoomCorrect` | `Spec => []MediaFollowsRoom` |
| `MutesSettleCorrect` | `Spec => []MutesSettle` |
| `HearsOnlyLiveCorrect` | `Spec => []HearsOnlyLive` |
| `NobodyUnheardCorrect` | `Spec => []NobodyUnheard` |

Each property speaks of a moment when the worker has nothing left to answer; the
part of `IInv` it follows from says what the queue still holds for it. A room has
one router on record or one under creation, and a transport that was asked of the
worker is on the first unless its room is gone (`Routed`). The last mute asked for
a session is the one that holds now, and covers each of its microphones
(`Settling`): a producer that is made brings such a mute along, which is why a
mute that changes during its creation does no harm. A transport in another room
has a mute in the queue whose end closes it, of the join or move into the room the
session is in now (`Following`); whoever asked for the list of producers knows
each one or has an announcement of it in the queue (`Heeding`). What is open is on
record (`Recorded`), and a start is of this generation or will find out that it is
not (`Started`). Most steps close some media and ask the worker for something:
`Thinned` and `Calm` say what they have in common, and one lemma for each shows
what is left of the parts after it, so that a step only says what it closes.

Only model-checked: the liveness properties (`ReconnectingEnds`, `AnonymousEnds`,
`ChallengeEnds`, `StopEnds`), since neither fairness nor ENABLED is within the
prover's reach. Every other property of a run that must pass is a theorem.

## What is not modelled

- Time. A timer may fire at any moment after it is set; the rule that a late
  heartbeat round drops nobody is therefore not expressed.
- The content of messages and settings.
- The away and the custom status, nickname and avatar changes. Of what they send,
  clients make what they make of a `setVisibility` that changes nothing, which is
  modelled for the people in `Hiders`.
- Budgets of failed sign-ins per address, bandwidth limits.
- A kicked person who joins again under a new user record: the record is a new
  user, and users are fixed here.
- Of direct messages: reactions, read markers, files, the friendship statements,
  the backup, the migration of old stores, the cap on tombstones, the hashes of
  days, and crashes of the author's app. Cryptography is assumed.
- Of voice: the AFK room, the limit of a room, bots and their grants, the switch
  between the two modes, the deletion of a room, the permission to speak and
  `VOICE_STATE_CHANGED`, and `deferCrossedLeave`.
- Of the SFU: ports and candidates, the backoff between starts, screens and
  cameras, bots, pauses by clients, call health, the interval after it is closed.
- Of access: topics of forums, private polls, history and search, the
  `CHANNEL_UPDATED` rows that `publishUpdate` sends unguarded, creation and order
  of channels, kicks, bots, voice, the default roles of a sign-in, disconnections.
- Of the lifecycle: updates, PM2, TLS, the content of the migrations.
- Crashes of the author's app in `DirectMessages`, equal clocks of two own devices
  that edit, and of the heartbeat the round that ran late: hazards of the code
  which no property here covers.
- Everything `PROJECT.json` lists as `not_modelled`, with the reason there:
  mostly the other domains of the plan, and code whose state is only a database
  row, a file or a view.

## Plan

1. `Connections`, `Presence`, `SignIn` with their runs and the theorems above
   (done).
2. `DmMessages`, `DirectMessages` with their runs and the theorems on the merge
   (done). Left: crashes of the author, reactions and read markers.
3. `ResourceScope`, `SqlJsDriver`, `ServerLifecycle`; `VoiceRooms`; `SfuMedia`;
   `ChannelAccess` with its theorems (done).
4. Theorems on `Connections`, `SignIn`, `DirectMessages`, `ServerLifecycle`,
   `VoiceRooms`, `SfuMedia` and `ChannelAccess` (done).
5. `BotInteractions` and `GameShare`: requests that end exactly once.
6. `ScreenAccess` on top of `SfuMedia`: who may consume a screen while permissions
   change.
7. `ClientConnection` for `NetworkClient.ts`: reconnection with backoff and late
   events of older sockets.
