# BigeumTalkServer: TLA+ models and proofs

BigeumTalkServer is a chat server for Windows built on an I/O completion port
(IOCP): worker threads dequeue completion packets, sessions cut the TCP stream
into protobuf packets, and packet handlers log users in and move them between
chat rooms. This directory models the hand-written part of the server
(`src/BigeumTalkServer`), checks it with TLC and proves most of its safety with
TLAPS.

## 1. The system

| Component | State | Operations | Talks to |
|---|---|---|---|
| `Session` send path | `_connected`, `_sendQueue`, `_sendRegistered`, one `SendEvent` with its buffers and owner | `Send`, `RegisterSend`, `ProcessSend`, `HandleError` | called by every handler and every `Room::Broadcast` from any worker; WSASend |
| `Session` receive path, `RecvBuffer` | `_readPos`, `_writePos`, the bytes, one `RecvEvent` | `RegisterRecv`, `ProcessRecv`, `OnWrite`, `OnRead`, `Clean` | WSARecv; `PacketHandler` |
| `Session` end | `_connected`, `_user`, one `DisconnectEvent` | `Disconnect`, `RegisterDisconnect`, `ProcessDisconnect` | DisconnectEx; `RoomManager`, `Service` |
| `Service` | `_sessions`, `_usedNickname`, each under a mutex | `AddSession`, `ReleaseSession`, `UseNickname`, `ReleaseNickname` | sessions, handlers, `~User` |
| `RoomManager`, `Room` | `_rooms`; per room `_users`, `_userCount` | `CreateRoom`, `EnterRoom`, `LeaveRoom`, `CloseRoom`, `GetRoomData`, `Broadcast` | handlers, `ProcessDisconnect`; `Session::Send` of every member |
| `User` | nickname, owner session, `room` | destructor gives the nickname back | held by `Session::_user`, `Room::_users`, handlers' copies |
| `PacketHandler` | table of handlers | login, create, enter, leave, list, chat | all of the above |
| `SendBuffer`, chunk, manager | a chunk per thread, a shared pool of chunks | `Open`, `Close`, `Pop`, `Push` | `MakeSendBuffer` |
| `Listener` | 100 outstanding accepts | `StartAccept`, `RegisterAccept`, `ProcessAccept` | AcceptEx; `Service::CreateSession` |
| `Iocp`, `main` | the completion port, `hardware_concurrency()` workers | `Dispatch` in an endless loop | everything |

What is hard here:

- **Completion order.** A session has one recv, one send and one disconnect
  outstanding at most, but their completions run on different workers at the
  same time. The completion of a WSASend can run before WSASend has returned.
- **Lock-free hand-over.** `_sendRegistered` decides who may use the session's
  only `SendEvent`; the mutex guards just the queue.
- **Unlocked sharing.** `Session::_user` is read by the recv handler and cleared
  by `ProcessDisconnect` without any lock; `User::room` is written under the
  room's lock and read without.
- **Two critical sections where one is meant.** `CreateRoom`/`EnterRoom`,
  `EnterRoom`/`GetRoomData`, and the tests of `ProcessDisconnect`.
- **References.** `Session`, `User` and `Room` refer to each other by
  `shared_ptr`; a nickname is free again only when the last reference goes.
- **Outstanding I/O.** While the kernel has an `OVERLAPPED`, nothing but the
  reference in `IocpEvent::_owner` keeps its memory. A client that has just been
  accepted can end its session while the accepting worker still registers it.
- **Broadcasts under locks.** `EnterRoom` and `LeaveRoom` send to every member
  with the manager's lock held; chats and user lists take the room's lock alone.
- **Stream framing.** TCP cuts frames anywhere and the buffer moves its contents.

What makes each component correct:

- send path: exclusive use of the event, FIFO, no packet left behind, references
  kept while the kernel works;
- receive path: exact framing, no byte lost or moved wrongly, room for the next recv;
- service and rooms: a nickname is taken exactly while a user has it, counts and
  members agree, closed rooms are empty and stay closed, a session that ends is
  released and leaves nothing behind;
- sessions: none is freed while an operation is outstanding, each is opened,
  closed and released once, and an ended one is destroyed in the end;
- listener: an accept always offers a new session and is offered again;
- broadcasts: they walk a map that stands still, every member is told of every
  change once and in order, and no worker waits for ever.

The complete list of hazards, each with its line, is in `PROJECT.json`.

## 2. Modules

| Module | Models | Source |
|---|---|---|
| `PacketChannel` | what `Send` promises: a FIFO channel that may lose a failed batch and never repeats or reorders | abstract specification |
| `SessionSend` | the send path of one session, any number of threads | `Session.cpp` |
| `SessionSendProofs` | proofs about it | |
| `RecvStream` | the receive path of one session, `RecvBuffer` and the framing loop | `Session.cpp`, `RecvBuffer.cpp` |
| `RecvStreamProofs` | proofs about it | |
| `ChatService` | users, nicknames, rooms, the packet handlers and `ProcessDisconnect`, several sessions | `PacketHandler.cpp`, `Room.cpp`, `Service.cpp`, `User.cpp`, `Session.cpp` |
| `ChatServiceProofs` | proofs about it, for any clients and workers | |
| `ChatHistory` | the same with a record of which clients broke the protocol and whose handlers overlapped `ProcessDisconnect` | the same |
| `ChatHistoryProofs` | proofs about it: who is to blame for a missing or a left User, and for a wrong count | |
| `SendBufferPool` | the memory of outgoing packets, several threads | `SendBuffer.cpp`, `SendBuffer.h`, `MakeSendBuffer` |
| `SendBufferPoolProofs` | proofs about it | |
| `ConnectionLife` | what the server promises for the Session object of a connection: waits, opens, closes, is released, is destroyed | abstract specification |
| `SessionLifecycle` | listener, completion port, Service and the outstanding I/O of all sessions | `Listener.cpp`, `Iocp.cpp`, `Service.cpp`, `Session.cpp`, `BigeumTalkServer.cpp` |
| `SessionLifecycleProofs` | proofs about it: the accepts, the Service and the refinement | |
| `CompletionProofs` | proofs about its events: owners, completion packets, last references | |
| `RoomMembers` | what the room promises: users enter and leave at single instants | abstract specification of `Room`, `RoomManager` |
| `RoomBroadcast` | one room: its locks, notices, chats and user lists | `Room.cpp`, `PacketHandler.cpp` |
| `RoomBroadcastProofs` | proofs about it | |
| `MC*` | the same for TLC | |

Each specification has a section *Mutants*: operators that differ from the helper
they stand beside by a plausible slip (a forgotten test, increment or reset). They
are not part of the specification. For every checked property one of them, put in
place of its helper, makes TLC find the property violated.

### SessionSend

`connected`, `sendQueue`, `sendRegistered`, `sendBuffers` and `eventOwner` are the
fields; `posted` counts overlapped sends the kernel holds or whose completion is
still in the port's queue; `pc` says which statement a thread runs next. One
critical section of `_mutex`, or one atomic access, is one action:

| Action | Code |
|---|---|
| `Send`, `Push` | `Send`: the test of `_connected`, then push and `exchange(true)` under the lock |
| `RegisterSend`, `RegisterSendGone`, `Drain`, `PostSend`, `FailSend`, `ReleaseEvent`, `Unregister` | `RegisterSend`, in the order of its statements; the last three are the error branch |
| `Dequeue` | a worker gets the completion from the port |
| `ProcessSend`, `ProcessSendZero`, `CheckQueue` | `ProcessSend` |
| `Disconnect` | any other caller of `Session::Disconnect` |

`offered` keeps callers from sending one packet twice (the code's broadcast sends
one buffer to many sessions, but to each session once); `wire` records what
WSASend was given. The result of `HandleError` depends on the error: `"reset"`
stands for the two codes that disconnect, `"other"` for the rest.

### RecvStream

Cells of the buffer hold offsets of the stream instead of bytes, so "the right
byte" can be said exactly. The client chooses the size in each header, from 0 to
`MaxFrame`; a header read from a cell that is not the start of a frame gives any
size. `Arrive` (the kernel) fills any part of the room that the recv was given.
`OnWrite`, `LeaveLoop`, `Dispatch`, `Refuse`, `OnRead` and `Clean` follow
`ProcessRecv`; each branch that disconnects ends the receive path, as the `return`
in the code does. A body parser that is given a negative length (header size below
4) refuses it, which is how the protobuf library behaves.

### ChatService

`life[s]` is `_connected` and the progress of the disconnect completion, `pc[s]`
the progress of the recv completion of session `s`. The two run concurrently as far
as `Workers` threads allow. Users and rooms are entries of the sequences `users`
and `rooms`, numbered as the id generators do. A user is *referenced* while a
session, a handler's copy (`arg`) or a room's `_users` holds it; the action that
drops the last reference runs `~User` (`ReleaseNicknames`). What happens inside
`RoomManager::_mutex` is one action; every read of `session->_user` outside is
another. `crash` records why the process died: a null pointer followed
(`nullUser`, `nullRoom`), an unlocked read of `_user` that overlaps its assignment
(`race`), a heap corrupted by the two wrong `set_allocated_` calls (`heap`), or an
`ASSERT_CRASH`. Undefined behaviour is a choice between dying (`Die`) and going on.

`Disciplined = TRUE` restricts clients to the protocol: log in first and once,
enter or create a room only when in none, chat and leave only inside one, no
malformed packets. `FALSE` allows any packet at any time; `TRUE` is only used to find
violations that need no broken client. `ProcessDisconnect` tests `_user->room` before it
calls `LeaveRoom`, and `LeaveRoom` tests it again: if a login has put a User without a room
there in between, the process follows the null room (`NullRoom`) or, if it came later still,
`LeaveRoom` returns (`LeaveNoRoom`). A recv that completes
after DisconnectEx has completed carries no data (Winsock, external).

Left out: names, hosts and time stamps; the contents of replies and the fan-out of
`Broadcast` (SessionSend models what `Send` does; here a broadcast can only cause a
`Disconnect`, which is allowed at any time); `C_ROOM_LIST`, whose handler reads the
list and returns without sending its reply; it has no action.

### ChatHistory

`main` starts `hardware_concurrency()` workers, so a handler of a session and its
`ProcessDisconnect` do run at once, and clients may send what they like. Then handlers can
meet a null `_user`, a session can leave its User behind and counts can be wrong. This
module says exactly when. It adds two history variables, which no step reads, to `ChatService`:
`unruly`, the sessions whose client logged in twice, used another packet before its login, or
entered or created a room after it had entered one; and `overlapped`, the sessions
whose `ProcessDisconnect` met a handler of the same session at work. Its properties give every
fault to the session that suffers it: `FaultsAreOwn` (a null `_user` or room is followed,
or `_user` is used while it is assigned, only in a session of these sets),
`QuietSessionsCleanUp` (a session in neither leaves nothing behind) and
`OnlyReentryMiscounts` (count and members part only when an unruly session's User enters the
room it is in). None of them assumes anything about the number of workers or the other
clients: sessions share rooms, nicknames and locks, and a session that does nothing wrong must
not be hurt through them.

### SendBufferPool

`chunk[t]` is the thread's `LSendBufferChunk`, `popped[t]` and `buffer[t]` are locals
of `Open` and `MakeSendBuffer`, `open` and `usedSize` the fields of the chunks,
`pool` is `_sendBufferChunks`. A SendBuffer is its place: the chunk, the first byte,
the size. Reference counts are derived: a chunk is *referenced* while a thread or a
live SendBuffer refers to it, and the step that ends this (`SetChunk`, `Release`)
puts it into `returning`, from where `Push` takes it into the pool, as the deleter
`PushGlobal` does. Sessions and their queues appear only as "somebody still holds
the SendBuffer": `Release` is the last of them letting go, on any thread and at any
time after `Close`. `PacketSize` has the two 16-bit conversions of
`MakeSendBuffer`, `Needed` is what header and message take without them. A packet size below
the header's, which messages of 65532 to 65535 bytes have, would also let the header be
written past the SendBuffer; this write is not modelled. `AssertFails` says where an `ASSERT_CRASH` fails.

The module is separate from `SessionSend`: there a packet is a value, here it is
memory, and the only link is that a queued or posted packet keeps its SendBuffer
alive (`KernelBatchPinned` of `SessionSend`).

### SessionLifecycle

`accept`, `acceptSession` and `stack` describe the `AcceptEvent`s: the stage, the
`_session` it carries, and the sessions that the locals of the thread working on it
hold (`ProcessAccept` has one, every frame of a recursive `RegisterAccept` another).
`recv`, `send` and `disc` are the stages of the three events of a session, `owner`
the events whose `_owner` is set, `port` the queue of completion packets, `sessions`
and `sessionCount` the Service's. `user` says that a User refers to the session
(`User::ownerSession`), the cycle that `ProcessDisconnect` has to break.

| Action | Code |
|---|---|
| `StartFails`, `StartAccept`, `StartWorkers` | `Service::Start`, `Listener::StartAccept`, `main` |
| `RegisterAccept`, `AcceptFails`, `CreateFails` | `RegisterAccept`: AcceptEx pending; failed at once, so it calls itself; no session, and the null pointer is followed |
| `ProcessAccept`, `RefuseClient`, `ProcessConnect`, `AddSession`, `FirstRecv` | `ProcessAccept` and `Session::ProcessConnect`, statement by statement |
| `RegisterRecv`, `PostRecvAgain`, `ProcessRecv`, `ProcessRecvZero`, `CopyUser`, `HandlePacket`, `RefusePacket`, `HandlerFaults` | the recv loop; `CopyUser`: a handler takes its own reference to the User, to enter a room |
| `Send`, `PostSendGone`, `PostSend`, `PostSendFails`, `ProcessSend` | one send in flight; `PostSendGone`: `RegisterSend` finds the session disconnected |
| `ProcessDisconnect`, `ClearUser`, `ReleaseSession` | `ProcessDisconnect` |
| `Destroy` | `~Session`, when nothing refers to the object |
| `Kernel*` | Windows (external) |

`Disconnect` is part of every step whose code calls it: the first caller requests
DisconnectEx, which may fail at once; then nobody is told, because the return value
is dropped. Destroying is a step of its own that follows the last reference, since any
thread may be the one that drops it; an address is used again only after it.

`Handled` is the set of packets with an entry in `GPacketHandler`. `PacketHandler::Init`
is never called, so the program runs with `{}` (`life_handlers`, finding 4). The run
`life` and all of `ChatService` and `RoomBroadcast` take the handlers as registered,
which is what the rest of the code is written for; all theorems hold for either.

Left out: bytes and queues (`SessionSend`, `RecvStream`), what handlers do
(`ChatService`). A User that a room keeps after its session ended (its second login,
its second room) is `stuck`, and so is one that a handler puts into a room with its own copy
after `ClearUser`: `HandlePacket` may make it so at any packet, an
over-approximation that `ChatService` makes precise. Any handler may send a reply, logged in
or not. A thread that only sends is not
counted in `Busy`, for it is a handler or a `ProcessDisconnect` that is counted
already.

### RoomBroadcast

`ChatService` takes every section of `RoomManager::_mutex` whole; `RoomIsAtomic` (section 5)
shows that nobody can tell, as far as members go. Here it is cut where
a thread may wait or lets others in: `EnterRoom`/`LeaveRoom` take the manager's lock,
`Enter`/`Leave` change the map, `Broadcast` takes the shared lock, `SendNext` visits
one member, `EndBroadcast` lets go. Exclusive sections of `Room::_sMutex` and those of
`Session::_mutex` take no other lock and are one step each. `CloseRoom` runs below the manager's
and the room's lock and takes none.

`due`, `misled`, `known` and `lost` record what clients were told: the notices a member
has still to get, in the order of the changes, and which users it heard of. They are
history only: no guard reads them. Clients enter once, after their login; what happens
otherwise is in `ChatService`.

## 3. Runs

| Run | Shows | Bounds |
|---|---|---|
| `send_safety` | `ExclusiveSendEvent`, `KernelBatchPinned`, refinement of `PacketChannel` | 3 threads, 4 packets, both kinds of error |
| `send_delivery` | `NoStrandedPacket`, `Delivered` (liveness) when failures disconnect | 2 threads, 3 packets |
| `send_stranded` | violation: see finding 1 | 2 threads, 2 packets |
| `recv` | `RoomForNextRecv`, `UnreadIntact`, `MoveDisjoint`, `HeaderAtFrameStart`, `FrameDispatched` (liveness) | buffer of 3 x 4 bytes, frames up to 3, 14 bytes, both kinds of error |
| `chat_history` | nicknames, counts, closed rooms, asserts, whatever clients do; `FaultsAreOwn`, `QuietSessionsCleanUp`, `OnlyReentryMiscounts` | 2 sessions, 2 nicknames, 2 users, 2 rooms of 2, 2 workers, any packets |
| `life` | `OutstandingPinned`, `PortExact`, `PendingAcceptIsFresh`, `ServiceExact`, `SessionsAccounted`, refinement of `ConnectionLife`, `ClosedIsDestroyed` and `AcceptsResume` (liveness) | 1 accept, 2 sessions, 2 workers, every call may fail, recursion of 2 |
| `life_handlers` | violation: see finding 4 | no faults, no handlers |
| `rooms` | `NoticesInOrder`, `ViewExact`, `OperationsEnd` (liveness) | 3 users, room for 2, 3 packets |
| `pool` | `LiveDisjoint`, `NoChunkLost`, `ShortOnlyByOverflow`, `OnlyOversizeKills` | 2 threads, 3 chunks of 4 bytes, 3 SendBuffers, messages of 0, 2, 4 and 16 bytes, a header of 1, lengths modulo 16 |
| `pool_truncated` | violation: see finding 5 | the same, messages of 2 and 18 bytes |
| `chat_leave`, `chat_cleanup` | violations: see findings 2 and 3 | 2 sessions, 2 workers, disciplined clients |

Why the bounds are enough. *Send*: the event has one user at a time, so two threads
can contend for it while a third is in between; a batch of two packets and one
that arrives behind it need three packets, the fourth lets a second batch form.
*Recv*: the sizes keep the code's relations (a frame is at least one byte smaller
than `BUFFER_SIZE`; a header is smaller than a frame), the stream is longer than
the buffer, so moves and rewinds both happen; three `BufferSize`s are the
smallest buffer for which `Clean` is right and the code has ten. The proofs
remove these bounds. *Chat*: two sessions suffice for every race on a room or a
nickname. Two workers let a session's handler and its disconnect overlap, or handlers
of two sessions; while both are in one session the other cannot move, but it can as soon as one
of the two is done and the other still holds what it read, which is how one session could hurt
another. More workers are left to the theorems, which cover every number for all properties of
this run. Two rooms let a user be in two and let a room
be made after another was closed, and with a limit of two users one client can log in twice
or each can once, and enter as often as they like.

*Pool*: packets of 1 and 3 bytes fill a chunk of 4 exactly, two of 3 do not fit, one
of 5 fits none; with three chunks both threads have one and the third is kept by SendBuffers, returns and is taken again. `Word` is 16 in place of 2^16: a message of 16 bytes has
the length 0 after the first conversion, so its packet is a header, as that of 2^16 bytes is.
The case that header and length overflow together (a message of 15 here, of 65532 to 65535
bytes in the code) gives packets of no bytes; they take no place in a chunk, so the number of
states grows without a new arrangement, and only the theorem `PacketsShortOnlyByOverflow`
covers them. A thread that finds all chunks or all
SendBuffers in use waits, where the program would allocate: these are bounds.

*Life*: one session is connected while another waits in the accept, which is offered
again while the first ends; the address of the first is then used again. Two workers
let any two of accept, recv, send and disconnect of one session overlap. If both
addresses are in use `RegisterAccept` waits, where the program would allocate
(`OutOfAddresses` in the liveness properties). `StackDepth` bounds the recursion of
`RegisterAccept`; reaching it is the crash that the code has there. In the run it is two, so
the first AcceptEx that fails after an accept was processed is fatal and a recursion that
recovers is not reached: `AcceptsResume` is about refused clients there.

*Rooms*: with a capacity of two and three users, somebody is refused or comes in after
another one left, and every pair of enter, chat, list and leave overlaps. Three
packets and three disconnects allow six operations.

Deadlock is not checked by TLC's own test: clients owe nothing, so a state in which all
workers rest and no client acts is a proper end, and so is a process that died. What
a deadlock of the workers would be is said by `OperationsEnd`.

### Fairness

- `send_delivery`: weak fairness of every thread inside the send path (no step
  blocks for good: the mutex is held for a few statements) and of dequeuing (the
  workers loop for ever in `Dispatch`). Callers and clients owe nothing.
- `recv`: weak fairness of the worker inside `RegisterRecv` and `ProcessRecv`.
- `life`: weak fairness of dequeuing (workers loop for ever and the port is first in,
  first out, so the oldest packet is what a free worker gets), of each accept's and
  each session's work in hand, of `~Session`, and, of the kernel, only that it ends the operations
  of a session whose disconnect was requested. A client need not come, send or go.
- `rooms`: weak fairness of each worker. A worker that waits for a lock is not
  promised it by weak fairness if others take it again and again, but requests are
  bounded (`MaxRequests`, one disconnect per session), so the others stop; nothing is
  claimed about starvation under endless load, where `shared_mutex` promises nothing.

## 4. Findings

1. **Stranded packet** (`send_stranded`, `Session.cpp:209`). If WSASend fails with
   an error that `HandleError` only logs, the error branch stores FALSE in
   `_sendRegistered` outside the mutex and never looks at the queue. A packet
   pushed by another thread in the meantime stays queued with nobody in charge
   until some later `Send`.
2. **Leave refused** (`chat_leave`, `PacketHandler.cpp:130`). The guard is the wrong
   way round: whoever is in a room is disconnected instead of leaving it.
3. **Login overlapping a disconnect** (`chat_cleanup`, `Session.cpp:237`).
   `ProcessDisconnect` has looked at `_user` already when the login handler
   assigns it: the user, its nickname and the session are never freed.
4. **No handlers** (`life_handlers`, `PacketHandler.h:87`). `PacketHandler::Init` is
   called from nowhere, `GPacketHandler` stays empty, and every client that sends a
   whole frame is disconnected.
5. **Messages of 2^16 bytes and more** (`pool_truncated`, `PacketHandler.h:164`).
   `MakeSendBuffer` takes the length modulo 2^16 and ignores that `SerializeToArray` then
   refuses to write: the SendBuffer has the size of the remainder and its body is whatever
   was in the chunk, although the comment above promises the serialized content.
   `S_ENTER_ROOM` and `S_CHAT` grow with what clients send. (A packet above the
   chunk size but below 2^16 kills the process, which `OnlyOversizeKills` says.)

With several workers and clients that do not keep to the protocol more goes wrong: a handler
that overlaps its session's `ProcessDisconnect`, or comes before the login, follows a null
`_user` (`PacketHandler.cpp:57`, `Room.cpp:228`); a client that enters its room again is counted
twice (`Room.cpp:56`), one that enters a second room stays a member of the first for ever
(`Room.cpp:54`), and the first User of one that logs in twice stays in its room
(`PacketHandler.cpp:34`). No comment of the repository says otherwise of these cases, so they are
no runs of their own; the steps are in the model (`NullUser`, `NullRoom`, `RaceOnUser`), the run
`chat_history` takes them, and its three properties about blame say that these are the only
ways, and that each harms the session itself (or the count of the room it re-entered) and no
other. A process that dies takes all sessions along, of course: `FaultsAreOwn` says whose
handler it was.

The model also has, as steps and not as findings, two ends of a session that are only
logged or not even that: WSARecv that fails with an unexpected error (`Session.cpp:152`)
and DisconnectEx that fails at once (`Session.cpp:116`). `SessionsAccounted` shows that
they are the only two ways to stay in the Service unread.

## 5. Proofs

All are for every value of the constants that satisfies the named assumptions.

`SessionSendProofs`: any set of threads and packets, any subset of errors.
`ExclusiveSendEvent` alone is not inductive: a thread that wins the exchange must
know that nobody else is using the event. `Inv` adds *Baton* (the flag is on while
somebody uses the event, so the exchange can only be won when nobody does) and
*Contents* (at each point of the path the queue and the event hold what the
current user expects: before the drain the queue is not empty and the event is,
and an unused event is empty). `TypeStep` and `InvStep` go through the actions one by
one. From `Inv`:

- `TypeCorrect`, `SendEventIsExclusive`, `KernelHoldsReferences`, and `NoEmptySend`: WSASend
  never gets an empty gather list, whose completion of zero bytes `ProcessSend` would take
  for the end of the connection;
- `SendImplementsChannel`: the packets of a drained batch (`Unsent`) in front of the
  queue are the channel's `pending`. A drain maps to a stutter, a successful
  WSASend to `Transmit` of the whole batch, the clearing after a failure to `Lose`,
  a push to `Accept`. `Contents` shows that the batch is not empty when it is sent
  or lost;
- `NothingIsStranded`, under the assumption `SendErrors \subseteq {"reset"}` that
  `send_delivery` makes too (`HandleError` disconnects on every error that occurs):
  *Charge* says that on a connected session a non-empty queue implies the flag, the
  flag implies a thread on the path or an outstanding send, and nobody is in the
  branch of an error that leaves the session connected. Without the assumption
  `send_stranded` violates it.

`RecvStreamProofs`: any header, frame and buffer sizes with
`HeaderSize <= BufferSize` and `MaxFrame < BufferSize`, at least three
`BufferSize`s, any stream. `Inv` consists of `TypeOK`, *Layout* (cells between
`readPos` and the end of what has arrived hold consecutive bytes; the next frame
starts at the first byte the loop has not passed) and *Room* (what may be left over
when the loop ends is less than one `BufferSize`). From it: `TypeCorrect`,
`AlwaysRoom`, `StreamIntact`, `CopyIsSafe`, `FramingIsExact`,
`OverflowUnreachable`.

`ChatServiceProofs`: any sessions, nicknames, capacity and number of workers,
clients that keep to the protocol or do not. `Inv` is the conjunction of all
type, nickname, room and assert invariants of `chat_history` and `ClosedRoomEmpty`, which need each other (a count is not decremented
below its members because the User that leaves is a member; its room is still open
because nobody else can have closed a room that counts this member; a closed room
is empty because the last one out closed it), and of three facts about the
handlers: *HandlerShape* (a handler has a User in hand only at the steps that use
it; the room it made is still hidden and its own), *Ownership* (no session points
at the User of another one, so a User is taken out of a room once) and
*Registered* (a session is in `_sessions` until it is released). The lemmas first
say what each action does to `users` and `rooms` (`EnterRoomEffect`,
`LeaveEffect`, ...), then what a step leaves alone (`OtherSessions`, `UserFrame`,
`RoomFrame`, `MemberStays`), then take the parts of `Inv` one by one. For the
nicknames, `NoResurrection` shows that a User without references never gets one
again and `NothingLost` that none is lost where `~User` is not run. Results:
`TypeCorrect`, `NicknamesAreExact`, `CountsCoverMembers`, `RoomsCloseWhenEmpty`,
`EmptyRoomsAwaitHost`, `CurrentRoomReachesUser`, `NoAssertFires`,
`RoomsStayClosed`.

`ChatHistoryProofs`: the same constants; nothing is assumed of the number of workers or of
clients. To `Inv` it adds two groups of facts, each about the sessions it does not exclude.
*Discipline* speaks of sessions that are not in `unruly`: such a session has made one User
(`OneLogin`), has logged in when it works on a packet and has no room when it is on its way into
one (`FollowsProtocol`), a room lists its User only if the User points at it
(`ListedWhereItPoints`), and as long as nobody is unruly counts are exact (`CountsExact`). The
step that matters is `EnterRoom`: it enters a newcomer (`Newcomer`), so it adds a member when it adds one to
the count (`SurplusStep`). *Calm* speaks of sessions that are not in `overlapped`: they run no
handler when their end is processed (`NoHandlerAtEnd`), `_user` is set from the login to
`ProcessDisconnect` (`LoginIsKept`), what a handler or `ProcessDisconnect` read before still
holds (`NothingStale`, which needs that a room with a member is open, from `Inv`), and, for
sessions in neither set, no room lists them past `LeaveRoom` (`RoomIsLeft`). `WhoseFault` draws
from both that a null pointer followed or a race belongs to a session of one of the sets.
Results: `FaultsAreAlwaysOwn`, `QuietSessionsLeaveNothing`, `ReentryOnlyMiscounts`, and, beside
what runs check, `CountsAreExact` and `MembersOfOneRoom`.

`SendBufferPoolProofs`: any threads, chunks, buffers and sizes. `Inv` joins
`LiveDisjoint`, `NoChunkLost`, `OnlyOversizeKills`, `PooledIdle` and `ChunkHasOneThread` with what makes them inductive: *Below* (a finished
SendBuffer ends at or below the `_usedSize` of its chunk), *Filling* (the one being
filled begins there), *OpenWhileFilling* (a thread's chunk is open exactly then),
*References* (a chunk just popped has no SendBuffer, so `Reset` frees nothing that
is alive) and *ThreadShape*. Results: `TypeCorrect`, `BuffersAreDisjoint`,
`PooledChunksAreIdle`, `ChunksAreThreadLocal`, `ChunksAreKept`,
`OnlyOversizeIsFatal`, and `PacketsShortOnlyByOverflow`, for messages of any size: the
SendBuffer has exactly the bytes of header and message if these are below 2^16, fewer if not,
and ends inside its chunk either way.

`SessionLifecycleProofs`: any finite set of accepts and addresses, any number of
workers, any handlers and faults. Its properties need to know who keeps a session
at every stage, so `Inv` has, besides `TypeOK` and `ServiceExact`: *Unborn* (nothing is
known of an address without a session), *Accepting* (the session of an accept is
untouched, and connected or in the Service exactly after the statements that make it
so), *Own1* (it belongs to that accept alone), *InService* (a session that is
connected or being disconnected is in the Service or just before `AddSession`),
*ClosedOnce* (a disconnect under way means not connected), *Pinned* (an operation the
kernel or the port has is recorded in `_owner`) and
`SessionsAccounted`. One lemma per group of actions shows that each conjunct
is kept. `LifeIsImplemented` maps each session to its stage in `ConnectionLife`; a
step moves at most one session, because a step disconnects or destroys at most one.

`CompletionProofs` goes on from that `Inv`. *Owned* is the converse of *Pinned*: an event
has an `_owner` only while the kernel or the port has it. The two give `OutstandingIsPinned`
in both directions, so no session is freed too early and none keeps itself alive.
`PortIsExact`: the packets in the port are, without duplicates, the operations that ended
and were not dispatched. A packet appended is a new one (`QueuePacket`), because its event
was with the kernel; a packet taken was there once (`TakePacket`); and no request is made
while a packet of the same event is queued, because `Disconnect` requests only if
the session was connected (*ClosedOnce*) and a recv or a send is posted again only by the
thread that took its packet. `NothingElseKeepsIt` adds *Stacks* (what the locals of the
thread on an accept hold) and lists everything that may still refer to a session after
`ReleaseSession`: its own unfinished operations, its User, or the accept that is about to
take the next session. It is the safety side of `ClosedIsDestroyed`: with weak fairness of
those operations nothing is left but the exceptions that property names.

`RoomBroadcastProofs`: any users, capacity and number of packets. `Inv` joins *Places*
(where the two threads of a user may be, and which packet they have there), *Locks*
(the manager is held exactly from `LockManager` to the end of the broadcast, the
readers are the threads inside one, and what they have still to visit is in the map),
*Roles* (who is in the map, entered or disconnected at each place), *Due* (what a member
has still to get is exactly the notice being broadcast, until its turn comes) and *View*
(every member is known to the others, about to be, or on a list under way, and whoever
is known and no member was reported gone, or is about to be).
Since a notice is sent to its end
before the manager is free, at most one is on the way, which is why notices cannot
overtake each other. Two theorems are the safety side of `OperationsEnd`: `LocksAreOrdered`
(who waits for a lock waits for a thread at work, and the chain of those who wait ends after
two), and `OperationsAdvance` (a step of a working thread brings its operation nearer to
the end, or its broadcast to the next member; no step of another thread sends it back).
What they leave to TLC is that fairness then ends all operations. `RoomIsAtomic` maps the
room to `RoomMembers`: the steps `Enter` and `Leave` are the instants, all others stutter.
*Membership* adds to `Inv` what the tests made before have to promise: a room that
`EnterRoom` found open is open at the insertion, and a user that `ProcessDisconnect` found in
the room is in it until its `Leave`.

`BatchNeverEmpty`, `NoOverflow`, `ClosedRoomEmpty`, `PooledIdle`, `ChunkHasOneThread`,
`IterationSafe`, `ImplementsMembers` and what is defined beside its theorem in a proof module
are proved, for all values of the constants, and therefore not in a run as well.

Only model-checked: liveness (`Delivered`, `FrameDispatched`, `ClosedIsDestroyed`,
`AcceptsResume`, `OperationsEnd`), which the prover cannot reach because it needs ENABLED.
Every invariant and every refinement that a passing run checks is proved.

## 6. Not modelled

`SocketUtils`, `Global`, `pch` (start-up only), `Protocol.pb.*` (generated),
`Libraries` (vendored protobuf), the dummy client (only its project file is in the
repository), `RegisterConnect` (a stub that returns false), `~RoomManager` and
`~Service` (the process never ends normally), `IsExistNickname` and `CanEnter`
(declared, never defined), `Session::EnterRoom` (the same).

Of the repository's lines about 77 000 are vendored protobuf headers (`Libraries`) and
code generated by protoc (`Protocol.pb.*`); the hand-written server has about 2 000. The
models cover the latter and treat the former as external, so the share of all lines
that is mapped is small and cannot become large.

## 7. Plan

1. done: `SessionSend`, `PacketChannel`, `RecvStream`, `ChatService`, `SendBufferPool`.
2. done: `SessionLifecycle` with `ConnectionLife`; `RoomBroadcast`, which holds
   both the locks and what clients see.
3. done: all their safety invariants proved; `ChatHistory`, which says who is to blame where
   several workers or unruly clients break something, checked and proved.
4. done: the completion port and the owners of events; order of locks; the room refines
   `RoomMembers`.
5. left: that each room of `ChatService` refines `RoomMembers` too, for clients that keep to
   the protocol; the safety side of `AcceptsResume`, `Delivered` and `FrameDispatched` (that
   no step sends an operation back), as it is done for `OperationsEnd`.
