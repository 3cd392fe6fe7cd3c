----------------------------- MODULE ChatService -----------------------------
(***************************************************************************)
(* The chat contents of the server: Service (nicknames, sessions),         *)
(* RoomManager, Room and User, the packet handlers that work on them       *)
(* (PacketHandler.cpp) and Session::ProcessDisconnect, which clears up     *)
(* after a client.                                                         *)
(*                                                                         *)
(* Every session has at most one recv completion and one disconnect        *)
(* completion in progress, on two different worker threads; nothing in     *)
(* Session orders the two, and both use Session::_user without a lock.     *)
(* Each critical section (RoomManager::_mutex, with Room::_sMutex inside;  *)
(* _mutexNickname; _mutexSession) is one action, and so is each unlocked   *)
(* use of _user.  What a Broadcast does to the receiving sessions is       *)
(* SessionSend's subject; here it can only disconnect them, which          *)
(* Disconnect allows at any time.                                          *)
(*                                                                         *)
(* Users and rooms are numbered by their id generators, so each is an      *)
(* index; the entries stay as history when the objects are destroyed.      *)
(***************************************************************************)
EXTENDS Naturals, Sequences, FiniteSets

CONSTANTS
  Sessions,     \* accepted connections, each used once
  Nicknames,    \* what clients may ask for in C_LOGIN
  RoomCapacity, \* Room::_maxUser: 100, the default of CreateRoom
  Workers,      \* worker threads: hardware_concurrency() in main
  Disciplined,  \* TRUE: clients log in once, first, and enter one room;
                \* FALSE: clients send any packet at any time
  MaxUsers,     \* bound on User objects
  MaxRooms      \* bound on Room objects

ASSUME ServiceAssumption ==
  /\ RoomCapacity \in Nat \ {0}
  /\ Workers \in Nat \ {0}
  /\ Disciplined \in BOOLEAN
  /\ MaxUsers \in Nat
  /\ MaxRooms \in Nat

VARIABLES
  life,          \* per session: _connected and the progress of DisconnectEx
  pc,            \* per session: where its recv chain is
  user,          \* per session: _user
  arg,           \* per session: the handler's own copy of a User pointer
  target,        \* per session: the room the handler works on
  packet,        \* per session: the packet being handled
  sessions,      \* Service::_sessions
  usedNickname,  \* Service::_usedNickname
  users,         \* User objects, by userId
  rooms,         \* Room objects, by roomId
  crash          \* why the process died, or "no"

handler == <<pc, arg, target, packet>>
vars == <<life, pc, user, arg, target, packet, sessions, usedNickname, users,
          rooms, crash>>

NoUser == 0
NoRoom == 0
UserIds == DOMAIN users
RoomIds == DOMAIN rooms

(* "closing": Disconnect ran, DisconnectEx is in flight; "leave", "clear"  *)
(* and "release" are the steps of ProcessDisconnect.                       *)
Lives == {"new", "connected", "closing", "leave", "clear", "release", "gone"}
Closers == {"leave", "clear", "release"}

(* "wait": a recv is posted; "loop": in ProcessRecv between two packets;   *)
(* "stopped": no recv will be posted again.                                *)
PCs == {"none", "wait", "loop", "stopped", "assignUser", "createRoom",
        "readUser", "enterRoom", "roomData", "usersList", "leaveRoom", "chat"}
Handlers == PCs \ {"none", "wait", "stopped"}

Causes == {"no", "nullUser", "nullRoom", "race", "heap", "assert"}

Init ==
  /\ life = [s \in Sessions |-> "new"]
  /\ pc = [s \in Sessions |-> "none"]
  /\ user = [s \in Sessions |-> NoUser]
  /\ arg = [s \in Sessions |-> NoUser]
  /\ target = [s \in Sessions |-> NoRoom]
  /\ packet = [s \in Sessions |-> "none"]
  /\ sessions = {}
  /\ usedNickname = {}
  /\ users = <<>>
  /\ rooms = <<>>
  /\ crash = "no"

-----------------------------------------------------------------------------
(* Mutants: plausible slips in the helpers and steps below, each of which  *)
(* must break one of the properties.                                       *)
AnyNickname(n) == TRUE                         \* no duplicate test
NotCounted(r) == rooms[r].userCount            \* _userCount++ forgotten
NeverLast(r) == FALSE                          \* never closes
OverfullPlace(r) ==                            \* > for >= in Room::Enter
  r \in RoomIds /\ rooms[r].state = "open" /\ rooms[r].userCount <= RoomCapacity
UnlistedPlace(r) ==                            \* enters a room by pointer
  r \in RoomIds /\ rooms[r].userCount < RoomCapacity
AlwaysCloses(s) == [life EXCEPT ![s] = "closing"]  \* Disconnect twice
StaysInRoom(s) == IF user[s] = NoUser THEN "release" ELSE "clear"
UserNotKept(s) == UNCHANGED user               \* session->_user not set
JoinsLate(u, r) ==                             \* user->room, but not in _users
  rooms' = [rooms EXCEPT ![r].userCount = @ + 1]

-----------------------------------------------------------------------------
(* Helpers. *)

Connected(s) == life[s] = "connected"
Open(r) == r \in RoomIds /\ rooms[r].state = "open"

(* Threads that are running a completion handler. *)
Busy == Cardinality({s \in Sessions : pc[s] \in Handlers})
        + Cardinality({s \in Sessions : life[s] \in Closers})
WorkerFree == Busy < Workers

Goto(s, from, to) ==
  /\ pc[s] = from
  /\ pc' = [pc EXCEPT ![s] = to]

Holds(s, u, r, p) ==
  /\ arg' = [arg EXCEPT ![s] = u]
  /\ target' = [target EXCEPT ![s] = r]
  /\ packet' = [packet EXCEPT ![s] = p]

(* The handler returned true: ProcessRecv looks at the next packet. *)
Return(s, from) == Goto(s, from, "loop") /\ Holds(s, NoUser, NoRoom, "none")

(* Session::Disconnect: only the first caller requests DisconnectEx. *)
Closed(s) == [life EXCEPT ![s] = IF @ = "connected" THEN "closing" ELSE @]

(* The handler of packet p returned false: ProcessRecv disconnects and     *)
(* returns.                                                                *)
Refuse(s, p) ==
  /\ Goto(s, "loop", "stopped")
  /\ Holds(s, NoUser, NoRoom, p)
  /\ life' = Closed(s)

(* A User is destroyed with its last shared_ptr: Session::_user, a copy in *)
(* a handler or a Room's _users.  ~User gives the nickname back.           *)
Referenced(u) ==
  \/ \E s \in Sessions : user[s] = u \/ arg[s] = u
  \/ \E r \in RoomIds : u \in rooms[r].users

NicknameFree(n) == n \notin usedNickname

Destroyed == {u \in UserIds : Referenced(u) /\ ~Referenced(u)'}

ReleaseNicknames ==
  LET names == {users[u].nickname : u \in Destroyed}
  IN  /\ usedNickname' = usedNickname \ names
      /\ crash' = IF names \subseteq usedNickname THEN crash ELSE "assert"

(* Nothing changes but the handler's own progress. *)
OnlyHandler ==
  UNCHANGED <<life, user, sessions, usedNickname, users, rooms, crash>>

(* What a client that keeps to the protocol has done so far. *)
LoggedIn(s) == \E u \in UserIds : users[u].ownerSession = s
Entered(s) ==
  \E u \in UserIds : users[u].ownerSession = s /\ users[u].room # NoRoom

-----------------------------------------------------------------------------
(* Connection. *)

(* ProcessConnect. *)
Connect(s) ==
  /\ life[s] = "new"
  /\ life' = [life EXCEPT ![s] = "connected"]
  /\ Goto(s, "none", "wait")
  /\ sessions' = sessions \union {s}
  /\ UNCHANGED <<user, arg, target, packet, usedNickname, users, rooms, crash>>

(* Disconnect from the send path or from RegisterRecv. *)
Disconnect(s) ==
  /\ Connected(s)
  /\ life' = Closed(s)
  /\ UNCHANGED <<handler, user, sessions, usedNickname, users, rooms, crash>>

(* A worker dequeues a recv completion with data.  A recv that is still    *)
(* pending when DisconnectEx completes brings none.                        *)
RecvData(s) ==
  /\ WorkerFree
  /\ life[s] \in {"connected", "closing"}
  /\ Goto(s, "wait", "loop")
  /\ OnlyHandler /\ UNCHANGED <<arg, target, packet>>

(* ... or one without. *)
RecvZero(s) ==
  /\ WorkerFree
  /\ Goto(s, "wait", "stopped")
  /\ life' = Closed(s)
  /\ UNCHANGED <<user, arg, target, packet, sessions, usedNickname, users,
                 rooms, crash>>

(* The batch is used up: RegisterRecv posts a new recv or gives up. *)
RecvDone(s) ==
  /\ Goto(s, "loop", IF Connected(s) THEN "wait" ELSE "stopped")
  /\ OnlyHandler /\ UNCHANGED <<arg, target, packet>>

-----------------------------------------------------------------------------
(* Handle_C_LOGIN. *)

MayLogin(s) == Disciplined => ~LoggedIn(s)

LoginRefused(s, n) ==
  /\ MayLogin(s)
  /\ ~NicknameFree(n)
  /\ Return(s, "loop")
  /\ OnlyHandler

(* UseNickname succeeds and the User is made. *)
UseNickname(s, n) ==
  /\ MayLogin(s)
  /\ Len(users) < MaxUsers
  /\ NicknameFree(n)
  /\ Goto(s, "loop", "assignUser")
  /\ usedNickname' = usedNickname \union {n}
  /\ users' = Append(users,
                     [nickname |-> n, ownerSession |-> s, room |-> NoRoom])
  /\ Holds(s, Len(users) + 1, NoRoom, "C_LOGIN")
  /\ UNCHANGED <<life, user, sessions, rooms, crash>>

(* session->_user = userRef; a User from an earlier login is let go. *)
KeepUser(s) == user' = [user EXCEPT ![s] = arg[s]]

AssignUser(s) ==
  /\ KeepUser(s)
  /\ Return(s, "assignUser")
  /\ UNCHANGED <<life, sessions, users, rooms>>
  /\ ReleaseNicknames

-----------------------------------------------------------------------------
(* Handle_C_CREATE_ROOM and Handle_C_ENTER_ROOM. *)

MayEnter(s) == Disciplined => LoggedIn(s) /\ ~Entered(s)

(* CreateRoom up to the lock: the id, and a Room nobody else can see.      *)
(* user->nickname is read here.                                            *)
MakeRoom(s) ==
  /\ MayEnter(s)
  /\ Len(rooms) < MaxRooms
  /\ user[s] # NoUser
  /\ Goto(s, "loop", "createRoom")
  /\ rooms' = Append(rooms, [state |-> "made", users |-> {}, userCount |-> 0])
  /\ Holds(s, user[s], Len(rooms) + 1, "C_CREATE_ROOM")
  /\ UNCHANGED <<life, user, sessions, usedNickname, users, crash>>

(* CreateRoom under the lock; its User argument goes away on return. *)
CreateRoom(s) ==
  /\ Goto(s, "createRoom", "readUser")
  /\ rooms' = [rooms EXCEPT ![target[s]].state = "open"]
  /\ Holds(s, NoUser, target[s], packet[s])
  /\ UNCHANGED <<life, user, sessions, users>>
  /\ ReleaseNicknames

EnterPacket(s, r) ==
  /\ MayEnter(s)
  /\ Goto(s, "loop", "readUser")
  /\ Holds(s, NoUser, r, "C_ENTER_ROOM")
  /\ OnlyHandler

(* The User argument of EnterRoom is copied from the session, null or not. *)
ReadUser(s) ==
  /\ Goto(s, "readUser", "enterRoom")
  /\ Holds(s, user[s], target[s], packet[s])
  /\ OnlyHandler

HasPlace(r) == Open(r) /\ rooms[r].userCount < RoomCapacity

(* RoomManager::EnterRoom and Room::Enter say no. *)
EnterRefused(s) ==
  /\ ~HasPlace(target[s])
  /\ Return(s, "enterRoom")
  /\ UNCHANGED <<life, user, sessions, users, rooms>>
  /\ ReleaseNicknames

(* Room::Enter: insert into the map, but count every call. *)
Counted(r) == rooms[r].userCount + 1
SetRoom(u, r) == users' = [users EXCEPT ![u].room = r]
Join(u, r) ==
  rooms' = [rooms EXCEPT ![r] = [state |-> rooms[r].state,
                                 users |-> rooms[r].users \union {u},
                                 userCount |-> Counted(r)]]

EnterRoom(s) ==
  /\ HasPlace(target[s]) /\ arg[s] # NoUser
  /\ Goto(s, "enterRoom", "roomData")
  /\ Join(arg[s], target[s])
  /\ SetRoom(arg[s], target[s])
  /\ Holds(s, NoUser, target[s], packet[s])
  /\ UNCHANGED <<life, user, sessions>>
  /\ ReleaseNicknames

(* GetRoomData: operator[] makes a null entry for a room that was closed.  *)
RoomData(s) ==
  /\ Open(target[s])
  /\ IF packet[s] = "C_CREATE_ROOM" THEN Return(s, "roomData")
     ELSE Goto(s, "roomData", "usersList") /\ UNCHANGED <<arg, target, packet>>
  /\ OnlyHandler

-----------------------------------------------------------------------------
(* Handle_C_LEAVE_ROOM and Handle_C_CHAT. *)

MayLeave(s) == Disciplined => Entered(s)

(* The guard of Handle_C_LEAVE_ROOM refuses whoever is in a room. *)
LeaveRefused(s) ==
  /\ MayLeave(s)
  /\ user[s] # NoUser /\ users[user[s]].room # NoRoom
  /\ Refuse(s, "C_LEAVE_ROOM")
  /\ UNCHANGED <<user, sessions, usedNickname, users, rooms, crash>>

LeavePacket(s) ==
  /\ MayLeave(s)
  /\ user[s] # NoUser /\ users[user[s]].room = NoRoom
  /\ Goto(s, "loop", "leaveRoom")
  /\ Holds(s, NoUser, NoRoom, "C_LEAVE_ROOM")
  /\ OnlyHandler

(* RoomManager::LeaveRoom and Room::Leave for a user in room r; the last   *)
(* one out closes the room.                                                *)
LastOne(r) == rooms[r].userCount = 1

LeaveRoom(u) ==
  LET r == users[u].room
      last == LastOne(r)
      room == rooms[r]
  IN  /\ rooms' =
           [rooms EXCEPT ![r] = [state |-> IF last THEN "closed" ELSE room.state,
                                 users |-> room.users \ {u},
                                 userCount |-> room.userCount - 1]]
      /\ crash' = IF last /\ ~Open(r) THEN "assert" ELSE crash

ChatRefused(s) ==
  /\ ~Disciplined
  /\ user[s] # NoUser /\ users[user[s]].room = NoRoom
  /\ Refuse(s, "C_CHAT")
  /\ UNCHANGED <<user, sessions, usedNickname, users, rooms, crash>>

ChatPacket(s) ==
  /\ MayLeave(s)
  /\ user[s] # NoUser /\ users[user[s]].room # NoRoom
  /\ Goto(s, "loop", "chat")
  /\ Holds(s, NoUser, users[user[s]].room, "C_CHAT")
  /\ OnlyHandler

(* The last use of _user in a handler, after which it replies or           *)
(* broadcasts and returns.                                                 *)
LastUse(s, at) ==
  /\ user[s] # NoUser
  /\ Return(s, at)
  /\ OnlyHandler

(* _user->room->GetUsersList() *)
ListUsers(s) == LastUse(s, "usersList")

(* LeaveRoom of a user without a room, which does nothing. *)
LeaveNothing(s) == LastUse(s, "leaveRoom")

(* The sender's id and nickname, and the broadcast. *)
SendChat(s) == LastUse(s, "chat")

(* An unknown id or a body that does not parse. *)
BadPacket(s) ==
  /\ ~Disciplined
  /\ Refuse(s, "none")
  /\ UNCHANGED <<user, sessions, usedNickname, users, rooms, crash>>

-----------------------------------------------------------------------------
(* ProcessDisconnect. *)

(* The tests of _user and _user->room. *)
FirstCloser(s) ==
  IF user[s] = NoUser THEN "release"
  ELSE IF users[user[s]].room = NoRoom THEN "clear" ELSE "leave"

ProcessDisconnect(s) ==
  /\ WorkerFree
  /\ life[s] = "closing"
  /\ life' = [life EXCEPT ![s] = FirstCloser(s)]
  /\ UNCHANGED <<handler, user, sessions, usedNickname, users, rooms, crash>>

(* _user->room->GetRoomManager() and LeaveRoom(_user).  A login of the     *)
(* same client may have put a User without a room there in the meantime    *)
(* (NullRoom) ...                                                          *)
LeaveOnDisconnect(s) ==
  /\ life[s] = "leave"
  /\ users[user[s]].room # NoRoom
  /\ life' = [life EXCEPT ![s] = "clear"]
  /\ LeaveRoom(user[s])
  /\ UNCHANGED <<handler, user, sessions, usedNickname, users>>

(* ... or has done so since GetRoomManager was called: LeaveRoom returns.   *)
LeaveNoRoom(s) ==
  /\ life[s] = "leave"
  /\ users[user[s]].room = NoRoom
  /\ life' = [life EXCEPT ![s] = "clear"]
  /\ UNCHANGED <<handler, user, sessions, usedNickname, users, rooms, crash>>

(* _user = nullptr *)
ClearUser(s) ==
  /\ life[s] = "clear"
  /\ life' = [life EXCEPT ![s] = "release"]
  /\ user' = [user EXCEPT ![s] = NoUser]
  /\ UNCHANGED <<handler, sessions, users, rooms>>
  /\ ReleaseNicknames

ReleaseSession(s) ==
  /\ life[s] = "release"
  /\ life' = [life EXCEPT ![s] = "gone"]
  /\ sessions' = sessions \ {s}
  /\ crash' = IF s \in sessions THEN crash ELSE "assert"
  /\ UNCHANGED <<handler, user, usedNickname, users, rooms>>

-----------------------------------------------------------------------------
(* How the process may die, besides the asserts. *)

(* Every packet but C_LOGIN makes its handler follow _user, and so do the  *)
(* later uses of it; Room::Enter follows its argument.                     *)
NullUser(s) ==
  \/ /\ pc[s] = "loop" /\ (MayEnter(s) \/ MayLeave(s))
     /\ user[s] = NoUser
  \/ pc[s] \in {"usersList", "leaveRoom", "chat"} /\ user[s] = NoUser
  \/ pc[s] = "enterRoom" /\ HasPlace(target[s]) /\ arg[s] = NoUser

(* GetRoomData's operator[] makes a null entry for a room that was closed; *)
(* a login may have replaced the User that ProcessDisconnect looked at.    *)
NullRoom(s) ==
  \/ pc[s] = "roomData" /\ ~Open(target[s])
  \/ life[s] = "leave" /\ users[user[s]].room = NoRoom

(* ProcessDisconnect and a handler use the shared_ptr _user, or the        *)
(* _user->room, at once and one of them assigns it: the other may get a    *)
(* dangling pointer.                                                       *)
RaceOnUser(s) ==
  \/ life[s] = "clear" /\ pc[s] \in {"loop", "assignUser", "readUser",
                                     "usersList", "leaveRoom", "chat"}
  \/ life[s] = "leave" /\ pc[s] = "assignUser"
  \/ life[s] = "leave" /\ pc[s] = "enterRoom" /\ arg[s] = user[s]
     /\ HasPlace(target[s])

(* S_ENTER_ROOM is given one message twice and S_CHAT one that lives on    *)
(* the stack: both are deleted once too often, and the heap may survive.   *)
HeapDamaged(s) == pc[s] \in {"usersList", "chat"} /\ user[s] # NoUser

Die(s) ==
  /\ \/ NullUser(s) /\ crash' = "nullUser"
     \/ NullRoom(s) /\ crash' = "nullRoom"
     \/ RaceOnUser(s) /\ crash' = "race"
     \/ HeapDamaged(s) /\ crash' = "heap"
  /\ UNCHANGED <<life, handler, user, sessions, usedNickname, users, rooms>>

-----------------------------------------------------------------------------
Login(s) ==
  \/ \E n \in Nicknames : LoginRefused(s, n) \/ UseNickname(s, n)
  \/ AssignUser(s)

Enter(s) ==
  \/ MakeRoom(s) \/ CreateRoom(s) \/ \E r \in 1 .. MaxRooms : EnterPacket(s, r)
  \/ ReadUser(s) \/ EnterRefused(s) \/ EnterRoom(s) \/ RoomData(s)

LeaveOrChat(s) ==
  LeaveRefused(s) \/ LeavePacket(s) \/ ChatRefused(s) \/ ChatPacket(s)

Finish(s) == ListUsers(s) \/ LeaveNothing(s) \/ SendChat(s)

Recv(s) ==
  RecvData(s) \/ RecvZero(s) \/ RecvDone(s) \/ BadPacket(s)

Close(s) ==
  \/ ProcessDisconnect(s) \/ LeaveOnDisconnect(s) \/ LeaveNoRoom(s)
  \/ ClearUser(s) \/ ReleaseSession(s)

Next ==
  /\ crash = "no"
  /\ \E s \in Sessions :
       \/ Connect(s) \/ Disconnect(s) \/ Recv(s)
       \/ Login(s) \/ Enter(s) \/ LeaveOrChat(s) \/ Finish(s)
       \/ Close(s) \/ Die(s)

Spec == Init /\ [][Next]_vars

-----------------------------------------------------------------------------
(* Properties. *)

UserType == [nickname : Nicknames, ownerSession : Sessions, room : Nat]
RoomType == [state : {"made", "open", "closed"}, users : SUBSET Nat,
             userCount : Nat]

TypeOK ==
  /\ life \in [Sessions -> Lives]
  /\ pc \in [Sessions -> PCs]
  /\ user \in [Sessions -> {NoUser} \union UserIds]
  /\ arg \in [Sessions -> {NoUser} \union UserIds]
  /\ target \in [Sessions -> Nat]
  /\ packet \in [Sessions -> {"none", "C_LOGIN", "C_CREATE_ROOM",
                              "C_ENTER_ROOM", "C_LEAVE_ROOM", "C_CHAT"}]
  /\ sessions \subseteq Sessions
  /\ usedNickname \subseteq Nicknames
  /\ users \in Seq(UserType)
  /\ rooms \in Seq(RoomType)
  /\ \A r \in RoomIds : rooms[r].users \subseteq UserIds
  /\ crash \in Causes

LiveUsers == {u \in UserIds : Referenced(u)}

(* A nickname is taken exactly as long as one User carries it, whichever   *)
(* thread drops the last reference to the User and in whatever order       *)
(* logins and destructions meet.                                           *)
NicknamesExact ==
  /\ usedNickname = {users[u].nickname : u \in LiveUsers}
  /\ \A u, v \in LiveUsers : users[u].nickname = users[v].nickname => u = v

(* The count of a room is never below its members and never above its      *)
(* limit: a room is not closed over the heads of members, and not          *)
(* overfilled by two clients that enter at once.                           *)
CountCoversMembers ==
  \A r \in RoomIds :
    /\ Cardinality(rooms[r].users) <= rooms[r].userCount
    /\ rooms[r].userCount <= RoomCapacity

(* A room that RoomManager dropped has no members left to be told of       *)
(* anything, although users still point at it.                             *)
ClosedRoomEmpty ==
  \A r \in RoomIds : rooms[r].state = "closed" => rooms[r].users = {}

(* Only a room whose host is on the way in is open and empty.  No other    *)
(* empty room may stay in _rooms: nothing would ever close it.             *)
EmptyRoomAwaitsHost ==
  \A r \in RoomIds :
    Open(r) /\ rooms[r].userCount = 0 =>
      \E s \in Sessions : /\ packet[s] = "C_CREATE_ROOM" /\ target[s] = r
                          /\ pc[s] \in {"readUser", "enterRoom"}

(* What C_CHAT relies on: the room a User points at is open and has the    *)
(* User among those a broadcast reaches, until ProcessDisconnect took the  *)
(* User out.                                                               *)
CurrentRoomHasUser ==
  \A s \in Sessions :
    user[s] # NoUser /\ users[user[s]].room # NoRoom /\ life[s] # "clear" =>
      Open(users[user[s]].room) /\ user[s] \in rooms[users[user[s]].room].users

(* The ASSERT_CRASH of ReleaseNickname, ReleaseSession and CloseRoom hold. *)
AssertsHold == crash # "assert"

(* A closed room never opens again and nobody enters it.                   *)
ClosedForGood ==
  [][\A r \in RoomIds : rooms[r].state = "closed" => rooms'[r] = rooms[r]]_vars

(* Handlers return false "only for abnormal packets": a C_LEAVE_ROOM from  *)
(* somebody who is in a room is not refused.                               *)
LeaveAccepted ==
  [][\A s \in Sessions :
       pc[s] = "loop" /\ pc'[s] = "stopped" /\ packet'[s] = "C_LEAVE_ROOM"
         => \A r \in RoomIds : user[s] \notin rooms[r].users]_vars

(* ProcessDisconnect "clears up the contents the session (user) has used": *)
(* once a session is released and its last handler is done, no User of it  *)
(* is left, so its nickname is free and no room counts it.                 *)
CleanedUp ==
  \A s \in Sessions :
    life[s] = "gone" /\ pc[s] \notin Handlers =>
      \A u \in LiveUsers : users[u].ownerSession # s

=============================================================================
