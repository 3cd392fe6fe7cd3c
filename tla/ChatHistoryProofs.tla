-------------------------- MODULE ChatHistoryProofs --------------------------
(***************************************************************************)
(* Proofs about ChatHistory for any sessions, nicknames, capacity, number  *)
(* of workers and kind of client: what holds of a session that kept to the *)
(* protocol, or whose ProcessDisconnect met no handler, whatever all the   *)
(* other sessions do.                                                      *)
(*                                                                         *)
(* A client that kept to the protocol has one User, which entered once; so *)
(* the room lists it once and counts it once.  Where no handler overlapped *)
(* ProcessDisconnect, each finds _user and _user->room as the other left   *)
(* them.  Both together: a session that is gone left nothing behind.       *)
(***************************************************************************)
EXTENDS ChatHistory, ChatServiceProofs

(* A client that keeps to the protocol makes one User.                     *)
OneLogin ==
  \A u, v \in UserIds :
    /\ users[u].ownerSession = users[v].ownerSession
    /\ users[u].ownerSession \notin unruly
    => u = v

(* At work on a packet it has logged in, and on its way into a room it has *)
(* no room yet.                                                            *)
Entering == {"createRoom", "readUser", "enterRoom"}
FollowsProtocol ==
  \A s \in Sessions \ unruly :
    /\ pc[s] \in Handlers \ {"loop"} => LoggedIn(s)
    /\ pc[s] \in Entering => ~Entered(s)

(* Its User is listed in the room it points at, and in no other.           *)
ListedWhereItPoints ==
  \A r \in RoomIds : \A u \in rooms[r].users :
    users[u].ownerSession \notin unruly => users[u].room = r

(* Rooms count their members, as long as all clients kept to it.           *)
CountsExact ==
  unruly = {} =>
    \A r \in RoomIds : rooms[r].userCount = Cardinality(rooms[r].users)

Discipline ==
  OneLogin /\ FollowsProtocol /\ ListedWhereItPoints /\ CountsExact

(* Without an overlap a session whose end is processed runs no handler ... *)
NoHandlerAtEnd ==
  \A s \in Sessions \ overlapped :
    pc[s] \in Handlers => life[s] \in {"connected", "closing"}

(* ... the User of a login is in _user until ProcessDisconnect clears it   *)
(* ...                                                                     *)
LoginIsKept ==
  \A s \in Sessions \ overlapped :
    /\ LoggedIn(s) /\ pc[s] # "assignUser" /\ life[s] \notin {"release", "gone"}
         => user[s] # NoUser
    /\ life[s] \in {"release", "gone"} => user[s] = NoUser

(* ... and what a handler and ProcessDisconnect read before still holds.   *)
NothingStale ==
  \A s \in Sessions \ overlapped :
    /\ pc[s] = "enterRoom" => arg[s] = user[s]
    /\ pc[s] = "roomData" =>
         /\ user[s] # NoUser /\ target[s] # NoRoom
         /\ users[user[s]].room = target[s]
    /\ life[s] = "leave" => users[user[s]].room # NoRoom

(* Past LeaveRoom no room has a User of the session, if both are given.    *)
Past == {"clear", "release", "gone"}
RoomIsLeft ==
  \A s \in Quiet : life[s] \in Past =>
    \A r \in RoomIds : \A u \in rooms[r].users : users[u].ownerSession # s

Calm == NoHandlerAtEnd /\ LoginIsKept /\ NothingStale /\ RoomIsLeft

(* The history only grows.                                                 *)
LEMMA HistoryGrows ==
  ASSUME Record
  PROVE  /\ unruly \subseteq unruly' /\ overlapped \subseteq overlapped'
         /\ Quiet' \subseteq Quiet
         /\ \A s \in Sessions : s \notin unruly' => ~BreaksProtocol(s)
         /\ \A s \in Sessions : s \notin overlapped' => ~Overlaps(s)
BY DEF Record, Quiet

-----------------------------------------------------------------------------
(* Clients that keep to the protocol. *)

(* Whoever has a User in hand to enter a room with, has one without a room *)
(* so far, which no room lists.                                            *)
LEMMA Newcomer ==
  ASSUME Inv, Discipline, NEW s \in Sessions, s \notin unruly, EnterRoom(s)
  PROVE  /\ users[arg[s]].ownerSession = s
         /\ users[arg[s]].room = NoRoom
         /\ \A r \in RoomIds : arg[s] \notin rooms[r].users
<1>1. arg[s] \in UserIds /\ arg[s] # NoUser /\ pc[s] = "enterRoom"
  BY EnterRoomEffect DEF Inv, EnterRoom, Goto
<1>2. users[arg[s]].ownerSession = s
  BY <1>1 DEF Inv, Ownership
<1>3. users[arg[s]].room = NoRoom
  BY <1>1, <1>2 DEF Discipline, FollowsProtocol, Entering, Entered
<1>4. \A r \in RoomIds : r # NoRoom
  BY Entries DEF Inv, NoRoom
<1>5. QED
  BY <1>2, <1>3, <1>4 DEF Discipline, ListedWhereItPoints

(* Rooms get no members but by EnterRoom.                                  *)
LEMMA MembersStep ==
  ASSUME Inv, NEW s \in Sessions, Step(s), NEW r \in RoomIds',
         NEW u \in rooms'[r].users
  PROVE  \/ r \in RoomIds /\ u \in rooms[r].users
         \/ EnterRoom(s) /\ r = target[s] /\ u = arg[s]
<1> TypeOK /\ HandlerShape
  BY DEF Inv
<1>1. CASE UNCHANGED rooms
  BY <1>1 DEF RoomIds
<1>2. CASE MakeRoom(s)
  BY <1>2, MakeRoomEffect
<1>3. CASE CreateRoom(s)
  BY <1>3, CreateRoomEffect
<1>4. CASE EnterRoom(s)
  BY <1>4, EnterRoomEffect
<1>5. CASE LeaveOnDisconnect(s)
  BY <1>5, LeaveEffect
<1>6. QED
  BY <1>1, <1>2, <1>3, <1>4, <1>5, RoomsChange

LEMMA ListedStep ==
  ASSUME Inv, Discipline, NEW s \in Sessions, Step(s), Record
  PROVE  ListedWhereItPoints'
<1> SUFFICES ASSUME NEW r \in RoomIds', NEW u \in rooms'[r].users,
                    users'[u].ownerSession \notin unruly'
             PROVE  users'[u].room = r
  BY DEF ListedWhereItPoints
<1> TypeOK
  BY DEF Inv
<1>1. CASE EnterRoom(s) /\ u = arg[s]
  <2>1. s \notin unruly
    <3>1. users'[u].ownerSession = users[u].ownerSession /\ arg[s] # NoUser
      BY <1>1, EnterRoomEffect DEF EnterRoom
    <3>2. users[u].ownerSession = s
      BY <1>1, <3>1 DEF Inv, Ownership
    <3>3. QED
      BY <3>1, <3>2, HistoryGrows
  <2>2. r = target[s]
    BY <1>1, <2>1, MembersStep, Newcomer
  <2>3. QED
    BY <1>1, <2>2, EnterRoomEffect
<1>2. CASE ~(EnterRoom(s) /\ u = arg[s])
  <2>1. r \in RoomIds /\ u \in rooms[r].users
    BY <1>2, MembersStep
  <2>2. u \in UserIds
    BY <2>1 DEF TypeOK
  <2>3. users[u].ownerSession \notin unruly
    BY <2>2, UserFrame, HistoryGrows
  <2>4. users[u].room = r
    BY <2>1, <2>3 DEF Discipline, ListedWhereItPoints
  <2>5. QED
    BY <1>2, <2>2, <2>4, UserFrame
<1>3. QED
  BY <1>1, <1>2

LEMMA OneLoginStep ==
  ASSUME Inv, Discipline, NEW s \in Sessions, Step(s), Record
  PROVE  OneLogin'
<1> TypeOK /\ OneLogin
  BY DEF Inv, Discipline
<1>0. unruly \subseteq unruly'
  BY HistoryGrows
<1>1. CASE UNCHANGED users
  BY <1>0, <1>1 DEF OneLogin, UserIds
<1>2. ASSUME NEW n \in Nicknames, UseNickname(s, n)
      PROVE  OneLogin'
  <2> DEFINE new == Len(users) + 1
  <2>1. /\ UserIds' = UserIds \union {new} /\ users'[new].ownerSession = s
        /\ \A v \in UserIds : users'[v] = users[v]
    BY <1>2, UseNicknameEffect
  <2>2. s \notin unruly' => ~LoggedIn(s)
    <3>1. pc[s] = "loop" /\ pc'[s] = "assignUser"
      BY <1>2 DEF UseNickname, Goto, TypeOK
    <3>2. QED
      BY <3>1, HistoryGrows DEF BreaksProtocol
  <2>3. s \notin unruly' => \A v \in UserIds : users[v].ownerSession # s
    BY <2>2 DEF LoggedIn
  <2> HIDE DEF new
  <2>4. QED
    BY <1>0, <2>1, <2>3 DEF OneLogin
<1>3. CASE EnterRoom(s)
  <2>1. UserIds' = UserIds
    BY <1>3, EnterRoomEffect
  <2>2. \A u \in UserIds : users'[u].ownerSession = users[u].ownerSession
    BY UserFrame
  <2>3. QED
    BY <1>0, <2>1, <2>2 DEF OneLogin
<1>4. QED
  BY <1>1, <1>2, <1>3, UsersChange

(* Who logged in or entered a room is known from what happened before,     *)
(* except for the session that takes the step.                             *)
LEMMA HistoryOfOthers ==
  ASSUME Inv, NEW s \in Sessions, Step(s), NEW t \in Sessions, t # s
  PROVE  LoggedIn(t)' = LoggedIn(t) /\ Entered(t)' = Entered(t)
<1> TypeOK
  BY DEF Inv
<1>1. \A u \in UserIds : users'[u].ownerSession = users[u].ownerSession
  BY UserFrame
<1>2. CASE UNCHANGED users
  BY <1>2 DEF LoggedIn, Entered, UserIds
<1>3. ASSUME NEW n \in Nicknames, UseNickname(s, n)
      PROVE  LoggedIn(t)' = LoggedIn(t) /\ Entered(t)' = Entered(t)
  <2> DEFINE new == Len(users) + 1
  <2>1. /\ UserIds' = UserIds \union {new} /\ users'[new].ownerSession = s
        /\ \A v \in UserIds : users'[v] = users[v]
    BY <1>3, UseNicknameEffect
  <2> HIDE DEF new
  <2>2. QED
    BY <2>1 DEF LoggedIn, Entered
<1>4. CASE EnterRoom(s)
  <2>1. /\ UserIds' = UserIds /\ arg[s] \in UserIds
        /\ \A v \in UserIds : v # arg[s] => users'[v] = users[v]
    BY <1>4, EnterRoomEffect
  <2>2. users[arg[s]].ownerSession = s
    BY <1>4 DEF EnterRoom, Inv, Ownership
  <2>3. QED
    BY <1>1, <2>1, <2>2 DEF LoggedIn, Entered
<1>5. QED
  BY <1>2, <1>3, <1>4, UsersChange

(* On the way into a room no User changes.                                 *)
LEMMA EnteringStep ==
  ASSUME TypeOK, NEW s \in Sessions, Step(s), pc'[s] \in Entering
  PROVE  /\ UNCHANGED users
         /\ \/ pc[s] \in Entering
            \/ pc[s] = "loop" /\ pc'[s] \in {"createRoom", "readUser"}
<1> USE DEF TypeOK, Goto, Holds, Return, OnlyHandler, handler, Refuse, Entering
<1>1. CASE Connect(s) \/ Disconnect(s) \/ Recv(s)
  BY <1>1 DEF Connect, Disconnect, Recv, RecvData, RecvZero, RecvDone, BadPacket
<1>2. CASE Login(s)
  BY <1>2 DEF Login, LoginRefused, UseNickname, AssignUser
<1>3. CASE Enter(s)
  BY <1>3 DEF Enter, MakeRoom, CreateRoom, EnterPacket, ReadUser, EnterRefused,
              EnterRoom, RoomData
<1>4. CASE LeaveOrChat(s) \/ Finish(s)
  BY <1>4 DEF LeaveOrChat, LeaveRefused, LeavePacket, ChatRefused, ChatPacket,
              Finish, ListUsers, LeaveNothing, SendChat, LastUse
<1>5. CASE Close(s) \/ Die(s)
  BY <1>5 DEF Close, ProcessDisconnect, LeaveOnDisconnect, LeaveNoRoom,
              ClearUser, ReleaseSession, Die
<1>6. QED
  BY <1>1, <1>2, <1>3, <1>4, <1>5 DEF Step

(* How handlers begin and go on.                                           *)
LEMMA HandlerStep ==
  ASSUME TypeOK, NEW s \in Sessions, Step(s)
  PROVE  /\ pc'[s] \in Handlers \ {"loop"} =>
              \/ pc[s] \in Handlers \ {"loop"}
              \/ \E n \in Nicknames : UseNickname(s, n)
              \/ /\ pc[s] = "loop"
                 /\ pc'[s] \in {"createRoom", "readUser"} \/ user[s] # NoUser
         /\ pc[s] = "assignUser" => pc'[s] = "assignUser" \/ AssignUser(s)
         /\ pc'[s] = "enterRoom" =>
              ReadUser(s) \/ (pc[s] = "enterRoom" /\ arg'[s] = arg[s])
         /\ pc'[s] = "roomData" =>
              EnterRoom(s) \/ (pc[s] = "roomData" /\ target'[s] = target[s])
<1> USE DEF TypeOK, Goto, Holds, Return, OnlyHandler, handler, Refuse,
            Handlers, PCs
<1>1. CASE Connect(s) \/ Disconnect(s) \/ Recv(s)
  BY <1>1 DEF Connect, Disconnect, Recv, RecvData, RecvZero, RecvDone, BadPacket
<1>2. CASE Login(s)
  BY <1>2 DEF Login, LoginRefused, UseNickname, AssignUser
<1>3. CASE Enter(s)
  <2>1. CASE MakeRoom(s) \/ \E r \in 1 .. MaxRooms : EnterPacket(s, r)
    BY <2>1 DEF MakeRoom, EnterPacket
  <2>2. CASE CreateRoom(s) \/ EnterRefused(s)
    BY <2>2 DEF CreateRoom, EnterRefused
  <2>3. CASE ReadUser(s)
    <3>1. pc[s] = "readUser" /\ pc'[s] = "enterRoom"
      BY <2>3 DEF ReadUser
    <3>2. QED
      BY <2>3, <3>1
  <2>4. CASE EnterRoom(s)
    <3>1. pc[s] = "enterRoom" /\ pc'[s] = "roomData"
      BY <2>4 DEF EnterRoom
    <3>2. QED
      BY <2>4, <3>1
  <2>5. CASE RoomData(s)
    BY <2>5 DEF RoomData
  <2>6. QED
    BY <1>3, <2>1, <2>2, <2>3, <2>4, <2>5 DEF Enter
<1>4. CASE LeaveOrChat(s) \/ Finish(s)
  BY <1>4 DEF LeaveOrChat, LeaveRefused, LeavePacket, ChatRefused, ChatPacket,
              Finish, ListUsers, LeaveNothing, SendChat, LastUse
<1>5. CASE Close(s) \/ Die(s)
  BY <1>5 DEF Close, ProcessDisconnect, LeaveOnDisconnect, LeaveNoRoom,
              ClearUser, ReleaseSession, Die
<1>6. QED
  BY <1>1, <1>2, <1>3, <1>4, <1>5 DEF Step

(* Only a login makes a session one that logged in.                        *)
LEMMA LoggedInStep ==
  ASSUME TypeOK, NEW s \in Sessions, Step(s)
  PROVE  \/ LoggedIn(s)' = LoggedIn(s)
         \/ \E n \in Nicknames : UseNickname(s, n) /\ LoggedIn(s)'
<1>1. \A u \in UserIds : users'[u].ownerSession = users[u].ownerSession
  BY UserFrame
<1>2. CASE UNCHANGED users
  BY <1>2 DEF LoggedIn, UserIds
<1>3. ASSUME NEW n \in Nicknames, UseNickname(s, n)
      PROVE  LoggedIn(s)'
  BY <1>3, UseNicknameEffect DEF LoggedIn
<1>4. CASE EnterRoom(s)
  <2>1. UserIds' = UserIds
    BY <1>4, EnterRoomEffect
  <2>2. QED
    BY <1>1, <2>1 DEF LoggedIn
<1>5. QED
  BY <1>2, <1>3, <1>4, UsersChange

LEMMA FollowsProtocolStep ==
  ASSUME Inv, Discipline, NEW s \in Sessions, Step(s), Record
  PROVE  FollowsProtocol'
<1> SUFFICES ASSUME NEW t \in Sessions, t \notin unruly'
             PROVE  /\ pc'[t] \in Handlers \ {"loop"} => LoggedIn(t)'
                    /\ pc'[t] \in Entering => ~Entered(t)'
  BY DEF FollowsProtocol, Entering, Handlers, PCs
<1> TypeOK /\ FollowsProtocol
  BY DEF Inv, Discipline
<1>0. t \notin unruly /\ ~BreaksProtocol(t)
  BY HistoryGrows
<1>1. CASE t # s
  <2>1. pc'[t] = pc[t]
    BY <1>1, OtherSessions
  <2>2. QED
    BY <1>0, <1>1, <2>1, HistoryOfOthers DEF FollowsProtocol
<1>2. CASE t = s
  <2>1. ASSUME pc'[s] \in Handlers \ {"loop"}
        PROVE  LoggedIn(s)'
    <3>1. CASE pc[s] \in Handlers \ {"loop"}
      BY <1>0, <1>2, <3>1, LoggedInStep DEF FollowsProtocol
    <3>2. CASE \E n \in Nicknames : UseNickname(s, n)
      BY <3>2, LoggedInStep, UseNicknameEffect DEF LoggedIn
    <3>3. CASE pc[s] = "loop" /\ pc'[s] \in {"createRoom", "readUser"}
      BY <1>0, <1>2, <3>3, LoggedInStep DEF BreaksProtocol
    <3>4. CASE user[s] # NoUser
      <4>1. user[s] \in UserIds /\ users[user[s]].ownerSession = s
        BY <3>4 DEF Inv, TypeOK, Ownership
      <4>2. QED
        BY <4>1, LoggedInStep DEF LoggedIn
    <3>5. QED
      BY <2>1, <3>1, <3>2, <3>3, <3>4, HandlerStep
  <2>2. ASSUME pc'[s] \in Entering
        PROVE  ~Entered(s)'
    <3>1. UNCHANGED users /\ ~Entered(s)
      BY <1>0, <1>2, <2>2, EnteringStep DEF FollowsProtocol, BreaksProtocol
    <3>2. QED
      BY <3>1 DEF Entered, UserIds
  <2>3. QED
    BY <1>2, <2>1, <2>2
<1>3. QED
  BY <1>1, <1>2

(* Entering changes the surplus of a room's count only for a User that is  *)
(* in the room already, and that is not a newcomer; no other step does.    *)
LEMMA SurplusStep ==
  ASSUME Inv, Discipline, NEW s \in Sessions, Step(s),
         NEW r \in RoomIds, Surplus(r)' # Surplus(r)
  PROVE  /\ s \in unruly
         /\ pc[s] = "enterRoom" /\ pc'[s] = "roomData"
         /\ target[s] = r /\ arg[s] \in rooms[r].users
<1> TypeOK /\ HandlerShape
  BY DEF Inv
<1>0. /\ IsFiniteSet(rooms[r].users) /\ Cardinality(rooms[r].users) \in Nat
      /\ rooms[r].userCount \in Nat
  BY MembersFinite, FS_CardinalityType, Entries DEF RoomType
<1>1. ~UNCHANGED rooms
  BY DEF Surplus
<1>2. CASE MakeRoom(s)
  BY <1>2, MakeRoomEffect DEF Surplus
<1>3. CASE CreateRoom(s)
  BY <1>3, CreateRoomEffect DEF Surplus
<1>4. CASE EnterRoom(s)
  <2>1. r = target[s]
    BY <1>4, EnterRoomEffect DEF Surplus
  <2>2. /\ rooms'[r].users = rooms[r].users \union {arg[s]}
        /\ rooms'[r].userCount = rooms[r].userCount + 1
    BY <1>4, <2>1, EnterRoomEffect
  <2>3. arg[s] \in rooms[r].users
    <3>1. SUFFICES ASSUME arg[s] \notin rooms[r].users PROVE FALSE
      OBVIOUS
    <3>2. Cardinality(rooms'[r].users) = Cardinality(rooms[r].users) + 1
      BY <1>0, <2>2, <3>1, FS_AddElement
    <3>3. QED
      BY <1>0, <2>2, <3>2 DEF Surplus
  <2>4. s \in unruly
    BY <1>4, <2>3, Newcomer
  <2>5. pc[s] = "enterRoom" /\ pc'[s] = "roomData"
    BY <1>4 DEF EnterRoom, Goto, TypeOK
  <2>6. QED
    BY <2>1, <2>3, <2>4, <2>5
<1>5. CASE LeaveOnDisconnect(s)
  <2>1. r = users[user[s]].room
    BY <1>5, LeaveEffect DEF Surplus
  <2>2. /\ rooms'[r].users = rooms[r].users \ {user[s]}
        /\ rooms'[r].userCount = rooms[r].userCount - 1
        /\ user[s] \in rooms[r].users
    BY <1>5, <2>1, LeaveEffect
  <2>3. Cardinality(rooms'[r].users) = Cardinality(rooms[r].users) - 1
    BY <1>0, <2>2, FS_RemoveElement
  <2>4. QED
    BY <1>0, <2>2, <2>3 DEF Surplus
<1>6. QED
  BY <1>1, <1>2, <1>3, <1>4, <1>5, RoomsChange

(* What an entry is after a step.                                          *)
LEMMA TypeAfter ==
  ASSUME TypeOK'
  PROVE  /\ Len(users') \in Nat /\ UserIds' = 1 .. Len(users')
         /\ \A r \in RoomIds' : /\ rooms'[r] \in RoomType
                                /\ rooms'[r].users \subseteq UserIds'
<1>1. users' \in Seq(UserType) /\ rooms' \in Seq(RoomType)
  BY DEF TypeOK
<1>2. QED
  BY <1>1, LenProperties, ElementOfSeq DEF TypeOK, UserIds, RoomIds

(* So the count of a room, which is exact when it is made, stays so.       *)
LEMMA CountStep ==
  ASSUME Inv, Discipline, NEW s \in Sessions, Step(s), Record, TypeOK'
  PROVE  CountsExact'
<1> TypeOK /\ HandlerShape /\ CountsExact
  BY DEF Inv, Discipline
<1> SUFFICES ASSUME unruly' = {}, NEW r \in RoomIds'
             PROVE  rooms'[r].userCount = Cardinality(rooms'[r].users)
  BY DEF CountsExact
<1>1. unruly = {}
  BY HistoryGrows
<1>2. CASE r \in RoomIds
  <2>1. Surplus(r)' = Surplus(r) /\ Surplus(r) = 0
    <3>1. rooms[r].userCount \in Nat
      BY <1>2, Entries DEF RoomType
    <3>2. QED
      BY <1>1, <1>2, <3>1, SurplusStep DEF CountsExact, Surplus
  <2>2. rooms'[r].userCount \in Nat /\ Cardinality(rooms'[r].users) \in Nat
    <3>1. rooms'[r] \in RoomType /\ rooms'[r].users \subseteq UserIds'
      BY TypeAfter
    <3>2. IsFiniteSet(UserIds')
      BY TypeAfter, FS_Interval
    <3>3. QED
      BY <3>1, <3>2, FS_Subset, FS_CardinalityType DEF RoomType
  <2>3. QED
    BY <2>1, <2>2 DEF Surplus
<1>3. CASE r \notin RoomIds
  <2>1. MakeRoom(s)
    BY <1>3, RoomsChange, CreateRoomEffect, EnterRoomEffect, LeaveEffect
       DEF RoomIds
  <2>2. QED
    BY <1>3, <2>1, MakeRoomEffect, FS_EmptySet
<1>4. QED
  BY <1>2, <1>3

LEMMA DisciplineInit ==
  ASSUME HistoryInit
  PROVE  Discipline
<1>1. UserIds = {} /\ RoomIds = {}
  BY DEF HistoryInit, Init, UserIds, RoomIds
<1>2. \A s \in Sessions : pc[s] = "none"
  BY DEF HistoryInit, Init
<1>3. QED
  BY <1>1, <1>2 DEF Discipline, ListedWhereItPoints, OneLogin, FollowsProtocol,
     Entering, Handlers, CountsExact

LEMMA DisciplineStep ==
  ASSUME Inv, Discipline, [HistoryNext]_hvars
  PROVE  Discipline'
<1>0. TypeOK'
  BY TypeStep DEF HistoryNext, hvars
<1>1. ASSUME NEW s \in Sessions, Step(s), Record
      PROVE  Discipline'
  BY <1>0, <1>1, ListedStep, OneLoginStep, FollowsProtocolStep, CountStep
     DEF Discipline
<1>2. CASE UNCHANGED hvars
  BY <1>2 DEF hvars, history, vars, Discipline, ListedWhereItPoints, OneLogin,
     FollowsProtocol, LoggedIn, Entered, CountsExact, UserIds, RoomIds
<1>3. QED
  BY <1>1, <1>2 DEF HistoryNext, Next, Step

-----------------------------------------------------------------------------
(* Sessions whose ProcessDisconnect meets no handler. *)

(* How the life of a session goes on.                                      *)
LEMMA LifeStep ==
  ASSUME TypeOK, NEW s \in Sessions, Step(s)
  PROVE  \/ life'[s] = life[s]
         \/ Connect(s)
         \/ life[s] = "connected" /\ life'[s] = "closing"
         \/ Close(s)
<1> USE DEF TypeOK, OnlyHandler, handler, Closed, Refuse
<1>1. CASE Connect(s) \/ Disconnect(s) \/ Recv(s)
  BY <1>1 DEF Disconnect, Connected, Recv, RecvData, RecvZero, RecvDone,
              BadPacket
<1>2. CASE Login(s) \/ Enter(s)
  BY <1>2 DEF Login, LoginRefused, UseNickname, AssignUser, Enter, MakeRoom,
              CreateRoom, EnterPacket, ReadUser, EnterRefused, EnterRoom,
              RoomData
<1>3. CASE LeaveOrChat(s) \/ Finish(s)
  BY <1>3 DEF LeaveOrChat, LeaveRefused, LeavePacket, ChatRefused, ChatPacket,
              Finish, ListUsers, LeaveNothing, SendChat, LastUse
<1>4. CASE Close(s) \/ Die(s)
  BY <1>4 DEF Die
<1>5. QED
  BY <1>1, <1>2, <1>3, <1>4 DEF Step

(* A completion of a recv or of a disconnect begins, or none does.         *)
LEMMA WorkStep ==
  ASSUME TypeOK, NEW s \in Sessions, Step(s)
  PROVE  \/ pc'[s] \in Handlers => pc[s] \in Handlers
         \/ RecvData(s)
<1> USE DEF TypeOK, Goto, Return, OnlyHandler, handler, Closed, Refuse,
            Handlers, Closers, PCs
<1>1. CASE Connect(s) \/ Disconnect(s) \/ Recv(s)
  BY <1>1 DEF Connect, Disconnect, Connected, Recv, RecvData, RecvZero,
              RecvDone, BadPacket
<1>2. CASE Login(s)
  BY <1>2 DEF Login, LoginRefused, UseNickname, AssignUser
<1>3. CASE Enter(s)
  BY <1>3 DEF Enter, MakeRoom, CreateRoom, EnterPacket, ReadUser, EnterRefused,
              EnterRoom, RoomData
<1>4. CASE LeaveOrChat(s) \/ Finish(s)
  BY <1>4 DEF LeaveOrChat, LeaveRefused, LeavePacket, ChatRefused, ChatPacket,
              Finish, ListUsers, LeaveNothing, SendChat, LastUse
<1>5. CASE Close(s) \/ Die(s)
  BY <1>5 DEF Close, ProcessDisconnect, LeaveOnDisconnect, LeaveNoRoom,
              ClearUser, ReleaseSession, Die
<1>6. QED
  BY <1>1, <1>2, <1>3, <1>4, <1>5 DEF Step

LEMMA NoHandlerStep ==
  ASSUME Inv, NoHandlerAtEnd, NEW s \in Sessions, Step(s), Record
  PROVE  NoHandlerAtEnd'
<1> TypeOK
  BY DEF Inv
<1> SUFFICES ASSUME NEW t \in Sessions, t \notin overlapped',
                    pc'[t] \in Handlers
             PROVE  life'[t] \in {"connected", "closing"}
  BY DEF NoHandlerAtEnd, Handlers, PCs
<1>0. t \notin overlapped /\ ~Overlaps(t)
  BY HistoryGrows
<1>1. CASE t # s
  BY <1>0, <1>1, OtherSessions DEF NoHandlerAtEnd
<1>2. CASE t = s
  <2>1. CASE RecvData(s)
    BY <1>2, <2>1 DEF RecvData, OnlyHandler
  <2>2. CASE pc[s] \in Handlers
    <3>1. life[s] \in {"connected", "closing"}
      BY <1>0, <1>2, <2>2 DEF NoHandlerAtEnd
    <3>2. ~Connect(s)
      BY <3>1 DEF Connect
    <3>3. ~Close(s)
      <4>1. SUFFICES ASSUME ProcessDisconnect(s) PROVE FALSE
        BY <3>1 DEF Close, LeaveOnDisconnect, LeaveNoRoom, ClearUser,
                    ReleaseSession
      <4>2. life'[s] \in Closers
        BY <4>1 DEF ProcessDisconnect, LeaveNoRoom, FirstCloser, TypeOK,
                    Closers
      <4>3. QED
        BY <1>0, <1>2, <4>2 DEF Overlaps
    <3>4. QED
      BY <1>2, <3>1, <3>2, <3>3, LifeStep
  <2>3. QED
    BY <1>2, <2>1, <2>2, WorkStep
<1>3. QED
  BY <1>1, <1>2

(* While a handler runs, ProcessDisconnect of its session does not.        *)
LEMMA NotClosing ==
  ASSUME NoHandlerAtEnd, NEW s \in Sessions, s \notin overlapped,
         pc[s] \in Handlers
  PROVE  /\ ~LeaveOnDisconnect(s) /\ ~LeaveNoRoom(s) /\ ~ClearUser(s)
         /\ ~ReleaseSession(s)
         /\ life[s] \notin {"leave", "clear", "release", "gone"}
BY DEF NoHandlerAtEnd, LeaveOnDisconnect, LeaveNoRoom, ClearUser, ReleaseSession

(* ... and the other way round.                                            *)
LEMMA NotHandling ==
  ASSUME Inv, NEW s \in Sessions, s \notin overlapped', Record,
         ProcessDisconnect(s)
  PROVE  pc[s] \notin Handlers
<1> TypeOK
  BY DEF Inv
<1>1. ~Overlaps(s)
  BY HistoryGrows
<1>2. life'[s] \in Closers /\ pc' = pc
  BY DEF ProcessDisconnect, LeaveNoRoom, FirstCloser, TypeOK, Closers, handler
<1>3. QED
  BY <1>1, <1>2 DEF Overlaps

LEMMA LoginIsKeptStep ==
  ASSUME Inv, Calm, NEW s \in Sessions, Step(s), Record
  PROVE  LoginIsKept'
<1> TypeOK /\ HandlerShape /\ LoginIsKept /\ NoHandlerAtEnd
  BY DEF Inv, Calm
<1> DEFINE Kept(t) ==
             /\ LoggedIn(t) /\ pc[t] # "assignUser"
                  /\ life[t] \notin {"release", "gone"} => user[t] # NoUser
             /\ life[t] \in {"release", "gone"} => user[t] = NoUser
<1>0. \A t \in Sessions : t \notin overlapped' => t \notin overlapped /\ Kept(t)
  BY HistoryGrows DEF LoginIsKept
<1>1. ASSUME NEW t \in Sessions, t # s, t \notin overlapped'
      PROVE  Kept(t)'
  BY <1>0, <1>1, OtherSessions, HistoryOfOthers
<1>2. ASSUME s \notin overlapped'
      PROVE  Kept(s)'
  <2>0. s \notin overlapped /\ Kept(s)
    BY <1>0, <1>2
  <2>1. ASSUME NEW n \in Nicknames, UseNickname(s, n)
        PROVE  Kept(s)'
    <3>1. pc[s] = "loop" /\ pc'[s] = "assignUser" /\ life' = life
      BY <2>1 DEF UseNickname, Goto, TypeOK
    <3>2. life'[s] \notin {"release", "gone"}
      BY <2>0, <3>1, NotClosing DEF Handlers, PCs
    <3>3. QED
      BY <3>1, <3>2
  <2>2. CASE AssignUser(s)
    <3>1. /\ pc[s] = "assignUser" /\ pc'[s] = "loop" /\ life' = life
          /\ user'[s] = arg[s]
      BY <2>2 DEF AssignUser, KeepUser, Return, Goto, TypeOK
    <3>2. user'[s] # NoUser /\ life'[s] \notin {"release", "gone"}
      BY <2>0, <3>1, NotClosing DEF HandlerShape, Handlers, PCs
    <3>3. QED
      BY <3>1, <3>2
  <2>3. CASE ClearUser(s)
    BY <2>3 DEF ClearUser, TypeOK
  <2>4. CASE /\ ~\E n \in Nicknames : UseNickname(s, n)
             /\ ~AssignUser(s) /\ ~ClearUser(s)
    <3>1. LoggedIn(s)' = LoggedIn(s) /\ user'[s] = user[s]
      BY <2>4, LoggedInStep, UserStep
    <3>2. pc'[s] # "assignUser" => pc[s] # "assignUser"
      BY <2>4, HandlerStep
    <3>3. CASE ProcessDisconnect(s)
      <4>1. /\ life[s] = "closing" /\ life'[s] = FirstCloser(s)
            /\ pc[s] # "assignUser"
        BY <1>2, <3>3, NotHandling
           DEF ProcessDisconnect, LeaveNoRoom, TypeOK, Handlers, PCs
      <4>2. life'[s] = "release" => user[s] = NoUser
        BY <4>1 DEF FirstCloser
      <4>3. life'[s] # "gone"
        BY <4>1 DEF FirstCloser
      <4>4. QED
        BY <2>0, <3>1, <4>1, <4>2, <4>3
    <3>4. CASE ~ProcessDisconnect(s)
      <4>1. life'[s] \in {"release", "gone"} <=> life[s] \in {"release", "gone"}
        <5>1. CASE Connect(s)
          BY <5>1 DEF Connect, TypeOK
        <5>2. CASE LeaveOnDisconnect(s) \/ LeaveNoRoom(s) \/ ReleaseSession(s)
          BY <5>2 DEF LeaveOnDisconnect, LeaveNoRoom, ReleaseSession, TypeOK
        <5>3. QED
          BY <2>4, <3>4, <5>1, <5>2, LifeStep DEF Close
      <4>2. QED
        BY <2>0, <3>1, <3>2, <4>1
    <3>5. QED
      BY <3>3, <3>4
  <2>5. QED
    BY <2>1, <2>2, <2>3, <2>4
<1>3. \A t \in Sessions : t \notin overlapped' => Kept(t)'
  BY <1>1, <1>2
<1>4. QED
  BY <1>3 DEF LoginIsKept

(* A User in use keeps its room, unless its own session enters one.        *)
LEMMA RoomKept ==
  ASSUME Inv, NEW s \in Sessions, Step(s), NEW t \in Sessions,
         user[t] # NoUser, t # s \/ ~EnterRoom(s)
  PROVE  users'[user[t]].room = users[user[t]].room
<1>1. user[t] \in UserIds
  BY DEF Inv, TypeOK
<1>2. ~(EnterRoom(s) /\ user[t] = arg[s])
  BY DEF Inv, Ownership, EnterRoom
<1>3. QED
  BY <1>1, <1>2, UserFrame DEF Inv

LEMMA NothingStaleStep ==
  ASSUME Inv, Calm, NEW s \in Sessions, Step(s), Record
  PROVE  NothingStale'
<1> TypeOK /\ HandlerShape /\ NoHandlerAtEnd /\ NothingStale
  BY DEF Inv, Calm
<1>1. ASSUME NEW t \in Sessions, t \notin overlapped'
      PROVE  t \notin overlapped
  BY <1>1, HistoryGrows
<1>2. \A t \in Sessions : life[t] = "leave" => user[t] # NoUser
  BY DEF Inv, Registered
<1>3. ASSUME NEW t \in Sessions, t # s, t \notin overlapped'
      PROVE  /\ pc'[t] = "enterRoom" => arg'[t] = user'[t]
             /\ pc'[t] = "roomData" =>
                  /\ user'[t] # NoUser /\ target'[t] # NoRoom
                  /\ users'[user'[t]].room = target'[t]
             /\ life'[t] = "leave" => users'[user'[t]].room # NoRoom
  <2>1. /\ life'[t] = life[t] /\ pc'[t] = pc[t] /\ user'[t] = user[t]
        /\ arg'[t] = arg[t] /\ target'[t] = target[t]
    BY <1>3, OtherSessions
  <2>2. user[t] # NoUser => users'[user[t]].room = users[user[t]].room
    BY <1>3, RoomKept
  <2>3. t \notin overlapped
    BY <1>1, <1>3
  <2>4. QED
    BY <1>2, <2>1, <2>2, <2>3 DEF NothingStale
<1>4. ASSUME s \notin overlapped'
      PROVE  s \notin overlapped
  BY <1>1, <1>4
<1>5. ASSUME s \notin overlapped'
      PROVE  pc'[s] = "enterRoom" => arg'[s] = user'[s]
  <2>1. CASE ReadUser(s)
    BY <2>1 DEF ReadUser, Holds, OnlyHandler, TypeOK
  <2>2. CASE pc[s] = "enterRoom" /\ arg'[s] = arg[s]
    <3>1. ~AssignUser(s) /\ ~ClearUser(s)
      BY <1>5, <1>4, <2>2, NotClosing
         DEF AssignUser, Return, Goto, Handlers, PCs
    <3>2. user'[s] = user[s]
      BY <3>1, UserStep
    <3>3. QED
      BY <1>5, <1>4, <2>2, <3>2 DEF NothingStale
  <2>3. QED
    BY <2>1, <2>2, HandlerStep
<1>6. ASSUME s \notin overlapped', pc'[s] = "roomData"
      PROVE  /\ user'[s] # NoUser /\ target'[s] # NoRoom
             /\ users'[user'[s]].room = target'[s]
  <2>1. CASE EnterRoom(s)
    <3>1. /\ pc[s] = "enterRoom" /\ user' = user /\ target'[s] = target[s]
          /\ arg[s] # NoUser
      BY <2>1 DEF EnterRoom, Goto, Holds, TypeOK
    <3>2. arg[s] = user[s]
      BY <1>6, <1>4, <3>1 DEF NothingStale
    <3>3. target[s] \in RoomIds /\ users'[arg[s]].room = target[s]
      BY <2>1, EnterRoomEffect
    <3>4. target[s] # NoRoom
      BY <3>3, Entries DEF NoRoom
    <3>5. QED
      BY <3>1, <3>2, <3>3, <3>4
  <2>2. CASE pc[s] = "roomData" /\ target'[s] = target[s]
    <3>1. ~AssignUser(s) /\ ~ClearUser(s) /\ ~EnterRoom(s)
      BY <1>6, <1>4, <2>2, NotClosing
         DEF AssignUser, EnterRoom, Return, Goto, Handlers, PCs
    <3>2. user'[s] = user[s] /\ user[s] # NoUser
      BY <1>6, <1>4, <2>2, <3>1, UserStep DEF NothingStale
    <3>3. users'[user[s]].room = users[user[s]].room
      BY <3>1, <3>2, RoomKept
    <3>4. QED
      BY <1>6, <1>4, <2>2, <3>2, <3>3 DEF NothingStale
  <2>3. QED
    BY <1>6, <2>1, <2>2, HandlerStep
<1>7. ASSUME s \notin overlapped', life'[s] = "leave"
      PROVE  users'[user'[s]].room # NoRoom
  <2>1. CASE ProcessDisconnect(s)
    <3>1. life'[s] = FirstCloser(s) /\ user' = user /\ users' = users
      BY <2>1 DEF ProcessDisconnect, LeaveNoRoom, TypeOK
    <3>2. QED
      BY <1>7, <3>1 DEF FirstCloser
  <2>2. CASE life[s] = "leave"
    <3>1. pc[s] \notin Handlers
      BY <1>7, <1>4, <2>2, NotClosing
    <3>2. ~AssignUser(s) /\ ~ClearUser(s) /\ ~EnterRoom(s)
      BY <2>2, <3>1
         DEF AssignUser, ClearUser, EnterRoom, Return, Goto, Handlers, PCs
    <3>3. user'[s] = user[s]
      BY <3>2, UserStep
    <3>4. users'[user[s]].room = users[user[s]].room
      BY <1>2, <2>2, <3>2, RoomKept
    <3>5. QED
      BY <1>7, <1>4, <2>2, <3>3, <3>4 DEF NothingStale
  <2>3. CASE life[s] # "leave"
    <3>1. ~Connect(s)
      BY <1>7 DEF Connect, TypeOK
    <3>2. Close(s)
      BY <1>7, <2>3, <3>1, LifeStep
    <3>3. ProcessDisconnect(s)
      BY <1>7, <2>3, <3>2
         DEF Close, LeaveOnDisconnect, LeaveNoRoom, ClearUser, ReleaseSession,
             TypeOK
    <3>4. QED
      BY <2>1, <3>3
  <2>4. QED
    BY <2>2, <2>3
<1>8. QED
  BY <1>3, <1>5, <1>6, <1>7 DEF NothingStale

(* LeaveRoom takes the only User of a session out of the only room that    *)
(* lists it, and no handler of the session lets it in again.               *)
LEMMA RoomIsLeftStep ==
  ASSUME Inv, Discipline, Calm, NEW s \in Sessions, Step(s), Record
  PROVE  RoomIsLeft'
<1> TypeOK /\ LoginIsKept /\ NoHandlerAtEnd /\ RoomIsLeft
    /\ OneLogin /\ ListedWhereItPoints
  BY DEF Inv, Calm, Discipline
<1>0. \A r \in RoomIds : \A u \in rooms[r].users : u \in UserIds
  BY DEF TypeOK
<1>1. SUFFICES ASSUME NEW t \in Sessions, t \in Quiet', life'[t] \in Past,
                      NEW r \in RoomIds',
                      NEW u \in rooms'[r].users, users'[u].ownerSession = t
               PROVE  FALSE
  BY DEF RoomIsLeft, Quiet, Past
<1>2. /\ t \in Quiet /\ t \notin unruly /\ t \notin overlapped
      /\ t \notin overlapped'
  BY <1>1, HistoryGrows DEF Quiet
<1>3. CASE EnterRoom(s) /\ u = arg[s]
  <2>1. arg[s] \in UserIds /\ arg[s] # NoUser
    BY <1>3, EnterRoomEffect DEF EnterRoom
  <2>2. users[u].ownerSession = s
    BY <1>3, <2>1 DEF Inv, Ownership
  <2>3. t = s
    BY <1>1, <1>3, <2>1, <2>2, UserFrame
  <2>4. life'[s] = life[s] /\ pc[s] = "enterRoom"
    BY <1>3 DEF EnterRoom, Goto
  <2>5. QED
    BY <1>1, <1>2, <2>3, <2>4, NotClosing DEF Handlers, PCs, Past
<1>4. CASE ~(EnterRoom(s) /\ u = arg[s])
  <2>1. r \in RoomIds /\ u \in rooms[r].users
    BY <1>4, MembersStep
  <2>2. u \in UserIds /\ users[u].ownerSession = t
    BY <1>0, <1>1, <2>1, UserFrame
  <2>3. life[t] \notin Past
    BY <1>2, <2>1, <2>2 DEF RoomIsLeft
  <2>4. t = s
    BY <1>1, <2>3, OtherSessions
  <2>5. ProcessDisconnect(s) \/ LeaveOnDisconnect(s) \/ LeaveNoRoom(s)
    <3>1. ~Connect(s)
      BY <1>1, <2>4 DEF Connect, TypeOK, Past
    <3>2. Close(s)
      BY <1>1, <2>3, <2>4, <3>1, LifeStep DEF Past
    <3>3. QED
      BY <2>3, <2>4, <3>2 DEF Close, ClearUser, ReleaseSession, Past
  <2>6. pc[s] \notin Handlers /\ life[s] \in {"closing", "leave"}
    BY <1>2, <2>4, <2>5, NotHandling, NotClosing
       DEF ProcessDisconnect, LeaveOnDisconnect, LeaveNoRoom
  <2>7. user[s] # NoUser
    <3>1. LoggedIn(s)
      BY <2>2, <2>4 DEF LoggedIn
    <3>2. QED
      BY <1>2, <2>4, <2>6, <3>1 DEF LoginIsKept, Handlers, PCs
  <2>8. user[s] = u
    <3>1. user[s] \in UserIds /\ users[user[s]].ownerSession = s
      BY <2>7 DEF Inv, TypeOK, Ownership
    <3>2. QED
      BY <1>2, <2>2, <2>4, <3>1 DEF OneLogin
  <2>9. users[u].room = r /\ r # NoRoom
    BY <1>2, <2>1, <2>2, Entries DEF ListedWhereItPoints, NoRoom
  <2>10. CASE ProcessDisconnect(s)
    <3>1. life'[s] = "leave"
      BY <2>7, <2>8, <2>9, <2>10 DEF ProcessDisconnect, LeaveNoRoom,
                                     FirstCloser, TypeOK
    <3>2. QED
      BY <1>1, <2>4, <3>1 DEF Past
  <2>11. CASE LeaveOnDisconnect(s)
    BY <1>1, <2>8, <2>9, <2>11, LeaveEffect
  <2>12. CASE LeaveNoRoom(s)
    BY <2>8, <2>9, <2>12 DEF LeaveNoRoom
  <2>13. QED
    BY <2>5, <2>10, <2>11, <2>12
<1>5. QED
  BY <1>3, <1>4

LEMMA CalmInit ==
  ASSUME HistoryInit
  PROVE  Calm
<1>1. UserIds = {} /\ RoomIds = {}
  BY DEF HistoryInit, Init, UserIds, RoomIds
<1>2. \A s \in Sessions : pc[s] = "none" /\ life[s] = "new" /\ ~LoggedIn(s)
  BY <1>1 DEF HistoryInit, Init, LoggedIn
<1>3. QED
  BY <1>1, <1>2 DEF Calm, NoHandlerAtEnd, LoginIsKept, NothingStale, RoomIsLeft,
     Handlers, Quiet

LEMMA CalmStep ==
  ASSUME Inv, Discipline, Calm, [HistoryNext]_hvars
  PROVE  Calm'
<1>1. ASSUME NEW s \in Sessions, Step(s), Record
      PROVE  Calm'
  <2>1. NoHandlerAtEnd
    BY DEF Calm
  <2>2. QED
    BY <1>1, <2>1, NoHandlerStep, LoginIsKeptStep, NothingStaleStep,
       RoomIsLeftStep DEF Calm
<1>2. CASE UNCHANGED hvars
  BY <1>2 DEF hvars, history, vars, Calm, NoHandlerAtEnd, LoginIsKept,
     LoggedIn, NothingStale, RoomIsLeft, Quiet, UserIds, RoomIds
<1>3. QED
  BY <1>1, <1>2 DEF HistoryNext, Next, Step

(* All of it is an invariant, for any number of workers.                   *)
LEMMA HistoryAlways == HistorySpec => [](Inv /\ Discipline /\ Calm)
<1>1. HistoryInit => Inv /\ Discipline /\ Calm
  BY InvInit, DisciplineInit, CalmInit DEF HistoryInit
<1>2. Inv /\ Discipline /\ Calm /\ [HistoryNext]_hvars
        => (Inv /\ Discipline /\ Calm)'
  <2>1. ASSUME Inv, [HistoryNext]_hvars
        PROVE  Inv'
    BY <2>1, InvStep DEF HistoryNext, hvars
  <2>2. QED
    BY <2>1, DisciplineStep, CalmStep
<1>3. QED
  BY <1>1, <1>2, PTL DEF HistorySpec

-----------------------------------------------------------------------------
(* A session that dies of a missing User or room, or of a race, is one     *)
(* that broke the protocol or whose ProcessDisconnect met a handler.       *)
LEMMA WhoseFault ==
  ASSUME Inv, Discipline, Calm, Record, NEW s \in Sessions, Die(s),
         crash' \in {"nullUser", "nullRoom", "race"},
         s \notin unruly', s \notin overlapped'
  PROVE  FALSE
<1> TypeOK /\ FollowsProtocol /\ LoginIsKept /\ NoHandlerAtEnd /\ NothingStale
  BY DEF Inv, Discipline, Calm
<1>1. /\ s \notin unruly /\ s \notin overlapped /\ ~BreaksProtocol(s)
  BY HistoryGrows
<1>2. ASSUME pc[s] \in Handlers
      PROVE  life[s] \notin {"leave", "clear", "release", "gone"}
  BY <1>1, <1>2, NotClosing
<1>3. ASSUME pc[s] \in Handlers \ {"assignUser"}, LoggedIn(s)
      PROVE  user[s] # NoUser
  BY <1>1, <1>2, <1>3 DEF LoginIsKept
<1>4. pc[s] \in Handlers \ {"loop", "assignUser"} => user[s] # NoUser
  BY <1>1, <1>3 DEF FollowsProtocol
<1>5. CASE NullUser(s) /\ crash' = "nullUser"
  <2>1. CASE pc[s] = "loop" /\ user[s] = NoUser
    <3>1. LoggedIn(s)
      BY <1>1, <1>5, <2>1 DEF BreaksProtocol
    <3>2. QED
      BY <1>3, <2>1, <3>1 DEF Handlers, PCs
  <2>2. CASE pc[s] \in {"usersList", "leaveRoom", "chat"} /\ user[s] = NoUser
    BY <1>4, <2>2 DEF Handlers, PCs
  <2>3. CASE pc[s] = "enterRoom" /\ arg[s] = NoUser
    BY <1>1, <1>4, <2>3 DEF NothingStale, Handlers, PCs
  <2>4. QED
    BY <1>5, <2>1, <2>2, <2>3 DEF NullUser
<1>6. CASE NullRoom(s)
  <2>1. CASE pc[s] = "roomData" /\ ~Open(target[s])
    <3>1. user[s] # NoUser /\ life[s] # "clear"
      BY <1>2, <1>4, <2>1 DEF Handlers, PCs
    <3>2. target[s] # NoRoom /\ users[user[s]].room = target[s]
      BY <1>1, <2>1 DEF NothingStale
    <3>3. QED
      BY <2>1, <3>1, <3>2 DEF Inv, CurrentRoomHasUser
  <2>2. CASE life[s] = "leave" /\ users[user[s]].room = NoRoom
    BY <1>1, <2>2 DEF NothingStale
  <2>3. QED
    BY <1>6, <2>1, <2>2 DEF NullRoom
<1>7. CASE RaceOnUser(s)
  BY <1>2, <1>7 DEF RaceOnUser, Handlers, PCs
<1>8. QED
  BY <1>5, <1>6, <1>7 DEF Die

(* With any number of workers and any clients: a null _user or room is     *)
(* followed, and _user is raced for, only in a session that broke the      *)
(* protocol or whose ProcessDisconnect met one of its own handlers.        *)
THEOREM FaultsAreAlwaysOwn == HistorySpec => FaultsAreOwn
<1> DEFINE Own == \A s \in Sessions :
                    Die(s) /\ crash' \in {"nullUser", "nullRoom", "race"}
                      => s \in unruly' \union overlapped'
<1>1. Inv /\ Discipline /\ Calm /\ [HistoryNext]_hvars => [Own]_hvars
  BY WhoseFault DEF HistoryNext
<1>2. QED
  BY <1>1, HistoryAlways, PTL DEF HistorySpec, FaultsAreOwn

(* A session that is gone and did neither has left nothing behind: its     *)
(* nickname is free and no room has a User of it, whatever others did.     *)
THEOREM QuietSessionsLeaveNothing == HistorySpec => []QuietSessionsCleanUp
<1>1. Inv /\ Calm => QuietSessionsCleanUp
  <2>1. SUFFICES ASSUME Inv, Calm, NEW s \in Quiet, life[s] = "gone",
                        NEW u \in LiveUsers, users[u].ownerSession = s
                 PROVE  FALSE
    BY DEF QuietSessionsCleanUp
  <2>2. u \in UserIds /\ u # NoUser
    BY <2>1, Entries DEF Inv, LiveUsers, NoUser
  <2>3. s \in Sessions \ overlapped /\ pc[s] \notin Handlers
    BY <2>1 DEF Quiet, Calm, NoHandlerAtEnd
  <2>4. ASSUME NEW t \in Sessions
        PROVE  user[t] # u /\ arg[t] # u
    <3>1. user[s] = NoUser
      BY <2>1, <2>3 DEF Calm, LoginIsKept
    <3>2. arg[s] = NoUser
      BY <2>1, <2>3 DEF Inv, HandlerShape, Handlers, PCs
    <3>3. QED
      BY <2>1, <2>2, <3>1, <3>2 DEF Inv, Ownership
  <2>5. \A r \in RoomIds : u \notin rooms[r].users
    BY <2>1 DEF Calm, RoomIsLeft, Past
  <2>6. QED
    BY <2>1, <2>4, <2>5 DEF LiveUsers, Referenced
<1>2. QED
  BY <1>1, HistoryAlways, PTL

(* A room's count departs from its members only where a client that broke  *)
(* the protocol enters the room it is in.                                  *)
THEOREM ReentryOnlyMiscounts == HistorySpec => OnlyReentryMiscounts
<1> DEFINE Only ==
      \A r \in RoomIds :
        Surplus(r)' # Surplus(r) =>
          \E s \in unruly : /\ pc[s] = "enterRoom" /\ pc'[s] = "roomData"
                            /\ target[s] = r /\ arg[s] \in rooms[r].users
<1>1. Inv /\ Discipline /\ Calm /\ [HistoryNext]_hvars => [Only]_hvars
  <2>1. ASSUME Inv, Discipline, NEW s \in Sessions, Step(s)
        PROVE  Only
    BY <2>1, SurplusStep
  <2>2. QED
    BY <2>1 DEF HistoryNext, Next, Step
<1>2. QED
  BY <1>1, HistoryAlways, PTL DEF HistorySpec, OnlyReentryMiscounts

(* GetRoomUserCount is the number of members of each room as long as no    *)
(* client broke the protocol, however many workers serve them.             *)
THEOREM CountsAreExact == HistorySpec => []CountsExact
<1>1. Discipline => CountsExact
  BY DEF Discipline
<1>2. QED
  BY <1>1, HistoryAlways, PTL

(* The User of a client that kept to the protocol is a member of the room  *)
(* it points at only: no second room broadcasts to it.                     *)
THEOREM MembersOfOneRoom == HistorySpec => []ListedWhereItPoints
<1>1. Discipline => ListedWhereItPoints
  BY DEF Discipline
<1>2. QED
  BY <1>1, HistoryAlways, PTL

=============================================================================
