-------------------------- MODULE ChatServiceProofs --------------------------
(***************************************************************************)
(* Proofs about ChatService for any sessions, nicknames, capacity, number  *)
(* of workers and kind of client.                                          *)
(*                                                                         *)
(* The safety properties of the rooms hold each other up: a count is not   *)
(* decremented below its members because the User that leaves is one of    *)
(* them (CurrentRoomHasUser); that User's room is open because no other    *)
(* User of it could have closed it while it counted this one               *)
(* (CountCoversMembers); a closed room is empty because the last one out   *)
(* closed it.  What makes the induction go through is what the handlers    *)
(* hold on to (HandlerShape) and that no session ever points at the User   *)
(* of another (Ownership).                                                 *)
(***************************************************************************)
EXTENDS ChatService, FiniteSetTheorems, SequenceTheorems, TLAPS

(* What a handler has in hand at each of its steps.                        *)
HandlerShape ==
  \A s \in Sessions :
    /\ arg[s] # NoUser => pc[s] \in {"assignUser", "createRoom", "enterRoom"}
    /\ pc[s] = "assignUser" => arg[s] # NoUser /\ users[arg[s]].room = NoRoom
    /\ pc[s] = "createRoom" =>
         /\ target[s] \in RoomIds
         /\ rooms[target[s]].state = "made"
         /\ packet[s] = "C_CREATE_ROOM"
    /\ \A t \in Sessions :
         pc[s] = "createRoom" /\ pc[t] = "createRoom" /\ target[s] = target[t]
           => s = t

(* Sessions use their own Users only.                                      *)
Ownership ==
  \A s \in Sessions :
    /\ user[s] # NoUser => users[user[s]].ownerSession = s
    /\ arg[s] # NoUser => users[arg[s]].ownerSession = s

(* A session is in the Service from the accept to its release; it has a    *)
(* User when ProcessDisconnect is about to leave a room.                   *)
Registered ==
  \A s \in Sessions :
    /\ life[s] \notin {"new", "gone"} => s \in sessions
    /\ life[s] = "leave" => user[s] # NoUser

Inv ==
  /\ TypeOK /\ NicknamesExact
  /\ CountCoversMembers /\ ClosedRoomEmpty /\ EmptyRoomAwaitsHost
  /\ CurrentRoomHasUser /\ AssertsHold
  /\ HandlerShape /\ Ownership /\ Registered

-----------------------------------------------------------------------------
(* What an entry of users or rooms is.                                     *)
LEMMA Entries ==
  ASSUME TypeOK
  PROVE  /\ Len(users) \in Nat /\ UserIds = 1 .. Len(users)
         /\ Len(rooms) \in Nat /\ RoomIds = 1 .. Len(rooms)
         /\ \A u \in UserIds : users[u] \in UserType
         /\ \A r \in RoomIds : rooms[r] \in RoomType
<1>1. users \in Seq(UserType) /\ rooms \in Seq(RoomType)
  BY DEF TypeOK
<1>2. QED
  BY <1>1, LenProperties, ElementOfSeq DEF UserIds, RoomIds

(* The members of a room are finitely many.                                *)
LEMMA MembersFinite ==
  ASSUME TypeOK, NEW r \in RoomIds
  PROVE  IsFiniteSet(rooms[r].users)
<1>1. IsFiniteSet(UserIds)
  BY Entries, FS_Interval
<1>2. rooms[r].users \in SUBSET UserIds
  BY DEF TypeOK
<1>3. QED
  BY <1>1, <1>2, FS_Subset

(* Replacing one entry of rooms leaves the others alone.                   *)
LEMMA UpdateRoom ==
  ASSUME TypeOK, NEW r \in RoomIds, NEW x \in RoomType,
         rooms' = [rooms EXCEPT ![r] = x]
  PROVE  /\ rooms' \in Seq(RoomType)
         /\ RoomIds' = RoomIds
         /\ rooms'[r] = x
         /\ \A q \in RoomIds : q # r => rooms'[q] = rooms[q]
<1>1. rooms \in Seq(RoomType) /\ r \in 1 .. Len(rooms)
  BY Entries DEF TypeOK
<1>2. rooms' \in Seq(RoomType)
  BY <1>1, ExceptSeq
<1>3. QED
  BY <1>1, <1>2, Entries DEF RoomIds

(* ... and so for users.                                                   *)
LEMMA UpdateUser ==
  ASSUME TypeOK, NEW u \in UserIds, NEW x \in UserType,
         users' = [users EXCEPT ![u] = x]
  PROVE  /\ users' \in Seq(UserType)
         /\ UserIds' = UserIds
         /\ users'[u] = x
         /\ \A v \in UserIds : v # u => users'[v] = users[v]
<1>1. users \in Seq(UserType) /\ u \in 1 .. Len(users)
  BY Entries DEF TypeOK
<1>2. users' \in Seq(UserType)
  BY <1>1, ExceptSeq
<1>3. QED
  BY <1>1, <1>2, Entries DEF UserIds

-----------------------------------------------------------------------------
(* What the actions that change users or rooms do to them. *)

LEMMA UseNicknameEffect ==
  ASSUME TypeOK, NEW s \in Sessions, NEW n \in Nicknames, UseNickname(s, n)
  PROVE  LET u == Len(users) + 1
         IN  /\ users' \in Seq(UserType)
             /\ UserIds' = UserIds \union {u}
             /\ u \notin UserIds
             /\ users'[u].nickname = n
             /\ users'[u].ownerSession = s
             /\ users'[u].room = NoRoom
             /\ \A v \in UserIds : users'[v] = users[v]
<1> DEFINE x == [nickname |-> n, ownerSession |-> s, room |-> NoRoom]
<1>1. users \in Seq(UserType) /\ x \in UserType
  BY DEF TypeOK, UserType, NoRoom
<1>2. users' = Append(users, x)
  BY DEF UseNickname
<1> HIDE DEF x
<1>3. /\ users' \in Seq(UserType)
      /\ Len(users') = Len(users) + 1
      /\ \A v \in 1 .. Len(users) : users'[v] = users[v]
      /\ users'[Len(users) + 1] = x
  BY <1>1, <1>2, AppendProperties
<1>4. UserIds' = 1 .. Len(users) + 1
  BY <1>3, LenProperties DEF UserIds
<1>5. QED
  BY <1>3, <1>4, Entries DEF x

LEMMA MakeRoomEffect ==
  ASSUME TypeOK, NEW s \in Sessions, MakeRoom(s)
  PROVE  LET r == Len(rooms) + 1
         IN  /\ rooms' \in Seq(RoomType)
             /\ RoomIds' = RoomIds \union {r}
             /\ r \notin RoomIds
             /\ rooms'[r].state = "made"
             /\ rooms'[r].users = {}
             /\ rooms'[r].userCount = 0
             /\ \A q \in RoomIds : rooms'[q] = rooms[q]
<1> DEFINE x == [state |-> "made", users |-> {}, userCount |-> 0]
<1>1. rooms \in Seq(RoomType) /\ x \in RoomType
  BY DEF TypeOK, RoomType
<1>2. rooms' = Append(rooms, x)
  BY DEF MakeRoom
<1> HIDE DEF x
<1>3. /\ rooms' \in Seq(RoomType)
      /\ Len(rooms') = Len(rooms) + 1
      /\ \A q \in 1 .. Len(rooms) : rooms'[q] = rooms[q]
      /\ rooms'[Len(rooms) + 1] = x
  BY <1>1, <1>2, AppendProperties
<1>4. RoomIds' = 1 .. Len(rooms) + 1
  BY <1>3, LenProperties DEF RoomIds
<1>5. QED
  BY <1>3, <1>4, Entries DEF x

LEMMA CreateRoomEffect ==
  ASSUME TypeOK, HandlerShape, NEW s \in Sessions, CreateRoom(s)
  PROVE  /\ rooms' \in Seq(RoomType)
         /\ target[s] \in RoomIds
         /\ rooms[target[s]].state = "made"
         /\ RoomIds' = RoomIds
         /\ rooms'[target[s]].state = "open"
         /\ rooms'[target[s]].users = rooms[target[s]].users
         /\ rooms'[target[s]].userCount = rooms[target[s]].userCount
         /\ \A q \in RoomIds : q # target[s] => rooms'[q] = rooms[q]
<1> DEFINE r == target[s]
<1>1. r \in RoomIds /\ rooms[r].state = "made"
  BY DEF HandlerShape, CreateRoom, Goto
<1> DEFINE x == [state |-> "open", users |-> rooms[r].users,
                 userCount |-> rooms[r].userCount]
<1>2. x \in RoomType /\ rooms[r] \in RoomType
  BY <1>1, Entries DEF RoomType
<1>3. rooms' = [rooms EXCEPT ![r] = x]
  <2>1. rooms' = [rooms EXCEPT ![r] = [rooms[r] EXCEPT !.state = "open"]]
    BY DEF CreateRoom
  <2>2. [rooms[r] EXCEPT !.state = "open"] = x
    BY <1>2 DEF RoomType
  <2>3. QED
    BY <2>1, <2>2
<1>4. /\ x.state = "open" /\ x.users = rooms[r].users
      /\ x.userCount = rooms[r].userCount
  OBVIOUS
<1> HIDE DEF x
<1>5. /\ rooms' \in Seq(RoomType) /\ RoomIds' = RoomIds /\ rooms'[r] = x
      /\ \A q \in RoomIds : q # r => rooms'[q] = rooms[q]
  BY <1>1, <1>2, <1>3, UpdateRoom
<1>6. QED
  BY <1>1, <1>4, <1>5

LEMMA EnterRoomEffect ==
  ASSUME TypeOK, NEW s \in Sessions, EnterRoom(s)
  PROVE  LET r == target[s]
             u == arg[s]
         IN  /\ r \in RoomIds /\ rooms[r].state = "open"
             /\ rooms[r].userCount < RoomCapacity
             /\ u \in UserIds
             /\ rooms' \in Seq(RoomType) /\ users' \in Seq(UserType)
             /\ RoomIds' = RoomIds /\ UserIds' = UserIds
             /\ rooms'[r].state = "open"
             /\ rooms'[r].users = rooms[r].users \union {u}
             /\ rooms'[r].userCount = rooms[r].userCount + 1
             /\ \A q \in RoomIds : q # r => rooms'[q] = rooms[q]
             /\ users'[u].nickname = users[u].nickname
             /\ users'[u].ownerSession = users[u].ownerSession
             /\ users'[u].room = r
             /\ \A v \in UserIds : v # u => users'[v] = users[v]
<1> DEFINE r == target[s]
           u == arg[s]
<1>1. /\ r \in RoomIds /\ rooms[r].state = "open" /\ r \in Nat
      /\ rooms[r].userCount < RoomCapacity
      /\ u \in UserIds
  BY DEF EnterRoom, HasPlace, Open, TypeOK
<1>2. /\ rooms[r] \in RoomType /\ rooms[r].userCount \in Nat
      /\ rooms[r].users \subseteq Nat /\ u \in Nat
      /\ users[u] \in UserType
  BY <1>1, Entries DEF RoomType
<1> DEFINE x == [state |-> "open", users |-> rooms[r].users \union {u},
                 userCount |-> rooms[r].userCount + 1]
           y == [nickname |-> users[u].nickname,
                 ownerSession |-> users[u].ownerSession, room |-> r]
<1>3. x \in RoomType /\ y \in UserType
  BY <1>1, <1>2 DEF RoomType, UserType
<1>4. rooms' = [rooms EXCEPT ![r] = x]
  BY <1>1 DEF EnterRoom, Join, Counted
<1>5. users' = [users EXCEPT ![u] = y]
  <2>1. users' = [users EXCEPT ![u] = [users[u] EXCEPT !.room = r]]
    BY DEF EnterRoom, SetRoom
  <2>2. [users[u] EXCEPT !.room = r] = y
    BY <1>2 DEF UserType
  <2>3. QED
    BY <2>1, <2>2
<1> HIDE DEF x, y
<1>6. /\ rooms' \in Seq(RoomType) /\ RoomIds' = RoomIds /\ rooms'[r] = x
      /\ \A q \in RoomIds : q # r => rooms'[q] = rooms[q]
  BY <1>1, <1>3, <1>4, UpdateRoom
<1>7. /\ users' \in Seq(UserType) /\ UserIds' = UserIds /\ users'[u] = y
      /\ \A v \in UserIds : v # u => users'[v] = users[v]
  BY <1>1, <1>3, <1>5, UpdateUser
<1>8. QED
  BY <1>1, <1>6, <1>7 DEF x, y

(* A User that leaves is a member of the room it points at, and that room  *)
(* is open, so the assert of CloseRoom holds.                              *)
LEMMA LeaveEffect ==
  ASSUME Inv, NEW s \in Sessions, LeaveOnDisconnect(s)
  PROVE  LET u == user[s]
             r == users[u].room
         IN  /\ u \in UserIds
             /\ r \in RoomIds /\ rooms[r].state = "open"
             /\ u \in rooms[r].users
             /\ rooms[r].userCount \in Nat \ {0}
             /\ rooms' \in Seq(RoomType)
             /\ RoomIds' = RoomIds
             /\ rooms'[r].state =
                  IF rooms[r].userCount = 1 THEN "closed" ELSE "open"
             /\ rooms'[r].users = rooms[r].users \ {u}
             /\ rooms'[r].userCount = rooms[r].userCount - 1
             /\ \A q \in RoomIds : q # r => rooms'[q] = rooms[q]
             /\ crash' = crash
<1> DEFINE u == user[s]
           r == users[u].room
<1>1. u # NoUser /\ u \in UserIds
  BY DEF Inv, TypeOK, Registered, LeaveOnDisconnect
<1>2. /\ r \in RoomIds /\ rooms[r].state = "open" /\ u \in rooms[r].users
  BY <1>1 DEF Inv, CurrentRoomHasUser, Open, LeaveOnDisconnect
<1>3. /\ rooms[r] \in RoomType /\ rooms[r].userCount \in Nat
      /\ rooms[r].users \subseteq Nat
  BY <1>2, Entries DEF Inv, RoomType
<1>4. Cardinality(rooms[r].users) \in Nat \ {0}
  BY <1>2, MembersFinite, FS_EmptySet, FS_CardinalityType DEF Inv
<1>5. rooms[r].userCount \in Nat \ {0}
  BY <1>2, <1>3, <1>4 DEF Inv, CountCoversMembers
<1> DEFINE x == [state |-> IF rooms[r].userCount = 1 THEN "closed" ELSE "open",
                 users |-> rooms[r].users \ {u},
                 userCount |-> rooms[r].userCount - 1]
<1>6. x \in RoomType
  BY <1>3, <1>5 DEF RoomType
<1>7. rooms' = [rooms EXCEPT ![r] = x]
  BY <1>2 DEF LeaveOnDisconnect, LeaveRoom, LastOne
<1>8. crash' = crash
  BY <1>2 DEF LeaveOnDisconnect, LeaveRoom, Open
<1> HIDE DEF x
<1>9. /\ rooms' \in Seq(RoomType) /\ RoomIds' = RoomIds /\ rooms'[r] = x
      /\ \A q \in RoomIds : q # r => rooms'[q] = rooms[q]
  BY <1>2, <1>6, <1>7, UpdateRoom DEF Inv
<1>10. QED
  BY <1>1, <1>2, <1>5, <1>8, <1>9 DEF x

-----------------------------------------------------------------------------
(* ~User only takes nicknames out, and its assert is one of the causes.    *)
LEMMA ReleaseTypes ==
  ASSUME TypeOK, ReleaseNicknames
  PROVE  usedNickname' \subseteq Nicknames /\ crash' \in Causes
BY DEF TypeOK, ReleaseNicknames, Causes

(* Rooms have existing Users only, after every change of the rooms.        *)
LEMMA RoomsTyped ==
  ASSUME Inv, NEW s \in Sessions,
         MakeRoom(s) \/ CreateRoom(s) \/ EnterRoom(s) \/ LeaveOnDisconnect(s)
  PROVE  /\ rooms' \in Seq(RoomType)
         /\ UserIds' = UserIds
         /\ \A r \in RoomIds' : rooms'[r].users \subseteq UserIds
<1> TypeOK /\ HandlerShape
  BY DEF Inv
<1>0. \A r \in RoomIds : rooms[r].users \subseteq UserIds
  BY DEF TypeOK
<1>1. CASE MakeRoom(s)
  <2>1. UserIds' = UserIds
    BY <1>1 DEF MakeRoom, UserIds
  <2>2. ASSUME NEW r \in RoomIds' PROVE rooms'[r].users \subseteq UserIds
    <3>1. CASE r \in RoomIds
      BY <1>0, <1>1, <3>1, MakeRoomEffect
    <3>2. CASE r \notin RoomIds
      BY <1>1, <3>2, MakeRoomEffect
    <3>3. QED
      BY <3>1, <3>2
  <2>3. QED
    BY <1>1, <2>1, <2>2, MakeRoomEffect
<1>2. CASE CreateRoom(s)
  <2>1. UserIds' = UserIds
    BY <1>2 DEF CreateRoom, UserIds
  <2>2. ASSUME NEW r \in RoomIds' PROVE rooms'[r].users \subseteq UserIds
    <3>1. r \in RoomIds /\ rooms'[r].users = rooms[r].users
      BY <1>2, CreateRoomEffect
    <3>2. QED
      BY <1>0, <3>1
  <2>3. QED
    BY <1>2, <2>1, <2>2, CreateRoomEffect
<1>3. CASE EnterRoom(s)
  <2>1. UserIds' = UserIds /\ arg[s] \in UserIds
    BY <1>3, EnterRoomEffect
  <2>2. ASSUME NEW r \in RoomIds' PROVE rooms'[r].users \subseteq UserIds
    <3>1. r \in RoomIds
      BY <1>3, EnterRoomEffect
    <3>2. rooms'[r].users \subseteq rooms[r].users \union {arg[s]}
      BY <1>3, <3>1, EnterRoomEffect
    <3>3. QED
      BY <1>0, <2>1, <3>1, <3>2
  <2>3. QED
    BY <1>3, <2>1, <2>2, EnterRoomEffect
<1>4. CASE LeaveOnDisconnect(s)
  <2>1. UserIds' = UserIds
    BY <1>4 DEF LeaveOnDisconnect, UserIds
  <2>2. ASSUME NEW r \in RoomIds' PROVE rooms'[r].users \subseteq UserIds
    <3>1. r \in RoomIds /\ rooms'[r].users \subseteq rooms[r].users
      BY <1>4, LeaveEffect
    <3>2. QED
      BY <1>0, <3>1
  <2>3. QED
    BY <1>4, <2>1, <2>2, LeaveEffect
<1>5. QED
  BY <1>1, <1>2, <1>3, <1>4

(* Every step keeps the shape of the state; a count that is decremented    *)
(* was positive (LeaveEffect).                                             *)
LEMMA TypeStep ==
  ASSUME Inv, [Next]_vars
  PROVE  TypeOK'
<1> TypeOK
  BY DEF Inv
<1> DEFINE Goal == TypeOK'
<1> SUFFICES Goal
  OBVIOUS
<1> USE DEF TypeOK, Goto, Holds, Return, OnlyHandler, handler, Closed, Refuse,
            NoUser, NoRoom
<1>1. ASSUME NEW s \in Sessions, Connect(s) PROVE Goal
  BY <1>1 DEF UserIds, RoomIds, Connect, Lives, PCs
<1>2. ASSUME NEW s \in Sessions, Disconnect(s) PROVE Goal
  BY <1>2 DEF UserIds, RoomIds, Disconnect, Lives
<1>3. ASSUME NEW s \in Sessions, RecvData(s) PROVE Goal
  BY <1>3 DEF UserIds, RoomIds, RecvData, PCs
<1>4. ASSUME NEW s \in Sessions, RecvZero(s) PROVE Goal
  BY <1>4 DEF UserIds, RoomIds, RecvZero, PCs, Lives
<1>5. ASSUME NEW s \in Sessions, RecvDone(s) PROVE Goal
  BY <1>5 DEF UserIds, RoomIds, RecvDone, PCs
<1>6. ASSUME NEW s \in Sessions, BadPacket(s) PROVE Goal
  BY <1>6 DEF UserIds, RoomIds, BadPacket, PCs, Lives
<1>7. ASSUME NEW s \in Sessions, NEW n \in Nicknames, LoginRefused(s, n) PROVE Goal
  BY <1>7 DEF UserIds, RoomIds, LoginRefused, PCs
<1>8. ASSUME NEW s \in Sessions, NEW n \in Nicknames, UseNickname(s, n) PROVE Goal
  BY <1>8, UseNicknameEffect, Entries DEF RoomIds, UseNickname, PCs
<1>9. ASSUME NEW s \in Sessions, AssignUser(s) PROVE Goal
  BY <1>9, ReleaseTypes DEF UserIds, RoomIds, AssignUser, KeepUser, PCs
<1>10. ASSUME NEW s \in Sessions, MakeRoom(s) PROVE Goal
  <2>1. /\ rooms' \in Seq(RoomType) /\ UserIds' = UserIds
        /\ \A r \in RoomIds' : rooms'[r].users \subseteq UserIds
    BY <1>10, RoomsTyped
  <2>2. Len(rooms) + 1 \in Nat
    BY Entries
  <2>3. QED
    BY <1>10, <2>1, <2>2 DEF MakeRoom, PCs
<1>11. ASSUME NEW s \in Sessions, CreateRoom(s) PROVE Goal
  <2>1. /\ rooms' \in Seq(RoomType) /\ UserIds' = UserIds
        /\ \A r \in RoomIds' : rooms'[r].users \subseteq UserIds
    BY <1>11, RoomsTyped
  <2>2. usedNickname' \subseteq Nicknames /\ crash' \in Causes
    BY <1>11, ReleaseTypes DEF CreateRoom
  <2>3. QED
    BY <1>11, <2>1, <2>2 DEF CreateRoom, PCs
<1>12. ASSUME NEW s \in Sessions, NEW r \in 1 .. MaxRooms, EnterPacket(s, r) PROVE Goal
  BY <1>12, ServiceAssumption DEF UserIds, RoomIds, EnterPacket, PCs
<1>13. ASSUME NEW s \in Sessions, ReadUser(s) PROVE Goal
  BY <1>13 DEF UserIds, RoomIds, ReadUser, PCs
<1>14. ASSUME NEW s \in Sessions, EnterRefused(s) PROVE Goal
  BY <1>14, ReleaseTypes DEF UserIds, RoomIds, EnterRefused, PCs
<1>15. ASSUME NEW s \in Sessions, EnterRoom(s) PROVE Goal
  <2>1. /\ rooms' \in Seq(RoomType) /\ users' \in Seq(UserType)
        /\ UserIds' = UserIds
        /\ \A r \in RoomIds' : rooms'[r].users \subseteq UserIds
    BY <1>15, EnterRoomEffect, RoomsTyped
  <2>2. usedNickname' \subseteq Nicknames /\ crash' \in Causes
    BY <1>15, ReleaseTypes DEF EnterRoom
  <2>3. QED
    BY <1>15, <2>1, <2>2 DEF EnterRoom, PCs
<1>16. ASSUME NEW s \in Sessions, RoomData(s) PROVE Goal
  <2>1. pc' \in [Sessions -> PCs]
    BY <1>16 DEF RoomData, PCs
  <2>2. \/ UNCHANGED <<arg, target, packet>>
        \/ Holds(s, NoUser, NoRoom, "none")
    BY <1>16 DEF RoomData
  <2>3. UNCHANGED <<life, user, sessions, usedNickname, users, rooms, crash>>
    BY <1>16 DEF RoomData
  <2>4. CASE UNCHANGED <<arg, target, packet>>
    BY <2>1, <2>3, <2>4 DEF UserIds, RoomIds
  <2>5. CASE Holds(s, NoUser, NoRoom, "none")
    BY <2>1, <2>3, <2>5 DEF UserIds, RoomIds
  <2>6. QED
    BY <2>2, <2>4, <2>5
<1>17. ASSUME NEW s \in Sessions, LeaveRefused(s) PROVE Goal
  BY <1>17 DEF UserIds, RoomIds, LeaveRefused, PCs, Lives
<1>18. ASSUME NEW s \in Sessions, LeavePacket(s) PROVE Goal
  BY <1>18 DEF UserIds, RoomIds, LeavePacket, PCs
<1>19. ASSUME NEW s \in Sessions, ChatRefused(s) PROVE Goal
  BY <1>19 DEF UserIds, RoomIds, ChatRefused, PCs, Lives
<1>20. ASSUME NEW s \in Sessions, ChatPacket(s) PROVE Goal
  BY <1>20, Entries DEF UserIds, RoomIds, ChatPacket, PCs, UserType
<1>21. ASSUME NEW s \in Sessions, Finish(s) PROVE Goal
  <2>1. PICK at \in PCs : LastUse(s, at)
    BY <1>21 DEF Finish, ListUsers, LeaveNothing, SendChat, PCs
  <2>2. QED
    BY <2>1 DEF UserIds, RoomIds, LastUse, PCs
<1>22. ASSUME NEW s \in Sessions, ProcessDisconnect(s) PROVE Goal
  BY <1>22 DEF UserIds, RoomIds, ProcessDisconnect, FirstCloser, Lives
<1>23. ASSUME NEW s \in Sessions, LeaveOnDisconnect(s) PROVE Goal
  <2>1. /\ rooms' \in Seq(RoomType) /\ UserIds' = UserIds
        /\ \A r \in RoomIds' : rooms'[r].users \subseteq UserIds
    BY <1>23, RoomsTyped
  <2>2. crash' = crash
    BY <1>23, LeaveEffect
  <2>3. QED
    BY <1>23, <2>1, <2>2 DEF LeaveOnDisconnect, Lives
<1>24. ASSUME NEW s \in Sessions, LeaveNoRoom(s) PROVE Goal
  BY <1>24 DEF UserIds, RoomIds, LeaveNoRoom, Lives
<1>25. ASSUME NEW s \in Sessions, ClearUser(s) PROVE Goal
  BY <1>25, ReleaseTypes DEF UserIds, RoomIds, ClearUser, Lives
<1>26. ASSUME NEW s \in Sessions, ReleaseSession(s) PROVE Goal
  BY <1>26 DEF UserIds, RoomIds, ReleaseSession, Lives, Causes
<1>27. ASSUME NEW s \in Sessions, Die(s) PROVE Goal
  BY <1>27 DEF UserIds, RoomIds, Die, Causes
<1>28. CASE UNCHANGED vars
  BY <1>28 DEF UserIds, RoomIds, vars
<1>29. QED
  BY <1>1, <1>2, <1>3, <1>4, <1>5, <1>6, <1>7, <1>8, <1>9, <1>10, <1>11,
     <1>12, <1>13, <1>14, <1>15, <1>16, <1>17, <1>18, <1>19, <1>20, <1>21,
     <1>22, <1>23, <1>24, <1>25, <1>26, <1>27, <1>28
     DEF Next, Recv, Login, Enter, LeaveOrChat, Close

-----------------------------------------------------------------------------
(* The steps of one session.                                               *)
Step(s) ==
  \/ Connect(s) \/ Disconnect(s) \/ Recv(s) \/ Login(s) \/ Enter(s)
  \/ LeaveOrChat(s) \/ Finish(s) \/ Close(s) \/ Die(s)

(* They leave what other sessions hold alone.                              *)
LEMMA OtherSessions ==
  ASSUME TypeOK, NEW s \in Sessions, Step(s), NEW t \in Sessions, t # s
  PROVE  /\ life'[t] = life[t] /\ pc'[t] = pc[t] /\ user'[t] = user[t]
         /\ arg'[t] = arg[t] /\ target'[t] = target[t]
         /\ packet'[t] = packet[t]
<1> USE DEF TypeOK, Goto, Holds, Return, OnlyHandler, handler, Closed, Refuse
<1>1. CASE Connect(s) \/ Disconnect(s) \/ Recv(s)
  BY <1>1 DEF Connect, Disconnect, Recv, RecvData, RecvZero, RecvDone, BadPacket
<1>2. CASE Login(s)
  BY <1>2 DEF Login, LoginRefused, UseNickname, AssignUser, KeepUser
<1>3. CASE Enter(s)
  BY <1>3 DEF Enter, MakeRoom, CreateRoom, EnterPacket, ReadUser, EnterRefused,
              EnterRoom, RoomData
<1>4. CASE LeaveOrChat(s) \/ Finish(s)
  BY <1>4 DEF LeaveOrChat, LeaveRefused, LeavePacket, ChatRefused, ChatPacket,
              Finish, ListUsers, LeaveNothing, SendChat, LastUse
<1>5. CASE Close(s) \/ Die(s)
  BY <1>5 DEF Close, ProcessDisconnect, LeaveOnDisconnect, LeaveNoRoom,
              ClearUser, ReleaseSession, Die
<1>6. QED
  BY <1>1, <1>2, <1>3, <1>4, <1>5 DEF Step

(* Only a login makes a User, and only entering a room changes one.        *)
LEMMA UsersChange ==
  ASSUME NEW s \in Sessions, Step(s)
  PROVE  \/ UNCHANGED users
         \/ \E n \in Nicknames : UseNickname(s, n)
         \/ EnterRoom(s)
BY DEF Step, Connect, Disconnect, Recv, RecvData, RecvZero, RecvDone,
       BadPacket, Login, LoginRefused, AssignUser, Enter, MakeRoom, CreateRoom,
       EnterPacket, ReadUser, EnterRefused, RoomData, LeaveOrChat,
       LeaveRefused, LeavePacket, ChatRefused, ChatPacket, Finish, ListUsers,
       LeaveNothing, SendChat, LastUse, Close, ProcessDisconnect,
       LeaveOnDisconnect, LeaveNoRoom, ClearUser, ReleaseSession, Die,
       OnlyHandler

LEMMA UserFrame ==
  ASSUME TypeOK, NEW s \in Sessions, Step(s)
  PROVE  /\ UserIds \subseteq UserIds'
         /\ \A u \in UserIds :
              /\ users'[u].nickname = users[u].nickname
              /\ users'[u].ownerSession = users[u].ownerSession
              /\ users'[u].room # users[u].room => EnterRoom(s) /\ u = arg[s]
<1>1. CASE UNCHANGED users
  BY <1>1 DEF UserIds
<1>2. ASSUME NEW n \in Nicknames, UseNickname(s, n)
      PROVE  /\ UserIds \subseteq UserIds'
             /\ \A u \in UserIds : users'[u] = users[u]
  BY <1>2, UseNicknameEffect
<1>3. CASE EnterRoom(s)
  BY <1>3, EnterRoomEffect
<1>4. QED
  BY <1>1, <1>2, <1>3, UsersChange

(* Rooms are made, opened, entered and left, and nothing else.             *)
LEMMA RoomsChange ==
  ASSUME NEW s \in Sessions, Step(s)
  PROVE  \/ UNCHANGED rooms
         \/ MakeRoom(s) \/ CreateRoom(s) \/ EnterRoom(s) \/ LeaveOnDisconnect(s)
BY DEF Step, Connect, Disconnect, Recv, RecvData, RecvZero, RecvDone,
       BadPacket, Login, LoginRefused, UseNickname, AssignUser, Enter,
       EnterPacket, ReadUser, EnterRefused, RoomData, LeaveOrChat,
       LeaveRefused, LeavePacket, ChatRefused, ChatPacket, Finish, ListUsers,
       LeaveNothing, SendChat, LastUse, Close, ProcessDisconnect, LeaveNoRoom,
       ClearUser, ReleaseSession, Die, OnlyHandler

(* A made room is opened by its maker only; a closed room stays as it is.  *)
LEMMA RoomFrame ==
  ASSUME Inv, NEW s \in Sessions, Step(s), NEW r \in RoomIds
  PROVE  /\ r \in RoomIds'
         /\ rooms[r].state = "made" /\ ~(CreateRoom(s) /\ r = target[s])
              => rooms'[r].state = "made"
         /\ rooms[r].state = "closed" => rooms'[r] = rooms[r]
<1> TypeOK /\ HandlerShape
  BY DEF Inv
<1>1. CASE UNCHANGED rooms
  BY <1>1 DEF RoomIds
<1>2. CASE MakeRoom(s)
  BY <1>2, MakeRoomEffect
<1>3. CASE CreateRoom(s)
  BY <1>3, CreateRoomEffect
<1>4. CASE EnterRoom(s)
  BY <1>4, EnterRoomEffect
<1>5. CASE LeaveOnDisconnect(s)
  BY <1>5, LeaveEffect
<1>6. QED
  BY <1>1, <1>2, <1>3, <1>4, <1>5, RoomsChange

(* A member of an open room is there after any step but its own leaving.   *)
LEMMA MemberStays ==
  ASSUME Inv, NEW s \in Sessions, Step(s),
         NEW r \in RoomIds, rooms[r].state = "open", NEW u \in rooms[r].users,
         ~(LeaveOnDisconnect(s) /\ u = user[s])
  PROVE  r \in RoomIds' /\ rooms'[r].state = "open" /\ u \in rooms'[r].users
<1> TypeOK /\ HandlerShape
  BY DEF Inv
<1>1. CASE UNCHANGED rooms
  BY <1>1 DEF RoomIds
<1>2. CASE MakeRoom(s)
  BY <1>2, MakeRoomEffect
<1>3. CASE CreateRoom(s)
  BY <1>3, CreateRoomEffect
<1>4. CASE EnterRoom(s)
  BY <1>4, EnterRoomEffect
<1>5. CASE LeaveOnDisconnect(s) /\ r = users[user[s]].room
  <2>1. u \in rooms[r].users \ {user[s]} /\ user[s] \in rooms[r].users
    BY <1>5, LeaveEffect
  <2>2. /\ IsFiniteSet(rooms[r].users)
        /\ Cardinality(rooms[r].users \ {user[s]}) =
             Cardinality(rooms[r].users) - 1
        /\ IsFiniteSet(rooms[r].users \ {user[s]})
    BY <2>1, MembersFinite, FS_RemoveElement
  <2>3. /\ Cardinality(rooms[r].users \ {user[s]}) \in Nat \ {0}
        /\ Cardinality(rooms[r].users) \in Nat
    BY <2>1, <2>2, FS_EmptySet, FS_CardinalityType
  <2>4. rooms[r].userCount # 1
    BY <2>2, <2>3 DEF Inv, CountCoversMembers
  <2>5. QED
    BY <1>5, <2>1, <2>4, LeaveEffect
<1>6. CASE LeaveOnDisconnect(s) /\ r # users[user[s]].room
  BY <1>6, LeaveEffect
<1>7. QED
  BY <1>1, <1>2, <1>3, <1>4, <1>5, <1>6, RoomsChange

-----------------------------------------------------------------------------
(* The handlers that take a User or a room in hand; all others let go.     *)
LEMMA HandStep ==
  ASSUME Inv, NEW s \in Sessions, Step(s)
  PROVE  \/ /\ pc'[s] = pc[s] /\ arg'[s] = arg[s] /\ target'[s] = target[s]
            /\ packet'[s] = packet[s]
         \/ \E n \in Nicknames : UseNickname(s, n)
         \/ MakeRoom(s)
         \/ ReadUser(s)
         \/ arg'[s] = NoUser /\ pc'[s] \notin {"assignUser", "createRoom"}
<1> USE DEF Inv, TypeOK, Goto, Holds, Return, OnlyHandler, handler, Refuse
<1>1. CASE Connect(s) \/ Disconnect(s) \/ Recv(s)
  BY <1>1 DEF HandlerShape, Connect, Disconnect, Recv, RecvData, RecvZero,
              RecvDone, BadPacket
<1>2. CASE Login(s)
  BY <1>2 DEF Login, LoginRefused, AssignUser
<1>3. CASE Enter(s)
  BY <1>3 DEF HandlerShape, Enter, CreateRoom, EnterPacket, EnterRefused,
              EnterRoom, RoomData
<1>4. CASE LeaveOrChat(s) \/ Finish(s)
  BY <1>4 DEF LeaveOrChat, LeaveRefused, LeavePacket, ChatRefused, ChatPacket,
              Finish, ListUsers, LeaveNothing, SendChat, LastUse
<1>5. CASE Close(s) \/ Die(s)
  BY <1>5 DEF Close, ProcessDisconnect, LeaveOnDisconnect, LeaveNoRoom,
              ClearUser, ReleaseSession, Die
<1>6. QED
  BY <1>1, <1>2, <1>3, <1>4, <1>5 DEF Step

(* Who gets a User, and who loses it.                                      *)
LEMMA UserStep ==
  ASSUME TypeOK, NEW s \in Sessions, Step(s)
  PROVE  \/ user'[s] = user[s]
         \/ AssignUser(s) /\ user'[s] = arg[s]
         \/ ClearUser(s) /\ user'[s] = NoUser
<1> USE DEF TypeOK, OnlyHandler
<1>1. CASE Connect(s) \/ Disconnect(s) \/ Recv(s)
  BY <1>1 DEF Connect, Disconnect, Recv, RecvData, RecvZero, RecvDone, BadPacket
<1>2. CASE Login(s)
  BY <1>2 DEF Login, LoginRefused, UseNickname, AssignUser, KeepUser
<1>3. CASE Enter(s)
  BY <1>3 DEF Enter, MakeRoom, CreateRoom, EnterPacket, ReadUser, EnterRefused,
              EnterRoom, RoomData
<1>4. CASE LeaveOrChat(s) \/ Finish(s)
  BY <1>4 DEF LeaveOrChat, LeaveRefused, LeavePacket, ChatRefused, ChatPacket,
              Finish, ListUsers, LeaveNothing, SendChat, LastUse
<1>5. CASE Close(s) \/ Die(s)
  BY <1>5 DEF Close, ProcessDisconnect, LeaveOnDisconnect, LeaveNoRoom,
              ClearUser, ReleaseSession, Die
<1>6. QED
  BY <1>1, <1>2, <1>3, <1>4, <1>5 DEF Step

(* Sessions keep to their own Users: a User is made for the session that   *)
(* logs in, and copied within that session only.                           *)
LEMMA OwnershipStep ==
  ASSUME Inv, NEW s \in Sessions, Step(s)
  PROVE  Ownership'
<1> TypeOK /\ Ownership
  BY DEF Inv
<1>1. \A t \in Sessions : user[t] \in {NoUser} \union UserIds
                         /\ arg[t] \in {NoUser} \union UserIds
  BY DEF TypeOK
<1>2. \A u \in UserIds : users'[u].ownerSession = users[u].ownerSession
  BY UserFrame
<1>3. \A t \in Sessions : t # s => user'[t] = user[t] /\ arg'[t] = arg[t]
  BY OtherSessions
<1>4. user'[s] # NoUser => users'[user'[s]].ownerSession = s
  <2>1. user'[s] \in {user[s], arg[s], NoUser}
    BY UserStep
  <2>2. QED
    BY <1>1, <1>2, <2>1 DEF Ownership
<1>5. arg'[s] # NoUser => users'[arg'[s]].ownerSession = s
  <2>1. CASE arg'[s] \in {arg[s], user[s], NoUser}
    BY <1>1, <1>2, <2>1 DEF Ownership
  <2>2. ASSUME NEW n \in Nicknames, UseNickname(s, n)
        PROVE  users'[arg'[s]].ownerSession = s
    <3>1. arg'[s] = Len(users) + 1
      BY <2>2 DEF UseNickname, Holds, TypeOK
    <3>2. QED
      BY <2>2, <3>1, UseNicknameEffect
  <2>3. CASE MakeRoom(s) \/ ReadUser(s)
    <3>1. arg'[s] = user[s]
      BY <2>3 DEF MakeRoom, ReadUser, Holds, TypeOK
    <3>2. QED
      BY <2>1, <3>1
  <2>4. QED
    BY <2>1, <2>2, <2>3, HandStep
<1>6. QED
  BY <1>1, <1>2, <1>3, <1>4, <1>5 DEF Ownership

(* What a handler has in hand stays as it expects, whatever others do:     *)
(* nobody enters with its new User, nobody opens its new room.             *)
LEMMA HandlerShapeStep ==
  ASSUME Inv, NEW s \in Sessions, Step(s)
  PROVE  HandlerShape'
<1> TypeOK /\ Ownership /\ HandlerShape
  BY DEF Inv
<1> USE DEF HandlerShape
<1>1. ASSUME NEW t \in Sessions, t # s
      PROVE  /\ pc'[t] = pc[t] /\ arg'[t] = arg[t] /\ target'[t] = target[t]
             /\ packet'[t] = packet[t]
  BY <1>1, OtherSessions
<1>2. ASSUME NEW t \in Sessions, pc'[t] = pc[t], arg'[t] = arg[t],
             pc[t] = "assignUser"
      PROVE  arg[t] # NoUser /\ users'[arg[t]].room = NoRoom
  <2>1. arg[t] \in UserIds /\ arg[t] # NoUser /\ users[arg[t]].room = NoRoom
    BY <1>2 DEF TypeOK
  <2>2. ~(EnterRoom(s) /\ arg[t] = arg[s])
    <3>1. CASE t = s
      BY <1>2, <3>1 DEF EnterRoom, Goto
    <3>2. CASE t # s
      BY <2>1, <3>2 DEF EnterRoom, Ownership
    <3>3. QED
      BY <3>1, <3>2
  <2>3. QED
    BY <2>1, <2>2, UserFrame
<1>3. ASSUME NEW t \in Sessions, pc'[t] = pc[t], pc[t] = "createRoom"
      PROVE  target[t] \in RoomIds' /\ rooms'[target[t]].state = "made"
  <2>1. target[t] \in RoomIds /\ rooms[target[t]].state = "made"
    BY <1>3
  <2>2. ~(CreateRoom(s) /\ target[t] = target[s])
    <3>1. CASE t = s
      BY <1>3, <3>1 DEF CreateRoom, Goto, TypeOK
    <3>2. CASE t # s
      BY <1>3, <3>2 DEF CreateRoom, Goto
    <3>3. QED
      BY <3>1, <3>2
  <2>3. QED
    BY <2>1, <2>2, RoomFrame
<1> DEFINE Own == /\ arg'[s] # NoUser =>
                       pc'[s] \in {"assignUser", "createRoom", "enterRoom"}
                  /\ pc'[s] = "assignUser" =>
                       arg'[s] # NoUser /\ users'[arg'[s]].room = NoRoom
                  /\ pc'[s] = "createRoom" =>
                       /\ target'[s] \in RoomIds'
                       /\ rooms'[target'[s]].state = "made"
                       /\ packet'[s] = "C_CREATE_ROOM"
                       /\ \A t \in Sessions :
                            t # s /\ pc[t] = "createRoom" =>
                              target[t] # target'[s]
<1>4. Own
  <2>1. CASE /\ pc'[s] = pc[s] /\ arg'[s] = arg[s] /\ target'[s] = target[s]
             /\ packet'[s] = packet[s]
    BY <1>2, <1>3, <2>1
  <2>2. ASSUME NEW n \in Nicknames, UseNickname(s, n)
        PROVE  Own
    <3>1. pc'[s] = "assignUser" /\ arg'[s] = Len(users) + 1
      BY <2>2 DEF UseNickname, Goto, Holds, TypeOK
    <3>2. QED
      BY <2>2, <3>1, UseNicknameEffect, Entries DEF NoUser
  <2>3. CASE MakeRoom(s)
    <3>1. /\ pc'[s] = "createRoom" /\ target'[s] = Len(rooms) + 1
          /\ packet'[s] = "C_CREATE_ROOM"
      BY <2>3 DEF MakeRoom, Goto, Holds, TypeOK
    <3>2. QED
      BY <2>3, <3>1, MakeRoomEffect
  <2>4. CASE ReadUser(s)
    BY <2>4 DEF ReadUser, Goto, TypeOK
  <2>5. CASE arg'[s] = NoUser /\ pc'[s] \notin {"assignUser", "createRoom"}
    BY <2>5
  <2>6. QED
    BY <2>1, <2>2, <2>3, <2>4, <2>5, HandStep
<1>5. QED
  BY <1>1, <1>2, <1>3, <1>4

(* A session is in the Service until its release.                          *)
LEMMA RegisteredStep ==
  ASSUME Inv, NEW s \in Sessions, Step(s)
  PROVE  Registered'
<1> TypeOK /\ Registered /\ HandlerShape
  BY DEF Inv
<1> USE DEF TypeOK, OnlyHandler, Registered, Closed, handler, Refuse
<1>1. CASE Connect(s) \/ Disconnect(s) \/ Recv(s)
  BY <1>1 DEF Connect, Disconnect, Connected, Recv, RecvData, RecvZero,
              RecvDone, BadPacket
<1>2. CASE Login(s)
  <2>1. CASE AssignUser(s)
    <3>1. arg[s] # NoUser /\ life' = life /\ sessions' = sessions
      BY <2>1 DEF AssignUser, HandlerShape, Return, Goto
    <3>2. \A t \in Sessions : user'[t] = IF t = s THEN arg[s] ELSE user[t]
      BY <2>1 DEF AssignUser, KeepUser
    <3>3. QED
      BY <3>1, <3>2
  <2>2. CASE UNCHANGED <<life, user, sessions>>
    BY <2>2
  <2>3. QED
    BY <1>2, <2>1, <2>2 DEF Login, LoginRefused, UseNickname
<1>3. CASE Enter(s)
  BY <1>3 DEF Enter, MakeRoom, CreateRoom, EnterPacket, ReadUser, EnterRefused,
              EnterRoom, RoomData
<1>4. CASE LeaveOrChat(s) \/ Finish(s)
  BY <1>4 DEF LeaveOrChat, LeaveRefused, LeavePacket, ChatRefused, ChatPacket,
              Finish, ListUsers, LeaveNothing, SendChat, LastUse
<1>5. CASE Close(s) \/ Die(s)
  BY <1>5 DEF Close, ProcessDisconnect, FirstCloser, LeaveOnDisconnect,
              LeaveNoRoom, ClearUser, ReleaseSession, Die
<1>6. QED
  BY <1>1, <1>2, <1>3, <1>4, <1>5 DEF Step

-----------------------------------------------------------------------------
(* The room a session's User points at is open and has it as a member.     *)
LEMMA CurrentRoomStep ==
  ASSUME Inv, NEW s \in Sessions, Step(s)
  PROVE  CurrentRoomHasUser'
<1> TypeOK /\ Ownership /\ HandlerShape /\ CurrentRoomHasUser
  BY DEF Inv
<1> SUFFICES ASSUME NEW t \in Sessions, user'[t] # NoUser,
                    users'[user'[t]].room # NoRoom, life'[t] # "clear"
             PROVE  /\ users'[user'[t]].room \in RoomIds'
                    /\ rooms'[users'[user'[t]].room].state = "open"
                    /\ user'[t] \in rooms'[users'[user'[t]].room].users
  BY DEF CurrentRoomHasUser, Open
<1> DEFINE u == user'[t]
           r == users'[u].room
<1>1. CASE EnterRoom(s) /\ u = arg[s]
  <2>1. r = target[s]
    BY <1>1, EnterRoomEffect
  <2>2. /\ target[s] \in RoomIds' /\ rooms'[target[s]].state = "open"
        /\ arg[s] \in rooms'[target[s]].users
    BY <1>1, EnterRoomEffect
  <2>3. QED
    BY <1>1, <2>1, <2>2
<1>2. CASE ~(EnterRoom(s) /\ u = arg[s])
  <2>1. user[t] = u
    <3>1. CASE t # s
      BY <3>1, OtherSessions
    <3>2. ~(AssignUser(s) /\ t = s)
      <4>1. SUFFICES ASSUME AssignUser(s), t = s PROVE FALSE
        OBVIOUS
      <4>2. u = arg[s] /\ users' = users
        BY <4>1 DEF AssignUser, KeepUser, TypeOK
      <4>3. users[arg[s]].room = NoRoom
        BY <4>1 DEF AssignUser, Return, Goto, HandlerShape
      <4>4. QED
        BY <4>2, <4>3
    <3>3. QED
      BY <3>1, <3>2, UserStep
  <2>2. u \in UserIds /\ users[u].room = r
    <3>1. u \in UserIds
      BY <2>1 DEF TypeOK
    <3>2. QED
      BY <1>2, <3>1, UserFrame
  <2>3. life[t] # "clear"
    <3>1. CASE t # s
      BY <3>1, OtherSessions
    <3>2. CASE t = s
      <4>1. SUFFICES ASSUME life[s] = "clear" PROVE FALSE
        BY <3>2
      <4>2. life'[s] = "clear" \/ ClearUser(s)
        BY <4>1 DEF Step, TypeOK, OnlyHandler, Closed, handler, Refuse,
                    Connected, Connect, Disconnect, Recv, RecvData, RecvZero,
                    RecvDone, BadPacket, Login, LoginRefused, UseNickname,
                    AssignUser, Enter, MakeRoom, CreateRoom, EnterPacket,
                    ReadUser, EnterRefused, EnterRoom, RoomData, LeaveOrChat,
                    LeaveRefused, LeavePacket, ChatRefused, ChatPacket, Finish,
                    ListUsers, LeaveNothing, SendChat, LastUse, Close,
                    ProcessDisconnect, LeaveOnDisconnect, LeaveNoRoom,
                    ReleaseSession, Die
      <4>3. ~ClearUser(s)
        BY <3>2 DEF ClearUser, TypeOK
      <4>4. QED
        BY <3>2, <4>2, <4>3
    <3>3. QED
      BY <3>1, <3>2
  <2>4. r \in RoomIds /\ rooms[r].state = "open" /\ u \in rooms[r].users
    BY <2>1, <2>2, <2>3 DEF CurrentRoomHasUser, Open
  <2>5. ~(LeaveOnDisconnect(s) /\ u = user[s])
    <3>1. SUFFICES ASSUME LeaveOnDisconnect(s), u = user[s] PROVE FALSE
      OBVIOUS
    <3>2. t = s
      BY <2>1, <3>1 DEF Ownership
    <3>3. QED
      BY <3>1, <3>2 DEF LeaveOnDisconnect, TypeOK
  <2>6. QED
    BY <2>2, <2>4, <2>5, MemberStays
<1>3. QED
  BY <1>1, <1>2

(* Counts cover the members, and a room is closed only when it is empty.   *)
LEMMA RoomsStep ==
  ASSUME Inv, NEW s \in Sessions, Step(s)
  PROVE  CountCoversMembers' /\ ClosedRoomEmpty'
<1> TypeOK /\ HandlerShape /\ CountCoversMembers /\ ClosedRoomEmpty
  BY DEF Inv
<1> SUFFICES ASSUME NEW r \in RoomIds'
             PROVE  /\ Cardinality(rooms'[r].users) <= rooms'[r].userCount
                    /\ rooms'[r].userCount <= RoomCapacity
                    /\ rooms'[r].state = "closed" => rooms'[r].users = {}
  BY DEF CountCoversMembers, ClosedRoomEmpty
<1>1. ASSUME r \in RoomIds
      PROVE  /\ Cardinality(rooms[r].users) <= rooms[r].userCount
             /\ rooms[r].userCount <= RoomCapacity
             /\ rooms[r].state = "closed" => rooms[r].users = {}
             /\ IsFiniteSet(rooms[r].users)
             /\ Cardinality(rooms[r].users) \in Nat
             /\ rooms[r].userCount \in Nat
  BY <1>1, Entries, MembersFinite, FS_CardinalityType
     DEF CountCoversMembers, ClosedRoomEmpty, RoomType
<1>2. CASE UNCHANGED rooms
  BY <1>1, <1>2 DEF RoomIds
<1>3. CASE MakeRoom(s)
  <2>1. CASE r \in RoomIds
    BY <1>1, <1>3, <2>1, MakeRoomEffect
  <2>2. CASE r \notin RoomIds
    <3>1. /\ rooms'[r].state = "made" /\ rooms'[r].users = {}
          /\ rooms'[r].userCount = 0
      BY <1>3, <2>2, MakeRoomEffect
    <3>2. Cardinality(rooms'[r].users) = 0
      BY <3>1, FS_EmptySet
    <3>3. QED
      BY <3>1, <3>2, ServiceAssumption
  <2>3. QED
    BY <2>1, <2>2
<1>4. CASE CreateRoom(s)
  BY <1>1, <1>4, CreateRoomEffect
<1>5. CASE EnterRoom(s)
  <2>1. r \in RoomIds
    BY <1>5, EnterRoomEffect
  <2>2. CASE r = target[s]
    <3>1. \/ Cardinality(rooms[r].users \union {arg[s]})
                = Cardinality(rooms[r].users)
          \/ Cardinality(rooms[r].users \union {arg[s]})
                = Cardinality(rooms[r].users) + 1
      BY <1>1, <2>1, FS_AddElement
    <3>2. /\ rooms'[r].state = "open"
          /\ rooms'[r].users = rooms[r].users \union {arg[s]}
          /\ rooms'[r].userCount = rooms[r].userCount + 1
          /\ rooms[r].userCount < RoomCapacity
      BY <1>5, <2>2, EnterRoomEffect
    <3>3. QED
      BY <1>1, <2>1, <3>1, <3>2, ServiceAssumption
  <2>3. CASE r # target[s]
    BY <1>1, <1>5, <2>1, <2>3, EnterRoomEffect
  <2>4. QED
    BY <2>2, <2>3
<1>6. CASE LeaveOnDisconnect(s)
  <2>1. r \in RoomIds
    BY <1>6, LeaveEffect
  <2>2. CASE r = users[user[s]].room
    <3>1. Cardinality(rooms[r].users \ {user[s]})
            = Cardinality(rooms[r].users) - 1
      BY <1>1, <1>6, <2>1, <2>2, LeaveEffect, FS_RemoveElement
    <3>2. IsFiniteSet(rooms[r].users \ {user[s]})
      BY <1>1, <2>1, FS_RemoveElement
    <3>3. Cardinality(rooms[r].users \ {user[s]}) \in Nat
      BY <3>2, FS_CardinalityType
    <3>4. rooms[r].userCount = 1 => rooms[r].users \ {user[s]} = {}
      BY <1>1, <2>1, <3>1, <3>2, <3>3, FS_EmptySet
    <3>5. /\ rooms'[r].state = "closed" => rooms[r].userCount = 1
          /\ rooms'[r].users = rooms[r].users \ {user[s]}
          /\ rooms'[r].userCount = rooms[r].userCount - 1
      BY <1>6, <2>2, LeaveEffect
    <3>6. QED
      BY <1>1, <2>1, <3>1, <3>4, <3>5, ServiceAssumption
  <2>3. CASE r # users[user[s]].room
    BY <1>1, <1>6, <2>1, <2>3, LeaveEffect
  <2>4. QED
    BY <2>2, <2>3
<1>7. QED
  BY <1>2, <1>3, <1>4, <1>5, <1>6, RoomsChange

(* A host on its way into its room goes on, unless it enters or is refused. *)
LEMMA HostStep ==
  ASSUME TypeOK, NEW s \in Sessions, Step(s),
         pc[s] \in {"readUser", "enterRoom"}
  PROVE  \/ /\ pc'[s] \in {"readUser", "enterRoom"}
            /\ packet'[s] = packet[s] /\ target'[s] = target[s]
         \/ EnterRefused(s)
         \/ EnterRoom(s)
<1> USE DEF TypeOK, Goto, Holds, Return, OnlyHandler, handler, Refuse
<1>1. CASE Connect(s) \/ Disconnect(s) \/ Recv(s)
  BY <1>1 DEF Connect, Disconnect, Recv, RecvData, RecvZero, RecvDone, BadPacket
<1>2. CASE Login(s)
  BY <1>2 DEF Login, LoginRefused, UseNickname, AssignUser
<1>3. CASE Enter(s)
  BY <1>3 DEF Enter, MakeRoom, CreateRoom, EnterPacket, ReadUser, RoomData
<1>4. CASE LeaveOrChat(s) \/ Finish(s)
  BY <1>4 DEF LeaveOrChat, LeaveRefused, LeavePacket, ChatRefused, ChatPacket,
              Finish, ListUsers, LeaveNothing, SendChat, LastUse
<1>5. CASE Close(s) \/ Die(s)
  BY <1>5 DEF Close, ProcessDisconnect, LeaveOnDisconnect, LeaveNoRoom,
              ClearUser, ReleaseSession, Die
<1>6. QED
  BY <1>1, <1>2, <1>3, <1>4, <1>5 DEF Step

(* Nothing but CreateRoom leaves an open room empty.                       *)
LEMMA EmptyRoomStep ==
  ASSUME Inv, NEW s \in Sessions, Step(s)
  PROVE  EmptyRoomAwaitsHost'
<1> TypeOK /\ HandlerShape /\ EmptyRoomAwaitsHost
  BY DEF Inv
<1> SUFFICES ASSUME NEW r \in RoomIds', rooms'[r].state = "open",
                    rooms'[r].userCount = 0
             PROVE  \E h \in Sessions :
                      /\ packet'[h] = "C_CREATE_ROOM" /\ target'[h] = r
                      /\ pc'[h] \in {"readUser", "enterRoom"}
  BY DEF EmptyRoomAwaitsHost, Open
<1>1. CASE CreateRoom(s) /\ r = target[s]
  <2>1. /\ packet'[s] = packet[s] /\ target'[s] = r /\ pc'[s] = "readUser"
        /\ pc[s] = "createRoom"
    BY <1>1 DEF CreateRoom, Goto, Holds, TypeOK
  <2>2. QED
    BY <2>1 DEF HandlerShape
<1>2. CASE ~(CreateRoom(s) /\ r = target[s])
  <2>1. ~(EnterRoom(s) /\ r = target[s])
    <3>1. SUFFICES ASSUME EnterRoom(s), r = target[s] PROVE FALSE
      OBVIOUS
    <3>2. /\ rooms'[r].userCount = rooms[r].userCount + 1
          /\ rooms[r].userCount \in Nat
      BY <3>1, EnterRoomEffect, Entries DEF RoomType
    <3>3. QED
      BY <3>2
  <2>2. r \in RoomIds /\ rooms[r].state = "open" /\ rooms[r].userCount = 0
    <3>1. CASE UNCHANGED rooms
      BY <3>1 DEF RoomIds
    <3>2. CASE MakeRoom(s)
      BY <3>2, MakeRoomEffect
    <3>3. CASE CreateRoom(s)
      BY <1>2, <3>3, CreateRoomEffect
    <3>4. CASE EnterRoom(s)
      BY <2>1, <3>4, EnterRoomEffect
    <3>5. CASE LeaveOnDisconnect(s)
      <4>1. r # users[user[s]].room
        <5>1. SUFFICES ASSUME r = users[user[s]].room PROVE FALSE
          OBVIOUS
        <5>2. /\ rooms[r].userCount \in Nat \ {0}
              /\ rooms'[r].userCount = rooms[r].userCount - 1
              /\ rooms'[r].state =
                   IF rooms[r].userCount = 1 THEN "closed" ELSE "open"
          BY <3>5, <5>1, LeaveEffect
        <5>3. QED
          BY <5>2
      <4>2. QED
        BY <3>5, <4>1, LeaveEffect
    <3>6. QED
      BY <3>1, <3>2, <3>3, <3>4, <3>5, RoomsChange
  <2>3. PICK h \in Sessions : /\ packet[h] = "C_CREATE_ROOM" /\ target[h] = r
                              /\ pc[h] \in {"readUser", "enterRoom"}
    BY <2>2 DEF EmptyRoomAwaitsHost, Open
  <2>4. CASE h # s
    BY <2>3, <2>4, OtherSessions
  <2>5. CASE h = s
    <3>1. HasPlace(r)
      BY <2>2, ServiceAssumption DEF HasPlace, Open
    <3>2. ~EnterRefused(s)
      BY <2>3, <2>5, <3>1 DEF EnterRefused
    <3>3. QED
      BY <2>1, <2>3, <2>5, <3>2, HostStep
  <2>6. QED
    BY <2>4, <2>5
<1>3. QED
  BY <1>1, <1>2

-----------------------------------------------------------------------------
(* The steps that may drop the last reference to a User run ~User.         *)
LetsGo(s) ==
  AssignUser(s) \/ CreateRoom(s) \/ EnterRefused(s) \/ EnterRoom(s)
    \/ ClearUser(s)

LEMMA LetsGoReleases ==
  ASSUME NEW s \in Sessions, LetsGo(s)
  PROVE  ReleaseNicknames
BY DEF LetsGo, AssignUser, CreateRoom, EnterRefused, EnterRoom, ClearUser

(* What handlers hold changes from nothing to the session's User, or from  *)
(* something to nothing where ~User is run.                                *)
LEMMA ArgStep ==
  ASSUME Inv, NEW s \in Sessions, Step(s), ~LetsGo(s)
  PROVE  \/ arg'[s] = arg[s]
         \/ arg[s] = NoUser /\ arg'[s] \in {NoUser, user[s]}
         \/ arg[s] = NoUser /\ \E n \in Nicknames : UseNickname(s, n)
<1> USE DEF Inv, TypeOK, Goto, Holds, Return, OnlyHandler, handler, Refuse,
            HandlerShape, LetsGo
<1>1. CASE Connect(s) \/ Disconnect(s) \/ Recv(s)
  BY <1>1 DEF Connect, Disconnect, Recv, RecvData, RecvZero, RecvDone, BadPacket
<1>2. CASE Login(s)
  BY <1>2 DEF Login, LoginRefused, UseNickname
<1>3. CASE Enter(s)
  BY <1>3 DEF Enter, MakeRoom, EnterPacket, ReadUser, RoomData
<1>4. CASE LeaveOrChat(s) \/ Finish(s)
  BY <1>4 DEF LeaveOrChat, LeaveRefused, LeavePacket, ChatRefused, ChatPacket,
              Finish, ListUsers, LeaveNothing, SendChat, LastUse
<1>5. CASE Close(s) \/ Die(s)
  BY <1>5 DEF Close, ProcessDisconnect, LeaveOnDisconnect, LeaveNoRoom,
              ReleaseSession, Die
<1>6. QED
  BY <1>1, <1>2, <1>3, <1>4, <1>5 DEF Step

(* Nobody gets a reference to a User that has none.                        *)
LEMMA NoResurrection ==
  ASSUME Inv, NEW s \in Sessions, Step(s), NEW u \in UserIds, Referenced(u)'
  PROVE  Referenced(u)
<1> TypeOK /\ HandlerShape
  BY DEF Inv
<1>1. u # NoUser
  BY Entries DEF NoUser
<1>2. \A t \in Sessions : t # s => user'[t] = user[t] /\ arg'[t] = arg[t]
  BY OtherSessions
<1>3. user'[s] \in {user[s], arg[s], NoUser}
  BY UserStep
<1>4. arg'[s] = u => u \in {user[s], arg[s]}
  <2>1. CASE LetsGo(s)
    <3>1. arg'[s] = NoUser \/ arg'[s] = arg[s]
      BY <2>1 DEF LetsGo, AssignUser, CreateRoom, EnterRefused, EnterRoom,
                  ClearUser, Return, Holds, handler, TypeOK
    <3>2. QED
      BY <1>1, <3>1
  <2>2. ASSUME NEW n \in Nicknames, UseNickname(s, n)
        PROVE  arg'[s] # u
    <3>1. arg'[s] = Len(users) + 1
      BY <2>2 DEF UseNickname, Holds, TypeOK
    <3>2. QED
      BY <2>2, <3>1, UseNicknameEffect
  <2>3. QED
    BY <1>1, <2>1, <2>2, ArgStep
<1>5. ASSUME NEW r \in RoomIds', u \in rooms'[r].users
      PROVE  u = arg[s] \/ \E q \in RoomIds : u \in rooms[q].users
  <2>1. CASE UNCHANGED rooms
    BY <1>5, <2>1 DEF RoomIds
  <2>2. CASE MakeRoom(s)
    BY <1>5, <2>2, MakeRoomEffect
  <2>3. CASE CreateRoom(s)
    BY <1>5, <2>3, CreateRoomEffect
  <2>4. CASE EnterRoom(s)
    BY <1>5, <2>4, EnterRoomEffect
  <2>5. CASE LeaveOnDisconnect(s)
    BY <1>5, <2>5, LeaveEffect
  <2>6. QED
    BY <2>1, <2>2, <2>3, <2>4, <2>5, RoomsChange
<1>6. CASE \E t \in Sessions : user'[t] = u
  BY <1>1, <1>2, <1>3, <1>6 DEF Referenced
<1>7. CASE \E t \in Sessions : arg'[t] = u
  BY <1>2, <1>4, <1>7 DEF Referenced
<1>8. CASE \E r \in RoomIds' : u \in rooms'[r].users
  BY <1>5, <1>8 DEF Referenced
<1>9. QED
  BY <1>6, <1>7, <1>8 DEF Referenced

(* Where ~User is not run, no User loses its last reference.               *)
LEMMA NothingLost ==
  ASSUME Inv, NEW s \in Sessions, Step(s), ~LetsGo(s),
         NEW u \in UserIds, Referenced(u)
  PROVE  Referenced(u)'
<1> TypeOK /\ HandlerShape
  BY DEF Inv
<1>1. u # NoUser
  BY Entries DEF NoUser
<1>2. \A t \in Sessions : user'[t] = user[t]
  BY OtherSessions, UserStep DEF LetsGo
<1>3. \A t \in Sessions : arg[t] = u => arg'[t] = u
  BY <1>1, OtherSessions, ArgStep
<1>4. ASSUME NEW r \in RoomIds, u \in rooms[r].users
      PROVE  \/ r \in RoomIds' /\ u \in rooms'[r].users
             \/ u = user[s]
  <2>1. CASE UNCHANGED rooms
    BY <1>4, <2>1 DEF RoomIds
  <2>2. CASE MakeRoom(s)
    BY <1>4, <2>2, MakeRoomEffect
  <2>3. CASE LeaveOnDisconnect(s)
    BY <1>4, <2>3, LeaveEffect
  <2>4. QED
    BY <2>1, <2>2, <2>3, RoomsChange DEF LetsGo
<1>5. QED
  BY <1>2, <1>3, <1>4 DEF Referenced

(* A nickname is in use exactly while a User has it.                       *)
LEMMA NicknamesStep ==
  ASSUME Inv, NEW s \in Sessions, Step(s)
  PROVE  NicknamesExact' /\ (LetsGo(s) => crash' = crash)
<1> TypeOK /\ NicknamesExact /\ HandlerShape
  BY DEF Inv
<1>1. /\ UserIds \subseteq UserIds'
      /\ \A u \in UserIds : users'[u].nickname = users[u].nickname
  BY UserFrame
<1>2. \A u \in LiveUsers' : u \in UserIds => u \in LiveUsers
  BY NoResurrection DEF LiveUsers
<1>3. /\ usedNickname = {users[u].nickname : u \in LiveUsers}
      /\ \A u, v \in LiveUsers : users[u].nickname = users[v].nickname => u = v
  BY DEF NicknamesExact
<1>4. CASE LetsGo(s)
  <2>1. UserIds' = UserIds
    <3>1. UNCHANGED users \/ EnterRoom(s)
      BY <1>4 DEF LetsGo, AssignUser, CreateRoom, EnterRefused, ClearUser
    <3>2. QED
      BY <3>1, EnterRoomEffect DEF UserIds
  <2>2. LiveUsers' \subseteq LiveUsers
    BY <1>2, <2>1 DEF LiveUsers
  <2>3. Destroyed = LiveUsers \ LiveUsers'
    BY <2>1 DEF Destroyed, LiveUsers
  <2>4. /\ usedNickname' = usedNickname \ {users[u].nickname : u \in Destroyed}
        /\ {users[u].nickname : u \in Destroyed} \subseteq usedNickname
             => crash' = crash
    BY <1>4, LetsGoReleases DEF ReleaseNicknames
  <2>5. {users[u].nickname : u \in Destroyed} \subseteq usedNickname
    BY <1>3, <2>3
  <2>6. usedNickname' = {users[u].nickname : u \in LiveUsers'}
    BY <1>3, <2>2, <2>3, <2>4
  <2>7. \A u \in LiveUsers' : users'[u].nickname = users[u].nickname
    BY <1>1, <2>2 DEF LiveUsers
  <2>8. NicknamesExact'
    BY <1>3, <2>2, <2>6, <2>7 DEF NicknamesExact
  <2>9. QED
    BY <2>4, <2>5, <2>8
<1>5. ASSUME NEW n \in Nicknames, UseNickname(s, n), ~LetsGo(s)
      PROVE  NicknamesExact'
  <2> DEFINE new == Len(users) + 1
  <2>1. /\ UserIds' = UserIds \union {new} /\ new \notin UserIds
        /\ users'[new].nickname = n
    BY <1>5, UseNicknameEffect
  <2>2. LiveUsers' = LiveUsers \union {new}
    <3>1. arg'[s] = new
      BY <1>5 DEF UseNickname, Holds, TypeOK
    <3>2. new \in LiveUsers'
      BY <2>1, <3>1 DEF LiveUsers, Referenced
    <3>3. LiveUsers \subseteq LiveUsers'
      BY <1>5, <2>1, NothingLost DEF LiveUsers
    <3>4. LiveUsers' \subseteq LiveUsers \union {new}
      BY <1>2, <2>1 DEF LiveUsers
    <3>5. QED
      BY <3>2, <3>3, <3>4
  <2>3. usedNickname' = usedNickname \union {n} /\ n \notin usedNickname
    BY <1>5 DEF UseNickname, NicknameFree
  <2>4. \A u \in LiveUsers : u # new /\ users'[u].nickname = users[u].nickname
    BY <1>1, <2>1 DEF LiveUsers
  <2> HIDE DEF new
  <2>5. usedNickname' = {users'[u].nickname : u \in LiveUsers'}
    BY <1>3, <2>1, <2>2, <2>3, <2>4
  <2>6. \A u \in LiveUsers : users[u].nickname # n
    BY <1>3, <2>3
  <2>7. QED
    BY <1>3, <2>1, <2>2, <2>4, <2>5, <2>6 DEF NicknamesExact
<1>6. CASE ~LetsGo(s) /\ ~\E n \in Nicknames : UseNickname(s, n)
  <2>1. UNCHANGED <<usedNickname, users>>
    BY <1>6 DEF LetsGo, Step, Connect, Disconnect, Recv, RecvData, RecvZero,
                RecvDone, BadPacket, Login, LoginRefused, Enter, MakeRoom,
                EnterPacket, ReadUser, RoomData, LeaveOrChat, LeaveRefused,
                LeavePacket, ChatRefused, ChatPacket, Finish, ListUsers,
                LeaveNothing, SendChat, LastUse, Close, ProcessDisconnect,
                LeaveOnDisconnect, LeaveNoRoom, ReleaseSession, Die,
                OnlyHandler
  <2>2. LiveUsers' = LiveUsers
    BY <1>2, <1>6, <2>1, NothingLost DEF LiveUsers, UserIds
  <2>3. QED
    BY <1>3, <1>6, <2>1, <2>2 DEF NicknamesExact
<1>7. QED
  BY <1>4, <1>5, <1>6

(* The asserts: a nickname that is given back is in use, a session that is *)
(* released is in the Service, a room that is closed is in _rooms.         *)
LEMMA AssertsStep ==
  ASSUME Inv, NEW s \in Sessions, Step(s), crash = "no"
  PROVE  AssertsHold'
<1>1. CASE LetsGo(s)
  BY <1>1, NicknamesStep DEF AssertsHold
<1>2. CASE LeaveOnDisconnect(s)
  BY <1>2, LeaveEffect DEF AssertsHold
<1>3. CASE ReleaseSession(s)
  BY <1>3 DEF Inv, Registered, ReleaseSession, AssertsHold
<1>4. CASE Die(s)
  BY <1>4 DEF Die, AssertsHold
<1>5. CASE ~LetsGo(s) /\ ~LeaveOnDisconnect(s) /\ ~ReleaseSession(s) /\ ~Die(s)
  <2>1. UNCHANGED crash
    BY <1>5 DEF LetsGo, Step, Connect, Disconnect, Recv, RecvData, RecvZero,
                RecvDone, BadPacket, Login, LoginRefused, UseNickname, Enter,
                MakeRoom, EnterPacket, ReadUser, RoomData, LeaveOrChat,
                LeaveRefused, LeavePacket, ChatRefused, ChatPacket, Finish,
                ListUsers, LeaveNothing, SendChat, LastUse, Close,
                ProcessDisconnect, LeaveNoRoom, OnlyHandler
  <2>2. QED
    BY <2>1 DEF AssertsHold
<1>6. QED
  BY <1>1, <1>2, <1>3, <1>4, <1>5

-----------------------------------------------------------------------------
LEMMA InvInit ==
  ASSUME Init
  PROVE  Inv
<1> USE DEF Init, NoUser, NoRoom, Lives, PCs, Causes, UserIds, RoomIds
<1>1. users \in Seq(UserType) /\ rooms \in Seq(RoomType)
  BY EmptySeq
<1>2. UserIds = {} /\ RoomIds = {}
  OBVIOUS
<1>3. TypeOK
  BY <1>1, <1>2 DEF TypeOK
<1>4. LiveUsers = {}
  BY <1>2 DEF LiveUsers
<1>5. NicknamesExact
  BY <1>4 DEF NicknamesExact
<1>6. CountCoversMembers /\ ClosedRoomEmpty /\ EmptyRoomAwaitsHost
  BY <1>2 DEF CountCoversMembers, ClosedRoomEmpty, EmptyRoomAwaitsHost
<1>7. CurrentRoomHasUser /\ AssertsHold /\ HandlerShape /\ Ownership /\ Registered
  BY DEF CurrentRoomHasUser, AssertsHold, HandlerShape, Ownership, Registered
<1>8. QED
  BY <1>3, <1>5, <1>6, <1>7 DEF Inv

LEMMA InvStep ==
  ASSUME Inv, [Next]_vars
  PROVE  Inv'
<1>1. ASSUME NEW s \in Sessions, Step(s), crash = "no"
      PROVE  Inv'
  BY <1>1, TypeStep, NicknamesStep, RoomsStep, EmptyRoomStep, CurrentRoomStep,
     AssertsStep, HandlerShapeStep, OwnershipStep, RegisteredStep DEF Inv
<1>2. CASE UNCHANGED vars
  BY <1>2, TypeStep DEF vars, Inv, NicknamesExact, LiveUsers, Referenced,
     CountCoversMembers, ClosedRoomEmpty, EmptyRoomAwaitsHost, Open,
     CurrentRoomHasUser, AssertsHold, HandlerShape, Ownership, Registered,
     UserIds, RoomIds
<1>3. QED
  BY <1>1, <1>2 DEF Next, Step

LEMMA InvAlways == Spec => []Inv
<1>1. Init => Inv
  BY InvInit
<1>2. Inv /\ [Next]_vars => Inv'
  BY InvStep
<1>3. QED
  BY <1>1, <1>2, PTL DEF Spec

(* Type correctness, in particular: no count of a room ever goes below 0.  *)
THEOREM TypeCorrect == Spec => []TypeOK
<1>1. Inv => TypeOK
  BY DEF Inv
<1>2. QED
  BY <1>1, InvAlways, PTL

(* A nickname is taken exactly while one live User carries it.             *)
THEOREM NicknamesAreExact == Spec => []NicknamesExact
<1>1. Inv => NicknamesExact
  BY DEF Inv
<1>2. QED
  BY <1>1, InvAlways, PTL

(* A room counts at least its members and at most its capacity.            *)
THEOREM CountsCoverMembers == Spec => []CountCoversMembers
<1>1. Inv => CountCoversMembers
  BY DEF Inv
<1>2. QED
  BY <1>1, InvAlways, PTL

(* A room that CloseRoom dropped has no members.                           *)
THEOREM RoomsCloseWhenEmpty == Spec => []ClosedRoomEmpty
<1>1. Inv => ClosedRoomEmpty
  BY DEF Inv
<1>2. QED
  BY <1>1, InvAlways, PTL

(* An open room that counts nobody has its host on the way in.             *)
THEOREM EmptyRoomsAwaitHost == Spec => []EmptyRoomAwaitsHost
<1>1. Inv => EmptyRoomAwaitsHost
  BY DEF Inv
<1>2. QED
  BY <1>1, InvAlways, PTL

(* The room a User points at is open and reaches the User.                 *)
THEOREM CurrentRoomReachesUser == Spec => []CurrentRoomHasUser
<1>1. Inv => CurrentRoomHasUser
  BY DEF Inv
<1>2. QED
  BY <1>1, InvAlways, PTL

(* No ASSERT_CRASH of Service or RoomManager fires.                        *)
THEOREM NoAssertFires == Spec => []AssertsHold
<1>1. Inv => AssertsHold
  BY DEF Inv
<1>2. QED
  BY <1>1, InvAlways, PTL

(* A closed room stays closed and empty.                                   *)
THEOREM RoomsStayClosed == Spec => ClosedForGood
<1> DEFINE Stays == \A r \in RoomIds :
                      rooms[r].state = "closed" => rooms'[r] = rooms[r]
<1>1. Inv /\ [Next]_vars => [Stays]_vars
  <2>1. ASSUME Inv, NEW s \in Sessions, Step(s)
        PROVE  Stays
    BY <2>1, RoomFrame
  <2>2. QED
    BY <2>1 DEF Next, Step
<1>2. QED
  BY <1>1, InvAlways, PTL DEF Spec, ClosedForGood
=============================================================================
