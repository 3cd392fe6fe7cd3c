--------------------------- MODULE RoomBroadcast ---------------------------
(***************************************************************************)
(* The notices and chats of one room, under the locks of RoomManager       *)
(* (_mutex) and Room (_sMutex): who holds them while a broadcast goes      *)
(* round, and what each member is told of those who enter and leave.       *)
(*                                                                         *)
(* ChatService takes the sections of RoomManager whole; here they are cut  *)
(* where a thread may wait.  A section that takes no further lock is one   *)
(* step: the exclusive ones of Room, and those of Session::_mutex in Send, *)
(* which are the innermost.  What is left are the manager's lock, and the  *)
(* shared lock of a broadcast below it.                                    *)
(*                                                                         *)
(* The clients keep to the protocol: each enters once, after its login.    *)
(***************************************************************************)
EXTENDS Integers, Sequences, FiniteSets

CONSTANTS
  Users,      \* the ids of the users that may come, each with a session
  Nobody,     \* holds a lock that is free
  Capacity,   \* Room::_maxUser
  MaxRequests    \* bound on the C_ENTER_ROOM and C_CHAT packets

ASSUME RoomAssumption ==
  Users \subseteq Nat /\ Capacity \in Nat \ {0} /\ MaxRequests \in Nat

(* The workers that handle a user's packets and its ProcessDisconnect. *)
Threads == Users \X {"recv", "close"}
ASSUME NobodyAssumption == Nobody \notin Threads

VARIABLES
  connected,  \* users whose session is connected
  users,      \* Room::_users
  entered,    \* users whose room is set; Leave does not reset it
  gone,       \* users whose session has dropped them (_user = nullptr)
  open,       \* the room is in RoomManager::_rooms
  crashed,    \* a handler followed a null pointer
  manager,    \* holder of RoomManager::_mutex
  readers,    \* holders of Room::_sMutex, shared
  pc, packet, todo, \* per thread: where it is, what it sends, to whom still
  due,        \* history: per user, the notices it has still to get
  misled,     \* history: users that got a notice out of turn
  known, lost,\* history: per user, who it was told of, and who has left
  requests    \* number of those packets so far

locks == <<manager, readers>>
told == <<misled, known, lost>>
sending == <<packet, todo, due, told>>
members == <<users, entered, open>>
vars == <<connected, members, gone, crashed, locks, pc, sending, requests>>

Notices == {"enter", "leave"} \X Users
Packets == Notices \union ({"chat"} \X Users) \union ({"list"} \X SUBSET Users)
NoPacket == <<"list", {}>>
(* "enter", "data", "leave" wait for the manager's lock, "insert", "list", *)
(* "erase" for the room's, "notify" for a share of it.                     *)
PCs == {"rest", "enter", "insert", "notify", "send", "data", "list", "reply",
        "leave", "erase", "clear"}

Init ==
  /\ connected = Users
  /\ users = {} /\ entered = {} /\ gone = {}
  /\ open = TRUE /\ crashed = FALSE
  /\ manager = Nobody /\ readers = {}
  /\ pc = [t \in Threads |-> "rest"]
  /\ packet = [t \in Threads |-> NoPacket]
  /\ todo = [t \in Threads |-> {}]
  /\ due = [u \in Users |-> <<>>]
  /\ misled = {}
  /\ known = [u \in Users |-> {}]
  /\ lost = [u \in Users |-> {}]
  /\ requests = 0

-----------------------------------------------------------------------------
(* Helpers, each after the mutants that stand for slips in it. *)

Go(t, from, to) == pc[t] = from /\ pc' = [pc EXCEPT ![t] = to]

LockManager(t) == manager = Nobody /\ manager' = t

RoomNotSet(u) == entered' = entered   \* mutant: Enter sets no user->room
SetRoom(u) == entered' = entered \union {u}

RoomFree == readers = {}

NearlyLast(u) == Cardinality(users) <= 2    \* mutant: one left is none
LastOne(u) == users = {u}

LocksAgain == manager = Nobody   \* mutant: CloseRoom takes the manager's lock
CloseRoomMay == TRUE

ReleasedEarly(t) == manager' = Nobody   \* mutant: notices without the lock
KeepManager(t) == manager' = manager

(* From now on the members are to be told of p. *)
Announce(t, p) ==
  /\ packet' = [packet EXCEPT ![t] = p]
  /\ due' = [u \in Users |-> IF u \in users' \intersect connected
                            THEN Append(due[u], p) ELSE <<>>]

(* Session::Send, as far as the client learns of members. *)
SendTo(u, p) ==
  IF u \notin connected \/ p[1] = "chat" THEN UNCHANGED <<due, told>>
  ELSE /\ IF p \notin Notices THEN UNCHANGED <<due, misled>>
          ELSE IF due[u] # <<>> /\ Head(due[u]) = p
          THEN due' = [due EXCEPT ![u] = Tail(@)] /\ UNCHANGED misled
          ELSE misled' = misled \union {u} /\ UNCHANGED due
       /\ known' = CASE p[1] = "enter" -> [known EXCEPT ![u] = @ \union {p[2]}]
                     [] p[1] = "list" -> [known EXCEPT ![u] = @ \union p[2]]
                     [] OTHER -> known
       /\ lost' = IF p[1] = "leave" THEN [lost EXCEPT ![u] = @ \union {p[2]}] ELSE lost

-----------------------------------------------------------------------------
(* C_ENTER_ROOM. *)

HandleEnterRoom(u) ==
  /\ u \notin entered /\ u \notin gone /\ requests < MaxRequests
  /\ Go(<<u, "recv">>, "rest", "enter")
  /\ requests' = requests + 1
  /\ UNCHANGED <<connected, members, gone, crashed, locks, sending>>

NoSuchRoom(u) ==
  /\ ~open /\ manager = Nobody
  /\ Go(<<u, "recv">>, "enter", "rest")
  /\ UNCHANGED <<connected, members, gone, crashed, locks, sending, requests>>

EnterRoom(u) ==
  /\ open
  /\ Go(<<u, "recv">>, "enter", "insert")
  /\ LockManager(<<u, "recv">>)
  /\ UNCHANGED <<connected, members, gone, crashed, readers, sending, requests>>

RoomIsFull(u) ==
  /\ RoomFree /\ Cardinality(users) >= Capacity
  /\ Go(<<u, "recv">>, "insert", "rest")
  /\ manager' = Nobody
  /\ UNCHANGED <<connected, members, gone, crashed, readers, sending, requests>>

Enter(u) ==
  /\ RoomFree /\ Cardinality(users) < Capacity
  /\ Go(<<u, "recv">>, "insert", "notify")
  /\ users' = users \union {u}
  /\ SetRoom(u)
  /\ Announce(<<u, "recv">>, <<"enter", u>>)
  /\ KeepManager(<<u, "recv">>)
  /\ UNCHANGED <<connected, gone, open, crashed, readers, todo, told, requests>>

(* _rooms[roomId] of a room that was closed meanwhile is a null pointer. *)
GetRoomData(u) ==
  /\ manager = Nobody
  /\ Go(<<u, "recv">>, "data", "list")
  /\ crashed' = ~open
  /\ UNCHANGED <<connected, members, gone, locks, sending, requests>>

(* session->_user->room->GetUsersList() *)
GetUsersList(u) ==
  /\ RoomFree
  /\ Go(<<u, "recv">>, "list", "reply")
  /\ crashed' = (u \in gone)
  /\ packet' = [packet EXCEPT ![<<u, "recv">>] = <<"list", users>>]
  /\ UNCHANGED <<connected, members, gone, locks, todo, due, told,
                 requests>>

Reply(u) ==
  /\ Go(<<u, "recv">>, "reply", "rest")
  /\ SendTo(u, packet[<<u, "recv">>])
  /\ packet' = [packet EXCEPT ![<<u, "recv">>] = NoPacket]
  /\ UNCHANGED <<connected, members, gone, crashed, locks, todo, requests>>

-----------------------------------------------------------------------------
(* C_CHAT, and the broadcasts of all three. *)

HandleChat(u) ==
  /\ u \in entered /\ u \notin gone /\ requests < MaxRequests
  /\ Go(<<u, "recv">>, "rest", "notify")
  /\ packet' = [packet EXCEPT ![<<u, "recv">>] = <<"chat", u>>]
  /\ requests' = requests + 1
  /\ UNCHANGED <<connected, members, gone, crashed, locks, todo, due, told>>

Broadcast(t) ==
  /\ Go(t, "notify", "send")
  /\ readers' = readers \union {t}
  /\ todo' = [todo EXCEPT ![t] = users]
  /\ UNCHANGED <<connected, members, gone, crashed, manager, packet, due,
                 told, requests>>

(* The map is in the order of the ids. *)
SendNext(t) ==
  \E u \in todo[t] :
    /\ pc[t] = "send"
    /\ \A v \in todo[t] : u <= v
    /\ SendTo(u, packet[t])
    /\ todo' = [todo EXCEPT ![t] = @ \ {u}]
    /\ UNCHANGED <<connected, members, gone, crashed, locks, pc, packet, requests>>

EndBroadcast(t) ==
  /\ todo[t] = {}
  /\ LET kind == packet[t][1]
     IN /\ Go(t, "send", CASE kind = "enter" -> "data" [] kind = "leave" -> "clear"
                           [] OTHER -> "rest")
        /\ manager' = IF kind = "chat" THEN manager ELSE Nobody
  /\ readers' = readers \ {t}
  /\ packet' = [packet EXCEPT ![t] = NoPacket]
  /\ UNCHANGED <<connected, members, gone, crashed, todo, due, told, requests>>

-----------------------------------------------------------------------------
(* The end of a session. *)

Disconnect(u) ==
  /\ u \in connected
  /\ connected' = connected \ {u}
  /\ due' = [due EXCEPT ![u] = <<>>]
  /\ misled' = misled \ {u}
  /\ known' = [known EXCEPT ![u] = {}] /\ lost' = [lost EXCEPT ![u] = {}]
  /\ UNCHANGED <<members, gone, crashed, locks, pc, packet, todo, requests>>

ProcessDisconnect(u) ==
  /\ u \notin connected /\ u \notin gone
  /\ Go(<<u, "close">>, "rest", IF u \in entered THEN "leave" ELSE "clear")
  /\ UNCHANGED <<connected, members, gone, crashed, locks, sending, requests>>

LeaveRoom(u) ==
  /\ Go(<<u, "close">>, "leave", "erase")
  /\ LockManager(<<u, "close">>)
  /\ UNCHANGED <<connected, members, gone, crashed, readers, sending, requests>>

(* The last one closes the room and returns; the others are told. *)
Leave(u) ==
  /\ RoomFree
  /\ users' = users \ {u}
  /\ \/ /\ LastOne(u) /\ CloseRoomMay
        /\ Go(<<u, "close">>, "erase", "clear")
        /\ open' = FALSE
        /\ manager' = Nobody
        /\ UNCHANGED <<packet, due>>
     \/ /\ ~LastOne(u)
        /\ Go(<<u, "close">>, "erase", "notify")
        /\ Announce(<<u, "close">>, <<"leave", u>>)
        /\ KeepManager(<<u, "close">>)
        /\ UNCHANGED open
  /\ UNCHANGED <<connected, entered, gone, crashed, readers, todo, told, requests>>

ClearUser(u) ==
  /\ Go(<<u, "close">>, "clear", "rest")
  /\ gone' = gone \union {u}
  /\ UNCHANGED <<connected, members, crashed, locks, sending, requests>>

-----------------------------------------------------------------------------
EnterStep(u) ==
  \/ NoSuchRoom(u) \/ EnterRoom(u) \/ RoomIsFull(u) \/ Enter(u)
  \/ GetRoomData(u) \/ GetUsersList(u) \/ Reply(u)

LeaveStep(u) == LeaveRoom(u) \/ Leave(u) \/ ClearUser(u)

BroadcastStep(t) == Broadcast(t) \/ SendNext(t) \/ EndBroadcast(t)

Client(u) ==
  \/ HandleEnterRoom(u) \/ HandleChat(u) \/ Disconnect(u) \/ ProcessDisconnect(u)

Next ==
  /\ ~crashed
  /\ \/ \E u \in Users : EnterStep(u) \/ LeaveStep(u) \/ Client(u)
     \/ \E t \in Threads : BroadcastStep(t)

Spec == Init /\ [][Next]_vars

(* A worker goes on when the lock it waits for is free.  The operations    *)
(* are bounded, so nobody is overtaken for ever.                           *)
Fairness ==
  /\ \A u \in Users : WF_vars(~crashed /\ EnterStep(u)) /\ WF_vars(~crashed /\ LeaveStep(u))
  /\ \A t \in Threads : WF_vars(~crashed /\ BroadcastStep(t))
FairSpec == Spec /\ Fairness

-----------------------------------------------------------------------------
(* Types of the variables. *)
TypeOK ==
  /\ connected \subseteq Users /\ entered \subseteq Users /\ gone \subseteq Users
  /\ users \subseteq entered
  /\ open \in BOOLEAN /\ crashed \in BOOLEAN
  /\ manager \in Threads \union {Nobody} /\ readers \subseteq Threads
  /\ pc \in [Threads -> PCs]
  /\ packet \in [Threads -> Packets]
  /\ todo \in [Threads -> SUBSET Users]
  /\ due \in [Users -> Seq(Notices)]
  /\ misled \subseteq Users
  /\ known \in [Users -> SUBSET Users] /\ lost \in [Users -> SUBSET Users]
  /\ requests \in 0 .. MaxRequests

(* What the loop of Broadcast has still to visit is in the map: nobody     *)
(* inserts or erases while a thread goes through it.                       *)
IterationSafe == \A t \in Threads : todo[t] \subseteq users

(* A member is told who enters and leaves from its own entry on, each once *)
(* and in the order it happened; when the manager is free it knows all.    *)
NoticesInOrder ==
  \A u \in users \intersect connected :
    u \notin misled /\ (manager = Nobody => due[u] = <<>>)

(* The list of S_ENTER_ROOM is made and sent without the manager's lock,   *)
(* so notices newer than the list may come before it.  A client that takes *)
(* all who were listed or entered, but those who left, has the members.    *)
ViewExact ==
  \A u \in users \intersect connected :
    manager = Nobody /\ pc[<<u, "recv">>] \notin {"data", "list", "reply"} =>
      users = known[u] \ lost[u]

(* For its members the room is one where users enter and leave at single   *)
(* instants: an open room with a place stays so from the tests to the      *)
(* insertion, and nobody gets into one that was closed meanwhile.          *)
Room == INSTANCE RoomMembers WITH members <- users, former <- entered \ users
ImplementsMembers == Room!MembersSpec

(* No worker waits for ever, not on a lock another one holds while it      *)
(* waits itself, and not on one it holds: the requests are bounded, so in  *)
(* the end all workers rest.                                               *)
OperationsEnd == <>[](crashed \/ \A t \in Threads : pc[t] = "rest")
=============================================================================
