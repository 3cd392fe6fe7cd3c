------------------------ MODULE RoomBroadcastProofs ------------------------
(***************************************************************************)
(* Proofs about RoomBroadcast, for any users, capacity and requests.       *)
(*                                                                         *)
(* Places says where a thread can be and what it sends there, Locks which  *)
(* locks it holds there, and Roles what is known of the user it works for. *)
(* Due: a member still has to get a notice exactly while the holder of the *)
(* manager's lock announces it and has not reached the member.  View: a    *)
(* member knows the others but for that notice and for the list its own    *)
(* recv thread has still to send; who has left never comes back.           *)
(*                                                                         *)
(* The last two parts are about the order of the locks and the progress of *)
(* the operations, and about RoomMembers, which the room implements.       *)
(***************************************************************************)
EXTENDS RoomBroadcast, SequenceTheorems, TLAPS

-----------------------------------------------------------------------------
(* Types. *)

LEMMA PacketKinds ==
  ASSUME NEW p \in Packets
  PROVE  /\ p[1] \in {"enter", "leave"} => p \in Notices /\ p[2] \in Users
         /\ p[1] \in {"chat", "list"} => p \notin Notices
         /\ p[1] = "list" => p[2] \in SUBSET Users
         /\ p[1] \in {"enter", "leave", "chat", "list"}
  BY DEF Packets, Notices

LEMMA MadePackets ==
  ASSUME NEW u \in Users, NEW us \in SUBSET Users
  PROVE  /\ <<"enter", u>> \in Notices /\ <<"leave", u>> \in Notices
         /\ Notices \subseteq Packets /\ <<"chat", u>> \in Packets
         /\ <<"list", us>> \in Packets
         /\ <<u, "recv">> \in Threads /\ <<u, "close">> \in Threads
  BY DEF Packets, Notices, Threads

LEMMA NoPacketType == NoPacket \in Packets
  BY DEF Packets, NoPacket

LEMMA SendTypes ==
  ASSUME TypeOK, NEW u \in Users, NEW p \in Packets, SendTo(u, p)
  PROVE  /\ due' \in [Users -> Seq(Notices)] /\ misled' \subseteq Users
         /\ known' \in [Users -> SUBSET Users] /\ lost' \in [Users -> SUBSET Users]
<1>1. CASE u \notin connected \/ p[1] = "chat"
  BY <1>1 DEF SendTo, TypeOK, told
<1>2. CASE ~(u \notin connected \/ p[1] = "chat")
  <2>1. due' \in [Users -> Seq(Notices)] /\ misled' \subseteq Users
    <3>1. CASE p \notin Notices
      BY <1>2, <3>1 DEF SendTo, TypeOK
    <3>2. CASE p \in Notices /\ due[u] # <<>> /\ Head(due[u]) = p
      <4>1. Tail(due[u]) \in Seq(Notices)
        BY <3>2 DEF TypeOK
      <4> QED BY <1>2, <3>2, <4>1 DEF SendTo, TypeOK
    <3>3. CASE p \in Notices /\ ~(due[u] # <<>> /\ Head(due[u]) = p)
      BY <1>2, <3>3 DEF SendTo, TypeOK
    <3> QED BY <3>1, <3>2, <3>3
  <2>2. known' \in [Users -> SUBSET Users]
    <3>1. CASE p[1] = "enter"
      <4>1. known' = [known EXCEPT ![u] = @ \union {p[2]}]
        BY <1>2, <3>1 DEF SendTo
      <4>2. p[2] \in Users
        BY <3>1, PacketKinds
      <4> QED BY <4>1, <4>2 DEF TypeOK
    <3>2. CASE p[1] = "list"
      <4>1. known' = [known EXCEPT ![u] = @ \union p[2]]
        BY <1>2, <3>2 DEF SendTo
      <4>2. p[2] \in SUBSET Users
        BY <3>2, PacketKinds
      <4> QED BY <4>1, <4>2 DEF TypeOK
    <3>3. CASE p[1] \notin {"enter", "list"}
      BY <1>2, <3>3 DEF SendTo, TypeOK
    <3> QED BY <3>1, <3>2, <3>3
  <2>3. lost' \in [Users -> SUBSET Users]
    <3>1. CASE p[1] = "leave"
      <4>1. lost' = [lost EXCEPT ![u] = @ \union {p[2]}]
        BY <1>2, <3>1 DEF SendTo
      <4>2. p[2] \in Users
        BY <3>1, PacketKinds
      <4> QED BY <4>1, <4>2 DEF TypeOK
    <3>2. CASE p[1] # "leave"
      <4>1. lost' = lost
        BY <1>2, <3>2 DEF SendTo
      <4> QED BY <4>1 DEF TypeOK
    <3> QED BY <3>1, <3>2
  <2> QED BY <2>1, <2>2, <2>3
<1> QED BY <1>1, <1>2

LEMMA AnnounceTypes ==
  ASSUME TypeOK, NEW t \in Threads, NEW p \in Notices, Announce(t, p)
  PROVE  packet' \in [Threads -> Packets] /\ due' \in [Users -> Seq(Notices)]
  BY DEF Announce, TypeOK, Packets

LEMMA TypeInit == Init => TypeOK
<1> SUFFICES ASSUME Init PROVE TypeOK
  OBVIOUS
<1>1. packet \in [Threads -> Packets]
  BY NoPacketType DEF Init
<1>2. due \in [Users -> Seq(Notices)]
  BY DEF Init
<1>3. pc \in [Threads -> PCs]
  BY DEF Init, PCs
<1>4. requests \in 0 .. MaxRequests
  BY RoomAssumption DEF Init
<1>5. /\ known \in [Users -> SUBSET Users] /\ lost \in [Users -> SUBSET Users]
      /\ todo \in [Threads -> SUBSET Users]
  BY DEF Init
<1> QED BY <1>1, <1>2, <1>3, <1>4, <1>5 DEF Init, TypeOK

LEMMA TypeStep == TypeOK /\ [Next]_vars => TypeOK'
<1> SUFFICES ASSUME TypeOK, [Next]_vars PROVE TypeOK'
  OBVIOUS
<1> USE DEF Go, locks, told, sending, members
<1>1. ASSUME NEW u \in Users, EnterStep(u) PROVE TypeOK'
  <2> DEFINE t == <<u, "recv">>
  <2>0. t \in Threads
    BY MadePackets
  <2> HIDE DEF t
  <2>1. CASE NoSuchRoom(u)
    BY <2>0, <2>1 DEF NoSuchRoom, TypeOK, PCs, t
  <2>2. CASE EnterRoom(u)
    BY <2>0, <2>2 DEF EnterRoom, LockManager, TypeOK, PCs, t
  <2>3. CASE RoomIsFull(u)
    BY <2>0, <2>3 DEF RoomIsFull, TypeOK, PCs, t
  <2>4. CASE Enter(u)
    <3>1. packet' \in [Threads -> Packets] /\ due' \in [Users -> Seq(Notices)]
      BY <2>0, <2>4, MadePackets, AnnounceTypes DEF Enter, t
    <3> QED BY <2>0, <2>4, <3>1 DEF Enter, SetRoom, KeepManager, TypeOK, PCs, t
  <2>5. CASE GetRoomData(u)
    BY <2>0, <2>5 DEF GetRoomData, TypeOK, PCs, t
  <2>6. CASE GetUsersList(u)
    <3>1. <<"list", users>> \in Packets
      BY MadePackets DEF TypeOK
    <3> QED BY <2>0, <2>6, <3>1 DEF GetUsersList, TypeOK, PCs, t
  <2>7. CASE Reply(u)
    <3>1. packet[t] \in Packets /\ NoPacket \in Packets
      BY <2>0, NoPacketType DEF TypeOK
    <3>2. /\ due' \in [Users -> Seq(Notices)] /\ misled' \subseteq Users
          /\ known' \in [Users -> SUBSET Users] /\ lost' \in [Users -> SUBSET Users]
      BY <2>7, <3>1, SendTypes DEF Reply, t
    <3> QED BY <2>0, <2>7, <3>1, <3>2 DEF Reply, TypeOK, PCs, t
  <2> QED BY <1>1, <2>1, <2>2, <2>3, <2>4, <2>5, <2>6, <2>7 DEF EnterStep
<1>2. ASSUME NEW u \in Users, LeaveStep(u) PROVE TypeOK'
  <2> DEFINE t == <<u, "close">>
  <2>0. t \in Threads
    BY MadePackets
  <2> HIDE DEF t
  <2>1. CASE LeaveRoom(u)
    BY <2>0, <2>1 DEF LeaveRoom, LockManager, TypeOK, PCs, t
  <2>2. CASE Leave(u)
    <3>1. packet' \in [Threads -> Packets] /\ due' \in [Users -> Seq(Notices)]
      <4>1. CASE Announce(t, <<"leave", u>>)
        BY <2>0, <4>1, MadePackets, AnnounceTypes
      <4>2. CASE UNCHANGED <<packet, due>>
        BY <4>2 DEF TypeOK
      <4> QED BY <2>2, <4>1, <4>2 DEF Leave, t
    <3> QED BY <2>0, <2>2, <3>1 DEF Leave, KeepManager, TypeOK, PCs, t
  <2>3. CASE ClearUser(u)
    BY <2>0, <2>3 DEF ClearUser, TypeOK, PCs, t
  <2> QED BY <1>2, <2>1, <2>2, <2>3 DEF LeaveStep
<1>3. ASSUME NEW t \in Threads, BroadcastStep(t) PROVE TypeOK'
  <2>1. CASE Broadcast(t)
    BY <2>1 DEF Broadcast, TypeOK, PCs
  <2>2. CASE SendNext(t)
    <3>1. PICK u \in todo[t] :
            /\ SendTo(u, packet[t])
            /\ todo' = [todo EXCEPT ![t] = @ \ {u}]
            /\ UNCHANGED <<connected, members, gone, crashed, locks, pc, packet, requests>>
      BY <2>2 DEF SendNext
    <3>2. u \in Users /\ packet[t] \in Packets
      BY DEF TypeOK
    <3> QED BY <3>1, <3>2, SendTypes DEF TypeOK
  <2>3. CASE EndBroadcast(t)
    BY <2>3, NoPacketType DEF EndBroadcast, TypeOK, PCs
  <2> QED BY <1>3, <2>1, <2>2, <2>3 DEF BroadcastStep
<1>4. ASSUME NEW u \in Users, Client(u) PROVE TypeOK'
  <2>1. <<u, "recv">> \in Threads /\ <<u, "close">> \in Threads
    BY MadePackets
  <2>2. CASE HandleEnterRoom(u)
    BY <2>1, <2>2, RoomAssumption DEF HandleEnterRoom, TypeOK, PCs
  <2>3. CASE HandleChat(u)
    <3>1. packet' \in [Threads -> Packets]
      BY <2>1, <2>3, MadePackets DEF HandleChat, TypeOK
    <3> QED BY <2>1, <2>3, <3>1, RoomAssumption DEF HandleChat, TypeOK, PCs
  <2>4. CASE Disconnect(u)
    BY <2>4 DEF Disconnect, TypeOK
  <2>5. CASE ProcessDisconnect(u)
    BY <2>1, <2>5 DEF ProcessDisconnect, TypeOK, PCs
  <2> QED BY <1>4, <2>2, <2>3, <2>4, <2>5 DEF Client
<1>5. CASE UNCHANGED vars
  BY <1>5 DEF vars, TypeOK
<1> QED BY <1>1, <1>2, <1>3, <1>4, <1>5 DEF Next

-----------------------------------------------------------------------------
(* Where the threads are, and what they hold there. *)

PlaceAt(u) ==
  LET r == <<u, "recv">>
      c == <<u, "close">>
  IN /\ pc[r] \notin {"leave", "erase", "clear"}
     /\ pc[c] \in {"rest", "leave", "erase", "notify", "send", "clear"}
     /\ pc[r] \in {"notify", "send"} => packet[r] \in {<<"enter", u>>, <<"chat", u>>}
     /\ pc[r] = "reply" => packet[r][1] = "list"
     /\ pc[c] \in {"notify", "send"} => packet[c] = <<"leave", u>>
Places == \A u \in Users : PlaceAt(u)

Announcing(t) == pc[t] \in {"notify", "send"} /\ packet[t] \in Notices
Holding(t) == pc[t] \in {"insert", "erase"} \/ Announcing(t)

LocksAt(t) ==
  /\ manager = t <=> Holding(t)
  /\ t \in readers <=> pc[t] = "send"
  /\ pc[t] # "send" => todo[t] = {}
  /\ todo[t] \subseteq users
Locks == \A t \in Threads : LocksAt(t)

(* A step of thread t. *)
Others(t) ==
  \A x \in Threads \ {t} :
    /\ pc'[x] = pc[x] /\ packet'[x] = packet[x] /\ todo'[x] = todo[x]
    /\ manager' = x <=> manager = x
    /\ x \in readers' <=> x \in readers

LEMMA ThreadKinds ==
  \A t \in Threads : \E u \in Users : t = <<u, "recv">> \/ t = <<u, "close">>
  BY DEF Threads

LEMMA PlacesStep ==
  ASSUME Places, NEW u \in Users, NEW t \in {<<u, "recv">>, <<u, "close">>}, Others(t),
         PlaceAt(u)'
  PROVE  Places'
<1> SUFFICES ASSUME NEW v \in Users \ {u} PROVE PlaceAt(v)'
  BY DEF Places
<1>1. /\ <<v, "recv">> \in Threads \ {t} /\ <<v, "close">> \in Threads \ {t}
  BY DEF Threads
<1> QED BY <1>1 DEF Places, PlaceAt, Others

LEMMA LocksStep ==
  ASSUME Locks, NEW t \in Threads, Others(t), LocksAt(t)',
         users \subseteq users' \/ readers = {}
  PROVE  Locks'
<1> SUFFICES ASSUME NEW x \in Threads \ {t} PROVE LocksAt(x)'
  BY DEF Locks
<1>1. readers = {} => todo[x] = {}
  BY DEF Locks, LocksAt
<1> QED BY <1>1 DEF Locks, LocksAt, Others, Holding, Announcing

LEMMA EnterLocks ==
  ASSUME TypeOK, Places, Locks, NEW u \in Users,
         EnterStep(u) \/ HandleEnterRoom(u) \/ HandleChat(u)
  PROVE  Places' /\ Locks' /\ Others(<<u, "recv">>)
<1> USE DEF Go, locks, told, sending, members
<1>1. PICK t : t = <<u, "recv">>
  OBVIOUS
<1>2. /\ t \in Threads /\ t # Nobody
      /\ <<u, "close">> \in Threads \ {t}
  BY <1>1, MadePackets, NobodyAssumption
<1>3. PlaceAt(u) /\ LocksAt(t)
  BY <1>2 DEF Places, Locks
<1>4. SUFFICES /\ Others(t) /\ LocksAt(t)' /\ PlaceAt(u)'
               /\ users \subseteq users' \/ readers = {}
  BY <1>1, <1>2, PlacesStep, LocksStep
<1>5. CASE NoSuchRoom(u)
  BY <1>1, <1>2, <1>3, <1>5
  DEF NoSuchRoom, Others, LocksAt, Holding, Announcing, PlaceAt, TypeOK
<1>6. CASE EnterRoom(u)
  BY <1>1, <1>2, <1>3, <1>6, NobodyAssumption
  DEF EnterRoom, LockManager, Others, LocksAt, Holding, Announcing, PlaceAt, TypeOK
<1>7. CASE RoomIsFull(u)
  BY <1>1, <1>2, <1>3, <1>7, NobodyAssumption
  DEF RoomIsFull, Others, LocksAt, Holding, Announcing, PlaceAt, TypeOK
<1>8. CASE Enter(u)
  BY <1>1, <1>2, <1>3, <1>8, MadePackets
  DEF Enter, Announce, KeepManager, Others, LocksAt, Holding, Announcing, PlaceAt, TypeOK
<1>9. CASE GetRoomData(u)
  BY <1>1, <1>2, <1>3, <1>9
  DEF GetRoomData, Others, LocksAt, Holding, Announcing, PlaceAt, TypeOK
<1>10. CASE GetUsersList(u)
  BY <1>1, <1>2, <1>3, <1>10
  DEF GetUsersList, Others, LocksAt, Holding, Announcing, PlaceAt, TypeOK
<1>11. CASE Reply(u)
  BY <1>1, <1>2, <1>3, <1>11
  DEF Reply, Others, LocksAt, Holding, Announcing, PlaceAt, TypeOK
<1>12. CASE HandleEnterRoom(u)
  BY <1>1, <1>2, <1>3, <1>12
  DEF HandleEnterRoom, Others, LocksAt, Holding, Announcing, PlaceAt, TypeOK
<1>13. CASE HandleChat(u)
  <2>1. <<"chat", u>> \notin Notices
    BY DEF Notices
  <2> QED BY <1>1, <1>2, <1>3, <1>13, <2>1
          DEF HandleChat, Others, LocksAt, Holding, Announcing, PlaceAt, TypeOK
<1> QED BY <1>5, <1>6, <1>7, <1>8, <1>9, <1>10, <1>11, <1>12, <1>13 DEF EnterStep

LEMMA LeaveLocks ==
  ASSUME TypeOK, Places, Locks, NEW u \in Users, LeaveStep(u) \/ ProcessDisconnect(u)
  PROVE  Places' /\ Locks' /\ Others(<<u, "close">>)
<1> USE DEF Go, locks, told, sending, members
<1>1. PICK t : t = <<u, "close">>
  OBVIOUS
<1>2. /\ t \in Threads /\ t # Nobody
      /\ <<u, "recv">> \in Threads \ {t}
  BY <1>1, MadePackets, NobodyAssumption
<1>3. PlaceAt(u) /\ LocksAt(t)
  BY <1>2 DEF Places, Locks
<1>4. SUFFICES /\ Others(t) /\ LocksAt(t)' /\ PlaceAt(u)'
               /\ users \subseteq users' \/ readers = {}
  BY <1>1, <1>2, PlacesStep, LocksStep
<1>5. CASE LeaveRoom(u)
  BY <1>1, <1>2, <1>3, <1>5, NobodyAssumption
  DEF LeaveRoom, LockManager, Others, LocksAt, Holding, Announcing, PlaceAt, TypeOK
<1>6. CASE Leave(u)
  <2>1. CASE open' = FALSE /\ manager' = Nobody /\ pc' = [pc EXCEPT ![t] = "clear"]
             /\ UNCHANGED <<packet, due>>
    BY <1>1, <1>2, <1>3, <1>6, <2>1, NobodyAssumption
    DEF Leave, Others, LocksAt, Holding, Announcing, PlaceAt, RoomFree, TypeOK
  <2>2. CASE Announce(t, <<"leave", u>>) /\ manager' = manager
             /\ pc' = [pc EXCEPT ![t] = "notify"]
    BY <1>1, <1>2, <1>3, <1>6, <2>2, MadePackets
    DEF Leave, Announce, Others, LocksAt, Holding, Announcing, PlaceAt, RoomFree, TypeOK
  <2> QED BY <1>1, <1>6, <2>1, <2>2 DEF Leave, KeepManager
<1>7. CASE ClearUser(u)
  BY <1>1, <1>2, <1>3, <1>7
  DEF ClearUser, Others, LocksAt, Holding, Announcing, PlaceAt, TypeOK
<1>8. CASE ProcessDisconnect(u)
  BY <1>1, <1>2, <1>3, <1>8
  DEF ProcessDisconnect, Others, LocksAt, Holding, Announcing, PlaceAt, TypeOK
<1> QED BY <1>5, <1>6, <1>7, <1>8 DEF LeaveStep

LEMMA BroadcastLocks ==
  ASSUME TypeOK, Places, Locks, NEW t \in Threads, BroadcastStep(t)
  PROVE  Places' /\ Locks' /\ Others(t)
<1> USE DEF Go, locks, told, sending, members
<1>1. PICK u \in Users : t = <<u, "recv">> \/ t = <<u, "close">>
  BY ThreadKinds
<1>2. /\ t # Nobody /\ <<u, "recv">> # <<u, "close">>
      /\ <<u, "recv">> \in Threads /\ <<u, "close">> \in Threads
  BY MadePackets, NobodyAssumption
<1>3. PlaceAt(u) /\ LocksAt(t)
  BY DEF Places, Locks
<1>4. SUFFICES /\ Others(t) /\ LocksAt(t)' /\ PlaceAt(u)' /\ UNCHANGED users
  BY <1>1, PlacesStep, LocksStep
<1>5. CASE Broadcast(t)
  BY <1>1, <1>2, <1>3, <1>5
  DEF Broadcast, Others, LocksAt, Holding, Announcing, PlaceAt, TypeOK
<1>6. CASE SendNext(t)
  <2>1. PICK v \in todo[t] : todo' = [todo EXCEPT ![t] = @ \ {v}]
    BY <1>6 DEF SendNext
  <2>2. pc[t] = "send" /\ UNCHANGED <<users, locks, pc, packet>>
    BY <1>6 DEF SendNext
  <2> QED BY <1>1, <1>2, <1>3, <2>1, <2>2
          DEF Others, LocksAt, Holding, Announcing, PlaceAt, TypeOK
<1>7. CASE EndBroadcast(t)
  <2>1. /\ pc[t] = "send" /\ todo[t] = {} /\ UNCHANGED <<users, todo>>
        /\ readers' = readers \ {t}
        /\ packet' = [packet EXCEPT ![t] = NoPacket]
    BY <1>7 DEF EndBroadcast
  <2>2. packet[t] \in {<<"enter", u>>, <<"leave", u>>, <<"chat", u>>}
    BY <1>1, <1>3, <2>1 DEF PlaceAt
  <2>3. /\ packet[t][1] \in {"enter", "leave", "chat"}
        /\ packet[t] \in Notices <=> packet[t][1] # "chat"
        /\ t = <<u, "recv">> => packet[t][1] # "leave"
        /\ t = <<u, "close">> => packet[t][1] = "leave"
    BY <1>1, <1>2, <1>3, <2>1, <2>2 DEF PlaceAt, Notices
  <2>4. manager' = IF packet[t] \in Notices THEN Nobody ELSE manager
    BY <1>7, <2>3 DEF EndBroadcast
  <2>5. /\ \A x \in Threads \ {t} : pc'[x] = pc[x]
        /\ t = <<u, "recv">> => pc'[t] \in {"data", "rest"}
        /\ t = <<u, "close">> => pc'[t] = "clear"
    BY <1>7, <2>3 DEF EndBroadcast, TypeOK
  <2>6. manager = t <=> packet[t] \in Notices
    BY <1>3, <2>1 DEF LocksAt, Holding, Announcing
  <2>7. Others(t)
    BY <2>1, <2>4, <2>5, <2>6, NobodyAssumption DEF Others, TypeOK
  <2>8. LocksAt(t)'
    BY <1>1, <1>2, <2>1, <2>4, <2>5, <2>6 DEF LocksAt, Holding, Announcing
  <2>9. PlaceAt(u)'
    BY <1>1, <1>2, <1>3, <2>1, <2>5, <2>7, MadePackets DEF PlaceAt, Others
  <2> QED BY <2>1, <2>7, <2>8, <2>9
<1> QED BY <1>5, <1>6, <1>7 DEF BroadcastStep

-----------------------------------------------------------------------------
(* Where the users are. *)

RoleAt(u) ==
  LET r == <<u, "recv">>
      c == <<u, "close">>
  IN /\ u \in entered \intersect connected => u \in users
     /\ pc[r] \in {"enter", "insert"} => u \notin entered
     /\ pc[r] \in {"notify", "send"} /\ packet[r] = <<"enter", u>> => u \in users
     /\ pc[r] \in {"data", "list", "reply"} => u \in entered
     /\ pc[c] # "rest" => u \notin connected
     /\ pc[c] \in {"leave", "erase", "notify", "send"} => u \in entered
     /\ pc[c] \in {"notify", "send"} => u \notin users
Roles == \A u \in Users : RoleAt(u)

(* A step of one of u's threads, as far as the other users are concerned.  *)
LEMMA RolesStep ==
  ASSUME Roles, NEW u \in Users, NEW t \in {<<u, "recv">>, <<u, "close">>}, Others(t),
         RoleAt(u)',
         users' \ {u} = users \ {u}, entered' \ {u} = entered \ {u},
         connected' = connected
  PROVE  Roles'
<1> SUFFICES ASSUME NEW v \in Users \ {u} PROVE RoleAt(v)'
  BY DEF Roles
<1>1. /\ <<v, "recv">> \in Threads \ {t} /\ <<v, "close">> \in Threads \ {t}
  BY DEF Threads
<1> QED BY <1>1 DEF Roles, RoleAt, Others

LEMMA RecvRoles ==
  ASSUME TypeOK, Places, Locks, Roles, NEW u \in Users, Others(<<u, "recv">>),
         EnterStep(u) \/ HandleEnterRoom(u) \/ HandleChat(u)
  PROVE  Roles'
<1> USE DEF Go, locks, told, sending, members
<1>1. PICK t : t = <<u, "recv">>
  OBVIOUS
<1>2. t \in Threads /\ <<u, "close">> \in Threads \ {t}
  BY <1>1, MadePackets
<1>3. RoleAt(u) /\ PlaceAt(u) /\ LocksAt(t) /\ LocksAt(<<u, "close">>)
  BY <1>2 DEF Places, Roles, Locks
<1>4. SUFFICES /\ RoleAt(u)' /\ connected' = connected
               /\ users' \ {u} = users \ {u} /\ entered' \ {u} = entered \ {u}
  BY <1>1, <1>2, RolesStep
<1>5. CASE NoSuchRoom(u)
  BY <1>1, <1>2, <1>3, <1>5 DEF NoSuchRoom, RoleAt, PlaceAt, TypeOK
<1>6. CASE EnterRoom(u)
  BY <1>1, <1>2, <1>3, <1>6 DEF EnterRoom, RoleAt, PlaceAt, TypeOK
<1>7. CASE RoomIsFull(u)
  BY <1>1, <1>2, <1>3, <1>7 DEF RoomIsFull, RoleAt, PlaceAt, TypeOK
<1>8. CASE Enter(u)
  <2>1. /\ pc[<<u, "close">>] \notin {"notify", "send"}
    BY <1>3, <1>8 DEF Enter, RoleAt
  <2> QED BY <1>1, <1>2, <1>3, <1>8, <2>1
          DEF Enter, Announce, SetRoom, RoleAt, PlaceAt, TypeOK
<1>9. CASE GetRoomData(u)
  BY <1>1, <1>2, <1>3, <1>9 DEF GetRoomData, RoleAt, PlaceAt, TypeOK
<1>10. CASE GetUsersList(u)
  BY <1>1, <1>2, <1>3, <1>10 DEF GetUsersList, RoleAt, PlaceAt, TypeOK
<1>11. CASE Reply(u)
  BY <1>1, <1>2, <1>3, <1>11 DEF Reply, RoleAt, PlaceAt, TypeOK
<1>12. CASE HandleEnterRoom(u)
  BY <1>1, <1>2, <1>3, <1>12 DEF HandleEnterRoom, RoleAt, PlaceAt, TypeOK
<1>13. CASE HandleChat(u)
  BY <1>1, <1>2, <1>3, <1>13 DEF HandleChat, RoleAt, PlaceAt, TypeOK
<1> QED BY <1>5, <1>6, <1>7, <1>8, <1>9, <1>10, <1>11, <1>12, <1>13 DEF EnterStep

LEMMA CloseRoles ==
  ASSUME TypeOK, Places, Locks, Roles, NEW u \in Users, Others(<<u, "close">>),
         LeaveStep(u) \/ ProcessDisconnect(u)
  PROVE  Roles'
<1> USE DEF Go, locks, told, sending, members
<1>1. PICK t : t = <<u, "close">>
  OBVIOUS
<1>2. t \in Threads /\ <<u, "recv">> \in Threads \ {t}
  BY <1>1, MadePackets
<1>3. RoleAt(u) /\ PlaceAt(u) /\ LocksAt(t) /\ LocksAt(<<u, "recv">>)
  BY <1>2 DEF Places, Roles, Locks
<1>4. SUFFICES /\ RoleAt(u)' /\ connected' = connected
               /\ users' \ {u} = users \ {u} /\ entered' = entered
  BY <1>1, <1>2, RolesStep
<1>5. CASE LeaveRoom(u)
  BY <1>1, <1>2, <1>3, <1>5 DEF LeaveRoom, RoleAt, PlaceAt, TypeOK
<1>6. CASE Leave(u)
  <2>1. manager = t /\ pc[t] = "erase"
    BY <1>1, <1>3, <1>6 DEF Leave, LocksAt, Holding
  <2>2. ~(pc[<<u, "recv">>] \in {"notify", "send"} /\ packet[<<u, "recv">>] = <<"enter", u>>)
    BY <1>2, <1>3, <2>1, MadePackets DEF LocksAt, Holding, Announcing
  <2>3. /\ pc'[<<u, "recv">>] = pc[<<u, "recv">>]
        /\ packet'[<<u, "recv">>] = packet[<<u, "recv">>]
        /\ pc'[t] \in {"clear", "notify"}
    BY <1>1, <1>2, <1>6 DEF Leave, Announce, TypeOK
  <2> QED BY <1>1, <1>3, <1>6, <2>1, <2>2, <2>3 DEF Leave, RoleAt
<1>7. CASE ClearUser(u)
  BY <1>1, <1>2, <1>3, <1>7 DEF ClearUser, RoleAt, PlaceAt, TypeOK
<1>8. CASE ProcessDisconnect(u)
  BY <1>1, <1>2, <1>3, <1>8 DEF ProcessDisconnect, RoleAt, PlaceAt, TypeOK
<1> QED BY <1>5, <1>6, <1>7, <1>8 DEF LeaveStep

LEMMA BroadcastRoles ==
  ASSUME TypeOK, Places, Places', Roles, NEW t \in Threads, Others(t), BroadcastStep(t)
  PROVE  Roles'
<1> USE DEF Go, locks, told, sending, members
<1>1. PICK u \in Users : t = <<u, "recv">> \/ t = <<u, "close">>
  BY ThreadKinds
<1>2. /\ <<u, "recv">> \in Threads /\ <<u, "close">> \in Threads
      /\ <<u, "recv">> # <<u, "close">>
  BY MadePackets
<1>3. RoleAt(u) /\ PlaceAt(u) /\ PlaceAt(u)'
  BY DEF Places, Roles
<1>4. UNCHANGED <<users, entered, connected>>
  BY DEF BroadcastStep, Broadcast, SendNext, EndBroadcast
<1>5. SUFFICES RoleAt(u)'
  BY <1>1, <1>4, RolesStep
<1>6. CASE Broadcast(t) \/ SendNext(t)
  BY <1>1, <1>2, <1>3, <1>4, <1>6 DEF Broadcast, SendNext, RoleAt, TypeOK
<1>7. CASE EndBroadcast(t)
  <2>1. /\ pc[t] = "send" /\ pc'[t] \in {"data", "clear", "rest"}
        /\ pc'[t] = "data" => packet[t][1] = "enter"
        /\ packet'[t] = NoPacket
    BY <1>7 DEF EndBroadcast, TypeOK
  <2>2. CASE t = <<u, "recv">>
    <3>1. pc'[t] = "data" => packet[t] = <<"enter", u>>
      BY <1>3, <2>1, <2>2 DEF PlaceAt
    <3>2. pc'[t] = "data" => u \in entered
      BY <1>3, <2>1, <2>2, <3>1 DEF RoleAt, TypeOK
    <3>3. pc'[<<u, "close">>] = pc[<<u, "close">>]
      BY <1>2, <2>2 DEF Others
    <3> QED BY <1>3, <1>4, <2>1, <2>2, <3>2, <3>3 DEF RoleAt
  <2>3. CASE t = <<u, "close">>
    <3>1. /\ pc'[<<u, "recv">>] = pc[<<u, "recv">>]
          /\ packet'[<<u, "recv">>] = packet[<<u, "recv">>]
      BY <1>2, <2>3 DEF Others
    <3> QED BY <1>3, <1>4, <2>1, <2>3, <3>1 DEF RoleAt
  <2> QED BY <1>1, <2>2, <2>3
<1> QED BY <1>6, <1>7 DEF BroadcastStep

LEMMA DisconnectRoles ==
  ASSUME Roles, NEW u \in Users, Disconnect(u)
  PROVE  Roles'
  BY DEF Roles, RoleAt, Disconnect, locks, members

-----------------------------------------------------------------------------
(* What each member has still to be told. *)

Pending(t, u) == Announcing(t) /\ (pc[t] = "notify" \/ u \in todo[t])
DueAt(u) ==
  /\ u \notin misled
  /\ IF u \in users \intersect connected
       THEN /\ \A t \in Threads : Pending(t, u) => due[u] = <<packet[t]>>
            /\ (\A t \in Threads : ~Pending(t, u)) => due[u] = <<>>
       ELSE due[u] = <<>>
Due == \A u \in Users : DueAt(u)

(* At most one thread announces, the holder of the manager's lock. *)
LEMMA OneAnnounces ==
  ASSUME Locks, NEW t \in Threads, NEW x \in Threads, Holding(t), Announcing(x)
  PROVE  x = t
  BY DEF Locks, LocksAt, Holding

(* Steps that leave what is due as it is. *)
LEMMA QuietStep ==
  ASSUME Due, NEW t \in Threads, Others(t), UNCHANGED <<due, misled>>,
         users' \intersect connected' = users \intersect connected,
         \A u \in users \intersect connected :
           /\ Pending(t, u)' <=> Pending(t, u)
           /\ Pending(t, u) => packet'[t] = packet[t]
  PROVE  Due'
<1> SUFFICES ASSUME NEW u \in Users PROVE DueAt(u)'
  BY DEF Due
<1>1. \A x \in Threads \ {t} :
        (Pending(x, u)' <=> Pending(x, u)) /\ packet'[x] = packet[x]
  BY DEF Others, Pending, Announcing
<1> QED BY <1>1 DEF Due, DueAt

LEMMA AnnounceStep ==
  ASSUME TypeOK, Locks, Due, NEW t \in Threads, Others(t), NEW p \in Notices, Holding(t),
         pc[t] \notin {"notify", "send"}, pc'[t] = "notify",
         Announce(t, p), UNCHANGED <<connected, misled>>
  PROVE  /\ Due'
         /\ \A u \in Users :
              /\ due[u] = <<>>
              /\ u \in users' \intersect connected => due'[u] = <<p>>
<1>1. \A x \in Threads, u \in Users : ~Pending(x, u)
  BY OneAnnounces DEF Pending, Announcing
<1>2. \A u \in Users : due[u] = <<>>
  BY <1>1 DEF Due, DueAt
<1>3. \A u \in Users :
        due'[u] = IF u \in users' \intersect connected THEN <<p>> ELSE <<>>
  <2>1. Append(<<>>, p) = <<p>>
    OBVIOUS
  <2> QED BY <1>2, <2>1 DEF Announce
<1>4. packet'[t] = p /\ \A u \in Users : Pending(t, u)'
  BY DEF Announce, Pending, Announcing, TypeOK
<1>5. \A x \in Threads \ {t}, u \in Users : ~Pending(x, u)'
  BY <1>1 DEF Others, Pending, Announcing
<1>6. Due'
  BY <1>2, <1>3, <1>4, <1>5 DEF Due, DueAt
<1> QED BY <1>2, <1>3, <1>6

LEMMA RecvDue ==
  ASSUME TypeOK, Places, Locks, Roles, Due, NEW u \in Users, Others(<<u, "recv">>),
         EnterStep(u) \/ HandleEnterRoom(u) \/ HandleChat(u)
  PROVE  Due'
<1> USE DEF Go, locks, told, sending, members
<1>1. PICK t : t = <<u, "recv">>
  OBVIOUS
<1>2. t \in Threads /\ PlaceAt(u)
  BY <1>1, MadePackets DEF Places
<1>3. CASE Enter(u)
  <2>1. Holding(t) /\ pc[t] = "insert" /\ pc'[t] = "notify" /\ <<"enter", u>> \in Notices
    BY <1>1, <1>2, <1>3, MadePackets DEF Enter, Holding, TypeOK
  <2> QED BY <1>1, <1>2, <1>3, <2>1, AnnounceStep DEF Enter
<1>4. CASE Reply(u)
  <2>1. pc[t] = "reply" /\ pc'[t] = "rest" /\ UNCHANGED <<users, connected>>
    BY <1>1, <1>2, <1>4 DEF Reply, TypeOK
  <2>2. packet[t] \notin Notices /\ packet[t][1] = "list"
    BY <1>1, <1>2, <2>1, PacketKinds DEF PlaceAt, TypeOK
  <2>3. UNCHANGED <<due, misled>>
    BY <1>1, <1>4, <2>2 DEF Reply, SendTo
  <2> QED BY <1>1, <1>2, <2>1, <2>3, QuietStep DEF Pending, Announcing
<1>5. CASE HandleChat(u)
  <2>1. <<"chat", u>> \notin Notices
    BY DEF Notices
  <2>2. ~Announcing(t) /\ ~Announcing(t)'
    BY <1>1, <1>2, <1>5, <2>1 DEF HandleChat, Announcing, TypeOK
  <2> QED BY <1>1, <1>2, <1>5, <2>2, QuietStep DEF HandleChat, Pending
<1>6. CASE ~(Enter(u) \/ Reply(u) \/ HandleChat(u))
  <2>1. /\ ~Announcing(t) /\ ~Announcing(t)'
        /\ UNCHANGED <<users, connected, due, misled>>
    BY <1>1, <1>2, <1>6
    DEF EnterStep, NoSuchRoom, EnterRoom, RoomIsFull, GetRoomData, GetUsersList,
        HandleEnterRoom, Announcing, TypeOK
  <2> QED BY <1>1, <1>2, <2>1, QuietStep DEF Pending
<1> QED BY <1>3, <1>4, <1>5, <1>6

LEMMA CloseDue ==
  ASSUME TypeOK, Places, Locks, Roles, Due, NEW u \in Users, Others(<<u, "close">>),
         LeaveStep(u) \/ ProcessDisconnect(u)
  PROVE  Due'
<1> USE DEF Go, locks, told, sending, members
<1>1. PICK t : t = <<u, "close">>
  OBVIOUS
<1>2. t \in Threads /\ PlaceAt(u) /\ RoleAt(u)
  BY <1>1, MadePackets DEF Places, Roles
<1>3. CASE Leave(u)
  <2>1. Holding(t) /\ pc[t] = "erase" /\ <<"leave", u>> \in Notices
    BY <1>1, <1>3, MadePackets DEF Leave, Holding
  <2>2. CASE pc' = [pc EXCEPT ![t] = "clear"] /\ UNCHANGED <<packet, due>>
    <3>1. users' \intersect connected' = users \intersect connected
      BY <1>1, <1>2, <1>3, <2>1 DEF Leave, RoleAt
    <3>2. ~Announcing(t) /\ ~Announcing(t)'
      BY <1>2, <2>1, <2>2 DEF Announcing, TypeOK
    <3> QED BY <1>1, <1>2, <1>3, <2>2, <3>1, <3>2, QuietStep DEF Leave, Pending
  <2>3. CASE pc' = [pc EXCEPT ![t] = "notify"] /\ Announce(t, <<"leave", u>>)
    <3>1. pc'[t] = "notify"
      BY <1>2, <2>3 DEF TypeOK
    <3> QED BY <1>1, <1>2, <1>3, <2>1, <2>3, <3>1, AnnounceStep DEF Leave
  <2> QED BY <1>1, <1>3, <2>2, <2>3 DEF Leave
<1>4. CASE ~Leave(u)
  <2>1. /\ ~Announcing(t) /\ ~Announcing(t)'
        /\ UNCHANGED <<users, connected, due, misled>>
    BY <1>1, <1>2, <1>4
    DEF LeaveStep, LeaveRoom, ClearUser, ProcessDisconnect, Announcing, TypeOK
  <2> QED BY <1>1, <1>2, <2>1, QuietStep DEF Pending
<1> QED BY <1>3, <1>4

LEMMA BroadcastDue ==
  ASSUME TypeOK, Places, Locks, Roles, Due, NEW t \in Threads, Others(t), BroadcastStep(t)
  PROVE  Due'
<1> USE DEF Go, locks, told, sending, members
<1>1. CASE Broadcast(t)
  <2>1. /\ pc[t] = "notify" /\ pc'[t] = "send" /\ todo'[t] = users
        /\ UNCHANGED <<users, connected, packet, due, misled>>
    BY <1>1 DEF Broadcast, TypeOK
  <2> QED BY <2>1, QuietStep DEF Pending, Announcing
<1>2. CASE EndBroadcast(t)
  <2>1. /\ pc[t] = "send" /\ pc'[t] \in {"data", "clear", "rest"} /\ todo[t] = {}
        /\ UNCHANGED <<users, connected, due, misled>>
    BY <1>2 DEF EndBroadcast, TypeOK
  <2> QED BY <2>1, QuietStep DEF Pending, Announcing
<1>3. CASE SendNext(t)
  <2>1. PICK u \in todo[t] :
          /\ pc[t] = "send"
          /\ SendTo(u, packet[t])
          /\ todo' = [todo EXCEPT ![t] = @ \ {u}]
          /\ UNCHANGED <<connected, members, gone, crashed, locks, pc, packet, requests>>
    BY <1>3 DEF SendNext
  <2>2. u \in Users /\ packet[t] \in Packets /\ u \in users
    BY DEF TypeOK, Locks, LocksAt
  <2>3. \A v \in Users : Pending(t, v)' <=> Pending(t, v) /\ v # u
    BY <2>1 DEF Pending, Announcing, TypeOK
  <2>4. CASE u \notin connected \/ packet[t] \notin Notices
    <3>1. UNCHANGED <<due, misled>>
      BY <2>1, <2>4 DEF SendTo
    <3> QED BY <2>1, <2>3, <2>4, <3>1, QuietStep DEF Pending, Announcing, TypeOK
  <2>5. CASE u \in connected /\ packet[t] \in Notices
    <3>1. Pending(t, u) /\ due[u] = <<packet[t]>>
      BY <2>1, <2>2, <2>5 DEF Pending, Announcing, Due, DueAt
    <3>2. packet[t][1] # "chat"
      BY <2>2, <2>5, PacketKinds
    <3>3. due' = [due EXCEPT ![u] = Tail(@)] /\ UNCHANGED misled
      BY <2>1, <2>5, <3>1, <3>2 DEF SendTo
    <3>4. due'[u] = <<>> /\ \A v \in Users \ {u} : due'[v] = due[v]
      BY <2>2, <3>1, <3>3 DEF TypeOK
    <3>5. \A x \in Threads \ {t}, v \in Users :
            (Pending(x, v)' <=> Pending(x, v)) /\ packet'[x] = packet[x]
      BY DEF Others, Pending, Announcing
    <3>6. \A x \in Threads \ {t} : ~Pending(x, u)
      BY <3>1, OneAnnounces DEF Pending, Holding
    <3> SUFFICES ASSUME NEW v \in Users PROVE DueAt(v)'
      BY DEF Due
    <3>7. CASE v = u
      BY <2>1, <2>3, <3>3, <3>4, <3>5, <3>6, <3>7 DEF Due, DueAt
    <3>8. CASE v # u
      BY <2>1, <2>3, <3>3, <3>4, <3>5, <3>8 DEF Due, DueAt
    <3> QED BY <3>7, <3>8
  <2> QED BY <2>4, <2>5
<1> QED BY <1>1, <1>2, <1>3 DEF BroadcastStep

LEMMA DisconnectDue ==
  ASSUME TypeOK, Due, NEW u \in Users, Disconnect(u)
  PROVE  Due'
<1> SUFFICES ASSUME NEW v \in Users PROVE DueAt(v)'
  BY DEF Due
<1>1. \A x \in Threads : (Pending(x, v)' <=> Pending(x, v)) /\ packet'[x] = packet[x]
  BY DEF Disconnect, Pending, Announcing
<1> QED BY <1>1 DEF Disconnect, Due, DueAt, members, TypeOK

-----------------------------------------------------------------------------
(* What the members know. *)

Listed(u) == IF pc[<<u, "recv">>] = "reply" THEN packet[<<u, "recv">>][2] ELSE {}
Listing(u) ==
  \/ pc[<<u, "recv">>] \in {"notify", "send"} /\ packet[<<u, "recv">>] = <<"enter", u>>
  \/ pc[<<u, "recv">>] \in {"data", "list"}
ViewAt(u) ==
  /\ u \notin users \intersect connected => known[u] = {} /\ lost[u] = {}
  /\ \A w \in lost[u] : w \in entered \ users
  /\ u \in users \intersect connected =>
       /\ \A w \in users :
            w \in known[u] \/ due[u] = <<<<"enter", w>>>> \/ Listing(u) \/ w \in Listed(u)
       /\ \A w \in known[u] \union Listed(u) :
            w \in users \/ w \in lost[u] \/ due[u] = <<<<"leave", w>>>>
View == \A u \in Users : ViewAt(u)

(* Steps of one of u's threads that change nothing about the others.       *)
LEMMA ViewStep ==
  ASSUME View, NEW u \in Users, NEW t \in {<<u, "recv">>, <<u, "close">>}, Others(t),
         UNCHANGED <<users, connected, entered>>, ViewAt(u)',
         \A v \in Users \ {u} :
           due'[v] = due[v] /\ known'[v] = known[v] /\ lost'[v] = lost[v]
  PROVE  View'
<1> SUFFICES ASSUME NEW v \in Users \ {u} PROVE ViewAt(v)'
  BY DEF View
<1>1. <<v, "recv">> \in Threads \ {t}
  BY DEF Threads
<1>2. (Listing(v)' <=> Listing(v)) /\ Listed(v)' = Listed(v)
  BY <1>1 DEF Others, Listing, Listed
<1> QED BY <1>2 DEF View, ViewAt

LEMMA RecvView ==
  ASSUME TypeOK, Places, Locks, Roles, Due, View, NEW u \in Users,
         Others(<<u, "recv">>),
         EnterStep(u) \/ HandleEnterRoom(u) \/ HandleChat(u)
  PROVE  View'
<1> USE DEF Go, locks, told, sending, members
<1>1. PICK t : t = <<u, "recv">>
  OBVIOUS
<1>2. t \in Threads /\ PlaceAt(u) /\ RoleAt(u) /\ ViewAt(u)
  BY <1>1, MadePackets DEF Places, Roles, View
<1>3. CASE Enter(u)
  <2>1. /\ Holding(t) /\ pc[t] = "insert" /\ pc'[t] = "notify"
        /\ <<"enter", u>> \in Notices /\ packet'[t] = <<"enter", u>>
    BY <1>1, <1>2, <1>3, MadePackets DEF Enter, Announce, Holding, TypeOK
  <2>2. \A v \in Users :
          /\ due[v] = <<>>
          /\ v \in users' \intersect connected => due'[v] = <<<<"enter", u>>>>
    BY <1>1, <1>2, <1>3, <2>1, AnnounceStep DEF Enter
  <2>3. /\ u \notin entered /\ u \notin users /\ users' = users \union {u}
        /\ entered' = entered \union {u} /\ UNCHANGED <<connected, known, lost>>
    BY <1>1, <1>2, <1>3, <2>1 DEF Enter, SetRoom, RoleAt, TypeOK
  <2> SUFFICES ASSUME NEW v \in Users PROVE ViewAt(v)'
    BY DEF View
  <2>4. ViewAt(v)
    BY DEF View
  <2>5. CASE v = u
    <3>1. Listing(u)' /\ Listed(u)' = {}
      BY <1>1, <2>1 DEF Listing, Listed
    <3>2. known[u] = {} /\ lost[u] = {}
      BY <1>2, <2>3 DEF ViewAt
    <3> QED BY <2>3, <2>5, <3>1, <3>2 DEF ViewAt
  <2>6. CASE v # u
    <3>1. <<v, "recv">> \in Threads \ {t}
      BY <1>1, <2>6 DEF Threads
    <3>2. (Listing(v)' <=> Listing(v)) /\ Listed(v)' = Listed(v)
      BY <1>1, <3>1 DEF Others, Listing, Listed
    <3>3. v \notin users' \intersect connected => known[v] = {} /\ lost[v] = {}
      BY <2>3, <2>4, <2>6 DEF ViewAt
    <3>4. \A w \in lost[v] : w \in entered' \ users'
      BY <2>3, <2>4 DEF ViewAt
    <3>5. ASSUME v \in users' \intersect connected
          PROVE  /\ \A w \in users' :
                      \/ w \in known[v] \/ due'[v] = <<<<"enter", w>>>>
                      \/ Listing(v) \/ w \in Listed(v)
                 /\ \A w \in known[v] \union Listed(v) : w \in users' \/ w \in lost[v]
      <4>1. v \in users /\ due[v] = <<>> /\ due'[v] = <<<<"enter", u>>>>
        BY <2>2, <2>3, <2>6, <3>5
      <4> QED BY <2>3, <2>4, <3>5, <4>1 DEF ViewAt
    <3> QED BY <2>3, <3>2, <3>3, <3>4, <3>5 DEF ViewAt
  <2> QED BY <2>5, <2>6
<1>4. SUFFICES ASSUME ~Enter(u)
               PROVE  /\ UNCHANGED <<users, connected, entered>> /\ ViewAt(u)'
                      /\ \A v \in Users \ {u} :
                           due'[v] = due[v] /\ known'[v] = known[v] /\ lost'[v] = lost[v]
  BY <1>1, <1>3, ViewStep
<1>5. CASE Reply(u)
  <2>1. /\ pc[t] = "reply" /\ pc'[t] = "rest" /\ SendTo(u, packet[t])
        /\ UNCHANGED <<users, connected, entered>>
    BY <1>1, <1>2, <1>5 DEF Reply, TypeOK
  <2>2. packet[t] \notin Notices /\ packet[t][1] = "list" /\ packet[t][2] = Listed(u)
    BY <1>1, <1>2, <2>1, PacketKinds DEF PlaceAt, TypeOK, Listed
  <2>3. ~Listing(u) /\ ~Listing(u)' /\ Listed(u)' = {}
    BY <1>1, <2>1 DEF Listing, Listed
  <2>4. CASE u \notin connected
    BY <1>2, <2>1, <2>2, <2>4 DEF SendTo, ViewAt
  <2>5. CASE u \in connected
    <3>1. /\ UNCHANGED <<due, lost>>
          /\ known' = [known EXCEPT ![u] = @ \union Listed(u)]
      BY <2>1, <2>2, <2>5 DEF SendTo
    <3>2. /\ known'[u] = known[u] \union Listed(u)
          /\ \A v \in Users \ {u} : known'[v] = known[v]
      BY <3>1 DEF TypeOK
    <3>3. u \in users
      BY <1>1, <1>2, <2>1, <2>5 DEF RoleAt
    <3> QED BY <1>2, <2>1, <2>3, <2>5, <3>1, <3>2, <3>3 DEF ViewAt
  <2> QED BY <2>4, <2>5
<1>6. CASE GetUsersList(u)
  <2>1. /\ pc[t] = "list" /\ pc'[t] = "reply" /\ packet'[t] = <<"list", users>>
        /\ UNCHANGED <<users, connected, entered, due, known, lost>>
    BY <1>1, <1>2, <1>6 DEF GetUsersList, TypeOK
  <2>2. Listed(u) = {} /\ Listed(u)' = users
    BY <1>1, <2>1 DEF Listed
  <2> QED BY <1>2, <2>1, <2>2 DEF ViewAt
<1>7. CASE HandleChat(u)
  <2>1. /\ pc[t] = "rest" /\ pc'[t] = "notify"
        /\ UNCHANGED <<users, connected, entered, due, known, lost>>
    BY <1>1, <1>2, <1>7 DEF HandleChat, TypeOK
  <2>2. ~Listing(u) /\ Listed(u) = {} /\ Listed(u)' = {}
    BY <1>1, <2>1 DEF Listing, Listed
  <2> QED BY <1>2, <2>1, <2>2 DEF ViewAt
<1>8. CASE ~(Reply(u) \/ GetUsersList(u) \/ HandleChat(u))
  <2>1. /\ UNCHANGED <<users, connected, entered, due, known, lost>>
        /\ \/ pc[t] = "data" /\ pc'[t] = "list"
           \/ pc[t] \in {"rest", "enter", "insert"} /\ pc'[t] \in {"rest", "enter", "insert"}
    BY <1>1, <1>2, <1>4, <1>8
    DEF EnterStep, NoSuchRoom, EnterRoom, RoomIsFull, GetRoomData, HandleEnterRoom, TypeOK
  <2>2. (Listing(u)' <=> Listing(u)) /\ Listed(u) = {} /\ Listed(u)' = {}
    BY <1>1, <2>1 DEF Listing, Listed
  <2> QED BY <1>2, <2>1, <2>2 DEF ViewAt
<1> QED BY <1>5, <1>6, <1>7, <1>8

LEMMA CloseView ==
  ASSUME TypeOK, Places, Locks, Roles, Due, View, NEW u \in Users,
         Others(<<u, "close">>), LeaveStep(u) \/ ProcessDisconnect(u)
  PROVE  View'
<1> USE DEF Go, locks, told, sending, members
<1>1. PICK t : t = <<u, "close">>
  OBVIOUS
<1>2. t \in Threads /\ PlaceAt(u) /\ RoleAt(u)
  BY <1>1, MadePackets DEF Places, Roles
<1>3. \A v \in Users : (Listing(v)' <=> Listing(v)) /\ Listed(v)' = Listed(v)
  <2> SUFFICES ASSUME NEW v \in Users
               PROVE  (Listing(v)' <=> Listing(v)) /\ Listed(v)' = Listed(v)
    OBVIOUS
  <2>1. <<v, "recv">> \in Threads \ {t}
    BY <1>1 DEF Threads
  <2> QED BY <1>1, <2>1 DEF Others, Listing, Listed
<1> SUFFICES ASSUME NEW v \in Users PROVE ViewAt(v)'
  BY DEF View
<1>4. ViewAt(v)
  BY DEF View
<1>5. CASE Leave(u)
  <2>1. /\ Holding(t) /\ pc[t] = "erase" /\ u \notin connected /\ u \in entered
        /\ users' = users \ {u} /\ UNCHANGED <<connected, entered, known, lost>>
    BY <1>1, <1>2, <1>5 DEF Leave, Holding, RoleAt
  <2>2. /\ v \notin users' \intersect connected => known[v] = {} /\ lost[v] = {}
        /\ \A w \in lost[v] : w \in entered \ users'
    BY <1>4, <2>1 DEF ViewAt
  <2>3. CASE LastOne(u)
    BY <2>1, <2>2, <2>3 DEF LastOne, ViewAt
  <2>4. CASE ~LastOne(u)
    <3>1. <<"leave", u>> \in Notices /\ pc'[t] = "notify" /\ Announce(t, <<"leave", u>>)
      BY <1>1, <1>2, <1>5, <2>4, MadePackets DEF Leave, TypeOK
    <3>2. /\ due[v] = <<>>
          /\ v \in users' \intersect connected => due'[v] = <<<<"leave", u>>>>
      BY <1>1, <1>2, <1>5, <2>1, <3>1, AnnounceStep DEF Leave
    <3> QED BY <1>3, <1>4, <2>1, <2>2, <3>2 DEF ViewAt
  <2> QED BY <2>3, <2>4
<1>6. CASE ~Leave(u)
  <2>1. UNCHANGED <<users, connected, entered, due, known, lost>>
    BY <1>6 DEF LeaveStep, LeaveRoom, ClearUser, ProcessDisconnect
  <2> QED BY <1>3, <1>4, <2>1 DEF ViewAt
<1> QED BY <1>5, <1>6

LEMMA SendView ==
  ASSUME TypeOK, Places, Locks, Roles, Due, View, NEW t \in Threads, SendNext(t)
  PROVE  View'
<1>1. PICK u \in todo[t] :
        /\ pc[t] = "send" /\ SendTo(u, packet[t])
        /\ UNCHANGED <<connected, users, entered, pc, packet>>
  BY DEF SendNext, members
<1>2. u \in Users /\ u \in users
  BY DEF TypeOK, Locks, LocksAt
<1>3. PICK x \in Users : t = <<x, "recv">> \/ t = <<x, "close">>
  BY ThreadKinds
<1>4. \/ packet[t] = <<"enter", x>> /\ x \in users
      \/ packet[t] = <<"leave", x>> /\ x \in entered \ users
      \/ packet[t] = <<"chat", x>>
  BY <1>1, <1>3 DEF Places, PlaceAt, Roles, RoleAt
<1>5. \A v \in Users : (Listing(v)' <=> Listing(v)) /\ Listed(v)' = Listed(v)
  BY <1>1 DEF Listing, Listed
<1>6. CASE u \notin connected \/ packet[t] = <<"chat", x>>
  <2>1. UNCHANGED <<due, known, lost>>
    BY <1>1, <1>6 DEF SendTo, told
  <2> QED BY <1>1, <1>5, <2>1 DEF View, ViewAt
<1>7. CASE u \in connected /\ packet[t] # <<"chat", x>>
  <2>1. packet[t] \in Notices /\ packet[t][1] # "chat"
    <3>1. packet[t] \in {<<"enter", x>>, <<"leave", x>>}
      BY <1>4, <1>7
    <3> QED BY <3>1 DEF Notices
  <2>2. Pending(t, u) /\ due[u] = <<packet[t]>>
    BY <1>1, <1>2, <1>7, <2>1 DEF Pending, Announcing, Due, DueAt
  <2>3. due' = [due EXCEPT ![u] = Tail(@)]
    BY <1>1, <1>7, <2>1, <2>2 DEF SendTo
  <2>4. due'[u] = <<>> /\ \A v \in Users \ {u} : due'[v] = due[v]
    BY <1>2, <2>2, <2>3 DEF TypeOK
  <2>5. /\ packet[t] = <<"enter", x>> =>
             known' = [known EXCEPT ![u] = @ \union {x}] /\ lost' = lost
        /\ packet[t] = <<"leave", x>> =>
             known' = known /\ lost' = [lost EXCEPT ![u] = @ \union {x}]
    BY <1>1, <1>7, <2>1 DEF SendTo
  <2>6. \A v \in Users \ {u} : known'[v] = known[v] /\ lost'[v] = lost[v]
    BY <1>4, <1>7, <2>5 DEF TypeOK
  <2> SUFFICES ASSUME NEW v \in Users PROVE ViewAt(v)'
    BY DEF View
  <2>7. ViewAt(v) /\ (Listing(v)' <=> Listing(v)) /\ Listed(v)' = Listed(v)
    BY <1>5 DEF View
  <2>8. CASE v # u
    BY <1>1, <2>4, <2>6, <2>7, <2>8 DEF ViewAt
  <2>9. CASE v = u /\ packet[t] = <<"enter", x>>
    <3>1. known'[u] = known[u] \union {x} /\ lost'[u] = lost[u]
      BY <1>2, <2>5, <2>9 DEF TypeOK
    <3>2. \A w : due[u] = <<<<"enter", w>>>> => w = x
      BY <2>2, <2>9
    <3>3. \A w : due[u] # <<<<"leave", w>>>>
      BY <2>2, <2>9
    <3>4. x \in users
      BY <1>4, <2>9
    <3> QED BY <1>1, <1>2, <1>7, <2>4, <2>7, <2>9, <3>1, <3>2, <3>3, <3>4 DEF ViewAt
  <2>10. CASE v = u /\ packet[t] = <<"leave", x>>
    <3>1. known'[u] = known[u] /\ lost'[u] = lost[u] \union {x}
      BY <1>2, <2>5, <2>10 DEF TypeOK
    <3>2. \A w : due[u] = <<<<"leave", w>>>> => w = x
      BY <2>2, <2>10
    <3>3. \A w : due[u] # <<<<"enter", w>>>>
      BY <2>2, <2>10
    <3>4. x \in entered \ users
      BY <1>4, <2>10
    <3> QED BY <1>1, <1>2, <1>7, <2>4, <2>7, <2>10, <3>1, <3>2, <3>3, <3>4 DEF ViewAt
  <2> QED BY <1>4, <1>7, <2>8, <2>9, <2>10
<1> QED BY <1>6, <1>7

LEMMA BroadcastView ==
  ASSUME TypeOK, Places, Locks, Roles, Due, View, NEW t \in Threads, Others(t),
         BroadcastStep(t)
  PROVE  View'
<1>1. CASE SendNext(t)
  BY <1>1, SendView
<1>2. CASE Broadcast(t) \/ EndBroadcast(t)
  <2>1. UNCHANGED <<users, connected, entered, due, known, lost>>
    BY <1>2 DEF Broadcast, EndBroadcast, members, told
  <2>2. \/ pc[t] = "notify" /\ pc'[t] = "send" /\ packet'[t] = packet[t]
        \/ /\ pc[t] = "send" /\ pc'[t] \in {"data", "clear", "rest"}
           /\ packet[t][1] = "enter" => pc'[t] = "data"
           /\ packet[t][1] = "chat" => pc'[t] = "rest"
    BY <1>2 DEF Broadcast, EndBroadcast, Go, TypeOK
  <2> SUFFICES ASSUME NEW v \in Users PROVE ViewAt(v)'
    BY DEF View
  <2>3. /\ Listing(v) => Listing(v)'
        /\ Listed(v)' = Listed(v)
    <3>1. CASE t = <<v, "recv">>
      <4>1. packet[t] \in {<<"enter", v>>, <<"chat", v>>}
        BY <2>2, <3>1 DEF Places, PlaceAt
      <4> QED BY <2>2, <3>1, <4>1 DEF Listing, Listed
    <3>2. CASE t # <<v, "recv">>
      <4>1. <<v, "recv">> \in Threads \ {t}
        BY <3>2, MadePackets
      <4> QED BY <4>1 DEF Others, Listing, Listed
    <3> QED BY <3>1, <3>2
  <2> QED BY <2>1, <2>3 DEF View, ViewAt
<1> QED BY <1>1, <1>2 DEF BroadcastStep

LEMMA DisconnectView ==
  ASSUME TypeOK, View, NEW u \in Users, Disconnect(u)
  PROVE  View'
<1> SUFFICES ASSUME NEW v \in Users PROVE ViewAt(v)'
  BY DEF View
<1>1. (Listing(v)' <=> Listing(v)) /\ Listed(v)' = Listed(v)
  BY DEF Disconnect, Listing, Listed
<1> QED BY <1>1 DEF Disconnect, members, View, ViewAt, TypeOK

-----------------------------------------------------------------------------
(* The inductive invariant and the theorems. *)

Inv == TypeOK /\ Places /\ Locks /\ Roles /\ Due /\ View

LEMMA InvInit == Init => Inv
<1> SUFFICES ASSUME Init PROVE Inv
  OBVIOUS
<1>1. \A t \in Threads : pc[t] = "rest" /\ packet[t] = NoPacket /\ todo[t] = {}
  BY DEF Init
<1>2. \A u \in Users : <<u, "recv">> \in Threads /\ <<u, "close">> \in Threads
  BY MadePackets
<1>3. Places /\ Roles
  BY <1>1, <1>2 DEF Init, Places, PlaceAt, Roles, RoleAt
<1>4. Locks
  BY <1>1, NobodyAssumption DEF Init, Locks, LocksAt, Holding, Announcing
<1>5. Due /\ View
  BY DEF Init, Due, DueAt, View, ViewAt
<1> QED BY <1>3, <1>4, <1>5, TypeInit DEF Inv

LEMMA InvStep == Inv /\ [Next]_vars => Inv'
<1> SUFFICES ASSUME Inv, [Next]_vars PROVE Inv'
  OBVIOUS
<1> USE DEF Inv
<1>1. TypeOK'
  BY TypeStep
<1>2. ASSUME NEW u \in Users, EnterStep(u) \/ HandleEnterRoom(u) \/ HandleChat(u)
      PROVE  Inv'
  BY <1>1, <1>2, EnterLocks, RecvRoles, RecvDue, RecvView
<1>3. ASSUME NEW u \in Users, LeaveStep(u) \/ ProcessDisconnect(u)
      PROVE  Inv'
  BY <1>1, <1>3, LeaveLocks, CloseRoles, CloseDue, CloseView
<1>4. ASSUME NEW t \in Threads, BroadcastStep(t) PROVE Inv'
  BY <1>1, <1>4, BroadcastLocks, BroadcastRoles, BroadcastDue, BroadcastView
<1>5. ASSUME NEW u \in Users, Disconnect(u) PROVE Inv'
  <2>1. Places' /\ Locks'
    BY <1>5 DEF Disconnect, members, locks, Places, PlaceAt, Locks, LocksAt, Holding,
       Announcing
  <2> QED BY <1>1, <1>5, <2>1, DisconnectRoles, DisconnectDue, DisconnectView
<1>6. CASE UNCHANGED vars
  BY <1>1, <1>6 DEF vars, members, locks, sending, told, Places, PlaceAt, Locks, LocksAt,
     Holding, Announcing, Roles, RoleAt, Due, DueAt, Pending, View, ViewAt, Listing, Listed
<1> QED BY <1>2, <1>3, <1>4, <1>5, <1>6 DEF Next, Client

LEMMA InvHolds == Spec => []Inv
  BY InvInit, InvStep, PTL DEF Spec

(* Every variable keeps its type; of it the room uses that users that are  *)
(* members have their room set.                                            *)
THEOREM TypeCorrect == Spec => []TypeOK
<1>1. Inv => TypeOK
  BY DEF Inv
<1> QED BY <1>1, InvHolds, PTL

(* Broadcast goes through Room::_users under a shared lock, and Enter and  *)
(* Leave change the map only when nobody does.                             *)
THEOREM BroadcastsIterateSafely == Spec => []IterationSafe
<1>1. Inv => IterationSafe
  BY DEF Inv, Locks, LocksAt, IterationSafe
<1> QED BY <1>1, InvHolds, PTL

(* Members get each notice once and in the order of the changes, because   *)
(* EnterRoom and LeaveRoom keep the manager's lock until all were sent to. *)
THEOREM NoticesKeepOrder == Spec => []NoticesInOrder
<1>1. Inv => NoticesInOrder
  <2> SUFFICES ASSUME Inv, NEW u \in users \intersect connected
               PROVE  u \notin misled /\ (manager = Nobody => due[u] = <<>>)
    BY DEF NoticesInOrder
  <2>1. u \in Users
    BY DEF Inv, TypeOK
  <2>2. ASSUME manager = Nobody, NEW t \in Threads PROVE ~Pending(t, u)
    BY <2>2, NobodyAssumption DEF Inv, Locks, LocksAt, Holding, Pending
  <2> QED BY <2>1, <2>2 DEF Inv, Due, DueAt
<1> QED BY <1>1, InvHolds, PTL

(* The list a member was sent and the notices it got, before or after the  *)
(* list, together give it the members of the room.                         *)
THEOREM ViewsAreExact == Spec => []ViewExact
<1>1. Inv => ViewExact
  <2> SUFFICES ASSUME Inv, NEW u \in users \intersect connected, manager = Nobody,
                      pc[<<u, "recv">>] \notin {"data", "list", "reply"}
               PROVE  users = known[u] \ lost[u]
    BY DEF ViewExact
  <2>1. u \in Users /\ <<u, "recv">> \in Threads
    BY MadePackets DEF Inv, TypeOK
  <2>2. \A t \in Threads : ~Announcing(t)
    BY NobodyAssumption DEF Inv, Locks, LocksAt, Holding
  <2>3. due[u] = <<>>
    BY <2>1, <2>2 DEF Inv, Due, DueAt, Pending
  <2>4. ~Listing(u) /\ Listed(u) = {}
    BY <2>1, <2>2, MadePackets DEF Listing, Listed, Announcing
  <2>5. ViewAt(u)
    BY <2>1 DEF Inv, View
  <2> QED BY <2>3, <2>4, <2>5 DEF ViewAt
<1> QED BY <1>1, InvHolds, PTL

-----------------------------------------------------------------------------
(* The locks and the progress of the operations. *)

(* Thread t waits for a lock that x holds.  A shared lock waits for nobody *)
(* here: the exclusive sections of Room are single steps.                  *)
WaitsFor(t, x) ==
  \/ pc[t] \in {"enter", "data", "leave"} /\ manager = x
  \/ pc[t] \in {"insert", "list", "erase"} /\ x \in readers
NoCircularWait ==
  \A t, x \in Threads : WaitsFor(t, x) =>
    /\ pc[x] # "rest"
    /\ \A y \in Threads : WaitsFor(x, y) => \A z \in Threads : ~WaitsFor(y, z)

(* The locks are taken in one order, the manager's before the room's: who  *)
(* holds the manager's waits at most for broadcasts, a broadcast waits for *)
(* nobody, and no thread that rests has kept a lock.                       *)
THEOREM LocksAreOrdered == Spec => []NoCircularWait
<1>1. Inv => NoCircularWait
  <2>1. SUFFICES ASSUME Inv, NEW t \in Threads, NEW x \in Threads, WaitsFor(t, x)
                 PROVE  /\ pc[x] # "rest"
                        /\ \A y \in Threads : WaitsFor(x, y) =>
                             \A z \in Threads : ~WaitsFor(y, z)
    BY DEF NoCircularWait
  <2>2. \A y \in Threads : y \in readers => pc[y] = "send"
    BY <2>1 DEF Inv, Locks, LocksAt
  <2>3. \A y \in Threads : manager = y => pc[y] \in {"insert", "erase", "notify", "send"}
    BY <2>1 DEF Inv, Locks, LocksAt, Holding, Announcing
  <2>4. QED
    BY <2>1, <2>2, <2>3 DEF WaitsFor
<1>2. QED
  BY <1>1, InvHolds, PTL

(* How far the operation of a thread is from its end. *)
Distance(p) ==
  CASE p \in {"enter", "leave"} -> 7 [] p \in {"insert", "erase"} -> 6
    [] p = "notify" -> 5 [] p = "send" -> 4 [] p = "data" -> 3
    [] p = "list" -> 2 [] p \in {"reply", "clear"} -> 1 [] p = "rest" -> 0
Forward(t) ==
  \/ pc[t] = "rest"
  \/ pc'[t] = pc[t] /\ todo'[t] = todo[t]
  \/ pc'[t] = pc[t] /\ todo'[t] \subseteq todo[t] /\ todo'[t] # todo[t]
  \/ Distance(pc'[t]) < Distance(pc[t])
OnlyForward == [][\A t \in Threads : Forward(t)]_vars

(* Whatever the other threads and the clients do, a thread that works is   *)
(* never sent back: each of its steps brings its operation nearer to the   *)
(* end, or its broadcast to the next member.  With LocksAreOrdered this is *)
(* why operations end when every thread that may go on does.               *)
THEOREM OperationsAdvance == Spec => OnlyForward
<1>1. ASSUME Inv, [Next]_vars, NEW t \in Threads
      PROVE  Forward(t)
  <2> USE DEF Go, locks, told, sending, members
  <2>0. TypeOK /\ Places /\ Locks
    BY <1>1 DEF Inv
  <2>1. ASSUME NEW x \in Threads, Others(x), Forward(x)
        PROVE  Forward(t)
    BY <2>1 DEF Others, Forward
  <2>2. ASSUME NEW u \in Users, EnterStep(u) \/ HandleEnterRoom(u) \/ HandleChat(u)
        PROVE  Forward(t)
    <3>1. Forward(<<u, "recv">>)
      <4>1. PICK t1 \in Threads : t1 = <<u, "recv">>
        BY MadePackets
      <4>2. \/ pc[t1] = "rest"
            \/ pc[t1] = "enter" /\ pc'[t1] \in {"rest", "insert"}
            \/ pc[t1] = "insert" /\ pc'[t1] \in {"rest", "notify"}
            \/ pc[t1] = "data" /\ pc'[t1] = "list"
            \/ pc[t1] = "list" /\ pc'[t1] = "reply"
            \/ pc[t1] = "reply" /\ pc'[t1] = "rest"
        BY <2>0, <2>2, <4>1
        DEF EnterStep, NoSuchRoom, EnterRoom, RoomIsFull, Enter, GetRoomData,
            GetUsersList, Reply, HandleEnterRoom, HandleChat, TypeOK
      <4>3. QED
        BY <4>1, <4>2 DEF Forward, Distance
    <3>2. QED
      BY <2>0, <2>1, <2>2, <3>1, EnterLocks, MadePackets
  <2>3. ASSUME NEW u \in Users, LeaveStep(u) \/ ProcessDisconnect(u)
        PROVE  Forward(t)
    <3>1. Forward(<<u, "close">>)
      <4>1. PICK t1 \in Threads : t1 = <<u, "close">>
        BY MadePackets
      <4>2. \/ pc[t1] = "rest"
            \/ pc[t1] = "leave" /\ pc'[t1] = "erase"
            \/ pc[t1] = "erase" /\ pc'[t1] \in {"clear", "notify"}
            \/ pc[t1] = "clear" /\ pc'[t1] = "rest"
        BY <2>0, <2>3, <4>1
        DEF LeaveStep, LeaveRoom, Leave, ClearUser, ProcessDisconnect, TypeOK
      <4>3. QED
        BY <4>1, <4>2 DEF Forward, Distance
    <3>2. QED
      BY <2>0, <2>1, <2>3, <3>1, LeaveLocks, MadePackets
  <2>4. ASSUME NEW x \in Threads, BroadcastStep(x)
        PROVE  Forward(t)
    <3>1. CASE Broadcast(x)
      BY <2>0, <3>1 DEF Broadcast, Forward, Distance, TypeOK
    <3>2. CASE SendNext(x)
      BY <2>0, <3>2 DEF SendNext, Forward, TypeOK
    <3>3. CASE EndBroadcast(x)
      BY <2>0, <3>3 DEF EndBroadcast, Forward, Distance, TypeOK
    <3>4. QED
      BY <2>4, <3>1, <3>2, <3>3 DEF BroadcastStep
  <2>5. CASE UNCHANGED vars \/ \E u \in Users : Disconnect(u)
    BY <2>5 DEF vars, Disconnect, Forward
  <2>6. QED
    BY <1>1, <2>2, <2>3, <2>4, <2>5 DEF Next, Client
<1>2. Inv /\ [Next]_vars => \A t \in Threads : Forward(t)
  BY <1>1
<1>3. QED
  BY <1>2, InvHolds, PTL DEF Spec, OnlyForward

-----------------------------------------------------------------------------
(* The implementation of RoomMembers. *)

(* A room with members, or with somebody at the insertion, is open; who is *)
(* on the way out is still in; and who is out was taken out by its own     *)
(* ProcessDisconnect, which comes once.                                    *)
Membership ==
  /\ users # {} => open
  /\ \A u \in Users :
       /\ pc[<<u, "recv">>] = "insert" => open
       /\ pc[<<u, "close">>] \in {"leave", "erase"} => u \in users
       /\ u \in entered \ users =>
            u \in gone \/ pc[<<u, "close">>] \in {"notify", "send", "clear"}

LEMMA MembershipStep ==
  ASSUME Inv, Membership, [Next]_vars
  PROVE  Membership'
<1> USE DEF Go, locks, told, sending, members
<1>0. /\ TypeOK /\ Places /\ Locks /\ Roles
      /\ \A v \in Users : <<v, "recv">> \in Threads /\ <<v, "close">> \in Threads
  BY MadePackets DEF Inv
<1>1. ASSUME NEW u \in Users, EnterStep(u) \/ HandleEnterRoom(u) \/ HandleChat(u)
      PROVE  Membership'
  <2>1. CASE EnterRoom(u)
    BY <1>0, <2>1 DEF EnterRoom, Membership, TypeOK
  <2>2. CASE Enter(u)
    BY <1>0, <2>2 DEF Enter, SetRoom, Membership, TypeOK
  <2>3. CASE ~(EnterRoom(u) \/ Enter(u))
    BY <1>0, <1>1, <2>3
    DEF EnterStep, NoSuchRoom, RoomIsFull, GetRoomData, GetUsersList, Reply,
        HandleEnterRoom, HandleChat, Membership, TypeOK
  <2>4. QED
    BY <2>1, <2>2, <2>3
<1>2. ASSUME NEW u \in Users, LeaveStep(u) \/ ProcessDisconnect(u)
      PROVE  Membership'
  <2>1. CASE Leave(u)
    <3>1. manager = <<u, "close">>
      BY <1>0, <2>1 DEF Leave, Locks, LocksAt, Holding
    <3>2. \A v \in Users : pc[<<v, "recv">>] # "insert"
      BY <1>0, <3>1 DEF Locks, LocksAt, Holding
    <3>3. \A v \in Users \ {u} : pc[<<v, "close">>] # "erase"
      BY <1>0, <3>1 DEF Locks, LocksAt, Holding
    <3>4. users' = users \ {u} /\ UNCHANGED <<entered, gone>>
      BY <2>1 DEF Leave
    <3>5. /\ pc'[<<u, "close">>] \in {"clear", "notify"}
          /\ \A x \in Threads \ {<<u, "close">>} : pc'[x] = pc[x]
          /\ open' = open \/ users = {u}
      BY <1>0, <2>1 DEF Leave, LastOne, TypeOK
    <3>6. QED
      BY <1>0, <3>2, <3>3, <3>4, <3>5, MadePackets DEF Membership
  <2>2. CASE ~Leave(u)
    BY <1>0, <1>2, <2>2
    DEF LeaveStep, LeaveRoom, ClearUser, ProcessDisconnect, Membership, TypeOK
  <2>3. QED
    BY <2>1, <2>2
<1>3. ASSUME NEW t \in Threads, BroadcastStep(t)
      PROVE  Membership'
  <2>1. UNCHANGED <<users, open, entered, gone>>
    BY <1>3 DEF BroadcastStep, Broadcast, SendNext, EndBroadcast
  <2>2. \A x \in Threads \ {t} : pc'[x] = pc[x]
    BY <1>0, <1>3, BroadcastLocks DEF Others
  <2>3. /\ pc[t] \in {"notify", "send"} /\ pc'[t] # "insert"
        /\ \A u \in Users : t = <<u, "close">> => pc'[t] \in {"notify", "send", "clear"}
    <3>1. CASE Broadcast(t)
      BY <1>0, <3>1 DEF Broadcast, TypeOK
    <3>2. CASE SendNext(t)
      BY <3>2 DEF SendNext
    <3>3. CASE EndBroadcast(t)
      <4>1. \A u \in Users : t = <<u, "close">> => packet[t] = <<"leave", u>>
        BY <1>0, <3>3 DEF EndBroadcast, Places, PlaceAt
      <4>2. /\ pc[t] = "send" /\ pc'[t] \in {"data", "clear", "rest"}
            /\ packet[t][1] = "leave" => pc'[t] = "clear"
        BY <1>0, <3>3 DEF EndBroadcast, TypeOK
      <4>3. QED
        BY <4>1, <4>2
    <3>4. QED
      BY <1>3, <3>1, <3>2, <3>3 DEF BroadcastStep
  <2>4. QED
    BY <1>0, <2>1, <2>2, <2>3 DEF Membership
<1>4. CASE UNCHANGED vars \/ \E u \in Users : Disconnect(u)
  BY <1>4 DEF vars, Disconnect, Membership
<1>5. QED
  BY <1>1, <1>2, <1>3, <1>4 DEF Next, Client

LEMMA MembershipHolds == Spec => []Membership
<1>1. Init => Membership
  BY MadePackets DEF Init, Membership
<1>2. Inv /\ Membership /\ [Next]_vars => Membership'
  BY MembershipStep
<1>3. QED
  BY <1>1, <1>2, InvHolds, PTL DEF Spec

LEMMA MembersStep ==
  ASSUME Inv, Membership, [Next]_vars
  PROVE  [Room!MembersNext]_(Room!memberVars)
<1> USE DEF Go, locks, told, sending, members
<1>0. TypeOK /\ Roles
  BY DEF Inv
<1>1. ASSUME NEW u \in Users, Enter(u)
      PROVE  Room!MembersNext
  <2>1. open /\ u \notin entered
    BY <1>0, <1>1 DEF Enter, Membership, Roles, RoleAt
  <2>2. entered' \ users' = entered \ users /\ UNCHANGED open
    BY <1>0, <1>1, <2>1 DEF Enter, SetRoom, TypeOK
  <2>3. Cardinality(users) < Capacity /\ users' = users \union {u}
    BY <1>1 DEF Enter
  <2>4. u \notin users \union (entered \ users)
    BY <1>0, <2>1 DEF TypeOK
  <2>5. Room!Cardinality(users) = Cardinality(users)
    BY DEF Cardinality, Room!Cardinality
  <2>6. Room!Enter(u)
    BY <2>1, <2>2, <2>3, <2>4, <2>5 DEF Room!Enter
  <2>7. QED
    BY <2>6 DEF Room!MembersNext
<1>2. ASSUME NEW u \in Users, Leave(u)
      PROVE  Room!MembersNext
  <2>1. u \in users /\ open
    BY <1>2 DEF Leave, Membership
  <2>2. users' = users \ {u} /\ entered' \ users' = (entered \ users) \union {u}
    BY <1>0, <1>2, <2>1 DEF Leave, TypeOK
  <2>3. open' = (users' # {})
    BY <1>0, <1>2, <2>1, <2>2 DEF Leave, LastOne, TypeOK
  <2>4. QED
    BY <2>1, <2>2, <2>3 DEF Room!Leave, Room!MembersNext
<1>3. CASE UNCHANGED <<users, entered, open>>
  BY <1>3 DEF Room!memberVars
<1>4. ASSUME NEW u \in Users, EnterStep(u) \/ LeaveStep(u) \/ Client(u),
             ~Enter(u), ~Leave(u)
      PROVE  UNCHANGED <<users, entered, open>>
  BY <1>4 DEF EnterStep, NoSuchRoom, EnterRoom, RoomIsFull, GetRoomData, GetUsersList,
     Reply, LeaveStep, LeaveRoom, ClearUser, Client, HandleEnterRoom, HandleChat,
     Disconnect, ProcessDisconnect
<1>5. ASSUME NEW t \in Threads, BroadcastStep(t)
      PROVE  UNCHANGED <<users, entered, open>>
  BY <1>5 DEF BroadcastStep, Broadcast, SendNext, EndBroadcast
<1>6. QED
  BY <1>1, <1>2, <1>3, <1>4, <1>5 DEF Next, vars

(* Cut into steps by its locks, the room is still one that users enter and *)
(* leave at single instants: an Enter finds it open though the test was    *)
(* made before, and it closes with its last member and never again opens.  *)
THEOREM RoomIsAtomic == Spec => ImplementsMembers
<1>1. Init => Room!MembersInit
  BY DEF Init, Room!MembersInit
<1>2. Inv /\ Membership /\ [Next]_vars => [Room!MembersNext]_(Room!memberVars)
  BY MembersStep
<1>3. QED
  BY <1>1, <1>2, InvHolds, MembershipHolds, PTL
  DEF Spec, ImplementsMembers, Room!MembersSpec
=============================================================================
