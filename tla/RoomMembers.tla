---------------------------- MODULE RoomMembers ----------------------------
(***************************************************************************)
(* What RoomManager and Room promise of one room, with no threads, locks   *)
(* or broadcasts: a user enters at one instant, at which the room is open  *)
(* and has a place, and leaves at one instant; the last one out closes it, *)
(* for good.  ChatService takes EnterRoom and LeaveRoom as such instants.  *)
(***************************************************************************)
EXTENDS Naturals, FiniteSets

CONSTANTS Users, Capacity

VARIABLES
  members,  \* who is in the room
  former,   \* who left it
  open

memberVars == <<members, former, open>>

MembersInit == members = {} /\ former = {} /\ open = TRUE

Enter(u) ==
  /\ open /\ Cardinality(members) < Capacity
  /\ u \notin members \union former
  /\ members' = members \union {u}
  /\ UNCHANGED <<former, open>>

Leave(u) ==
  /\ u \in members
  /\ members' = members \ {u}
  /\ former' = former \union {u}
  /\ open' = (members' # {})

MembersNext == \E u \in Users : Enter(u) \/ Leave(u)

MembersSpec == MembersInit /\ [][MembersNext]_memberVars
=============================================================================
