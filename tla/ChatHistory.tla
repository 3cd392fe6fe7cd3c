----------------------------- MODULE ChatHistory -----------------------------
(***************************************************************************)
(* ChatService with a record of what each session did, to say exactly when *)
(* _user and _user->room can be missing and when something of a session is *)
(* left behind, whatever the other sessions do and however many workers    *)
(* there are.  The history variables change nothing: no step reads them.   *)
(***************************************************************************)
EXTENDS ChatService

VARIABLES
  unruly,     \* sessions whose client broke the protocol
  overlapped  \* sessions whose ProcessDisconnect met a running handler

history == <<unruly, overlapped>>
hvars == <<vars, history>>

(* A client logs in a second time, uses another packet before its login,   *)
(* or enters or creates a room after it entered one.                       *)
BreaksProtocol(s) ==
  /\ pc[s] = "loop"
  /\ \/ pc'[s] = "assignUser" /\ LoggedIn(s)
     \/ pc'[s] \in {"createRoom", "readUser"} /\ (~LoggedIn(s) \/ Entered(s))
     \/ crash' = "nullUser" /\ ~LoggedIn(s)

(* Two workers are in the session: one handles a packet, one its end.      *)
Overlaps(s) == life'[s] \in Closers /\ pc'[s] \in Handlers

Record ==
  /\ unruly' = unruly \union {s \in Sessions : BreaksProtocol(s)}
  /\ overlapped' = overlapped \union {s \in Sessions : Overlaps(s)}

HistoryInit == Init /\ unruly = {} /\ overlapped = {}
HistoryNext == Next /\ Record
HistorySpec == HistoryInit /\ [][HistoryNext]_hvars

Quiet == Sessions \ (unruly \union overlapped)

-----------------------------------------------------------------------------
(* Properties. *)

(* A handler or a ProcessDisconnect that follows a null _user or room, or  *)
(* uses _user while the other assigns it, has only its own session to      *)
(* blame: the client broke the protocol, or the two overlapped.  Nothing   *)
(* that other sessions do to the rooms they share brings it about.         *)
FaultsAreOwn ==
  [][\A s \in Sessions :
       Die(s) /\ crash' \in {"nullUser", "nullRoom", "race"}
         => s \in unruly' \union overlapped']_hvars

(* ProcessDisconnect clears up what the session used: once it has released *)
(* a session that is not to blame in the same way, no User of it is left,  *)
(* so its nickname is free and no room has it, whatever the others do.     *)
QuietSessionsCleanUp ==
  \A s \in Quiet :
    life[s] = "gone" => \A u \in LiveUsers : users[u].ownerSession # s

(* GetRoomUserCount "returns the number of users currently in the room".   *)
(* It goes wrong at one place only: a User enters the room it is in, which *)
(* takes a client that broke the protocol.  No order of enters and leaves  *)
(* of different Users changes the surplus of the count, up or down.        *)
Surplus(r) == rooms[r].userCount - Cardinality(rooms[r].users)
OnlyReentryMiscounts ==
  [][\A r \in RoomIds :
       Surplus(r)' # Surplus(r) =>
         \E s \in unruly : /\ pc[s] = "enterRoom" /\ pc'[s] = "roomData"
                           /\ target[s] = r /\ arg[s] \in rooms[r].users]_hvars

=============================================================================
