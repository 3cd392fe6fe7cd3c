-------------------------- MODULE SessionLifecycle --------------------------
(***************************************************************************)
(* The life of Session objects: the pool of accepts of the Listener, the   *)
(* completion port and its workers, the overlapped recv, send and          *)
(* disconnect of each session, the Service's set of sessions, and the      *)
(* references that decide when a session is destroyed.                     *)
(*                                                                         *)
(* An OVERLAPPED belongs to an event that is part of its Session (or is an *)
(* AcceptEvent).  While the kernel or the port has it, only the reference  *)
(* in the event's _owner keeps the memory.  A stage of an event is:        *)
(* "kernel", the request is pending; "port", its completion packet is      *)
(* queued; any other, a thread works on it, or it is "idle".               *)
(*                                                                         *)
(* The contents of the connection are those of SessionSend, RecvStream and *)
(* ChatService.  Here a recv brings nothing, part of a frame, or one frame *)
(* (several frames act like several recvs), a User is only the reference   *)
(* it holds, and a session with a User may be sent to by any thread.       *)
(***************************************************************************)
EXTENDS Integers, Sequences, FiniteSets

CONSTANTS
  AcceptEvents,  \* Listener::_acceptEvents: 100
  Sessions,      \* addresses of Session objects (a bound)
  NoSession,     \* nullptr
  Workers,       \* worker threads: hardware_concurrency() in main
  Handled,       \* the frames with a handler in GPacketHandler: C_LOGIN,
                 \* others; {} unless PacketHandler::Init is called
  Faults,        \* calls that may fail, see FaultNames
  StackDepth     \* frames of RegisterAccept that fit on a thread's stack

FaultNames ==
  {"start", "register", "accept", "peer", "recv", "send", "disconnect"}

ASSUME LifecycleAssumption ==
  /\ NoSession \notin Sessions
  /\ Workers \in Nat \ {0}
  /\ Handled \subseteq {"login", "other"}
  /\ Faults \subseteq FaultNames
  /\ StackDepth \in Nat \ {0}
  /\ IsFiniteSet(AcceptEvents) /\ IsFiniteSet(Sessions)

VARIABLES
  running,       \* main has started the workers
  crash,         \* why the process died, or "no"
  port,          \* completion packets in the port, oldest first
  accept,        \* per AcceptEvent: its stage
  acceptSession, \* per AcceptEvent: _session
  stack,         \* per AcceptEvent: sessions in locals of the thread on it
  alive,         \* addresses at which there is a Session
  connected,     \* sessions whose _connected is true
  sessions,      \* Service::_sessions
  sessionCount,  \* Service::_sessionCount
  recv, send, disc, \* per session: the stage of each event
  owner,         \* per session: its events whose _owner is set
  user,          \* sessions a User refers to (User::ownerSession)
  stuck          \* those whose User is in a room it can no longer leave

service == <<sessions, sessionCount>>
events == <<recv, send, disc, owner>>
listener == <<running, accept, acceptSession, stack, alive, service>>
users == <<user, stuck>>
vars == <<listener, crash, port, connected, events, users>>

SessionEvents == {"recv", "send", "disconnect"}
Completions == {"accept"} \X AcceptEvents \union SessionEvents \X Sessions
AcceptStages == {"new", "register", "kernel", "port", "process", "add", "recv"}
Packets == {"login", "other"}
(* "data", "zero": a completion packet with or without bytes; "abandoned": *)
(* WSARecv failed with an error that was only logged; a packet: its        *)
(* handler runs; "enter": it holds a User of its own, to enter a room.     *)
RecvStages == {"idle", "register", "post", "kernel", "data", "zero",
               "abandoned", "enter"} \union Packets
RecvRunning == {"register", "post", "enter"} \union Packets
Handling(s) == recv[s] \in Handled \union {"enter"}
SendStages == {"idle", "post", "kernel", "port"}
DiscStages == {"idle", "kernel", "port", "user", "release", "done", "failed"}
DiscRunning == {"user", "release"}

Init ==
  /\ running = FALSE
  /\ crash = "no"
  /\ port = <<>>
  /\ accept = [e \in AcceptEvents |-> "new"]
  /\ acceptSession = [e \in AcceptEvents |-> NoSession]
  /\ stack = [e \in AcceptEvents |-> {}]
  /\ alive = {} /\ connected = {}
  /\ sessions = {} /\ sessionCount = 0
  /\ recv = [s \in Sessions |-> "idle"]
  /\ send = [s \in Sessions |-> "idle"]
  /\ disc = [s \in Sessions |-> "idle"]
  /\ owner = [s \in Sessions |-> {}]
  /\ user = {} /\ stuck = {}

-----------------------------------------------------------------------------
(* Helpers. *)

Stage(f, x, from, to) == f[x] = from /\ f' = [f EXCEPT ![x] = to]

(* The threads at work; one that only sends is not counted. *)
Busy == Cardinality({e \in AcceptEvents : accept[e] \notin {"new", "kernel", "port"}})
        + Cardinality({s \in Sessions : recv[s] \in RecvRunning})
        + Cardinality({s \in Sessions : disc[s] \in DiscRunning})

Complete(io, x) == port' = Append(port, <<io, x>>)

(* GetQueuedCompletionStatus on a free worker; a failed operation is       *)
(* dispatched like one that succeeded.                                     *)
Dispatch(io, x) ==
  /\ running /\ Busy < Workers
  /\ port # <<>> /\ Head(port) = <<io, x>>
  /\ port' = Tail(port)

KeepsSession(e) ==    \* mutant: the accept's session is offered again
  IF acceptSession[e] = NoSession THEN Sessions \ alive ELSE {acceptSession[e]}
NewSession(e) == Sessions \ alive

(* _owner = shared_from_this(), _owner = nullptr *)
OwnNothing(s, io) == owner                   \* mutant: no reference is taken
KeepOwner(s, io) == owner                    \* mutant: none is given back
Own(s, io) == [owner EXCEPT ![s] = @ \union {io}]
Disown(s, io) == [owner EXCEPT ![s] = @ \ {io}]

(* Session::Disconnect, after which the owners are own: the first caller   *)
(* requests DisconnectEx, which may fail at once.                          *)
AnyCaller(s) == TRUE     \* mutant: every caller disconnects
NoCaller(s) == FALSE     \* mutant: none does
FirstCaller(s) == s \in connected
Disconnect(s, own) ==
  \/ ~FirstCaller(s) /\ owner' = own /\ UNCHANGED <<connected, disc>>
  \/ /\ FirstCaller(s)
     /\ connected' = connected \ {s}
     /\ \/ /\ disc' = [disc EXCEPT ![s] = "kernel"]
           /\ owner' = [own EXCEPT ![s] = @ \union {"disconnect"}]
        \/ /\ "disconnect" \in Faults
           /\ disc' = [disc EXCEPT ![s] = "failed"]
           /\ owner' = own

(* WSARecv in RegisterRecv: pending, or failed and handled by HandleError. *)
PostRecv(s) ==
  \/ /\ recv' = [recv EXCEPT ![s] = "kernel"]
     /\ owner' = Own(s, "recv")
     /\ UNCHANGED <<connected, disc>>
  \/ /\ "recv" \in Faults
     /\ recv' = [recv EXCEPT ![s] = "abandoned"]
     /\ UNCHANGED <<connected, disc, owner>>
  \/ /\ "recv" \in Faults
     /\ recv' = [recv EXCEPT ![s] = "idle"]
     /\ Disconnect(s, owner)

(* Whoever may still use the object at s. *)
Referenced(s) ==
  \/ \E e \in AcceptEvents : acceptSession[e] = s \/ s \in stack[e]
  \/ s \in sessions
  \/ owner[s] # {}
  \/ s \in user
  \/ recv[s] \in RecvRunning \/ send[s] = "post" \/ disc[s] \in DiscRunning

-----------------------------------------------------------------------------
(* Listener. *)

(* Service::Start fails and main asserts that it does not. *)
StartFails ==
  /\ ~running /\ "start" \in Faults
  /\ \A e \in AcceptEvents : accept[e] = "new"
  /\ crash' = "startup"
  /\ UNCHANGED <<listener, port, connected, events, users>>

(* StartAccept: the events are registered one after the other. *)
StartAccept(e) ==
  /\ ~running
  /\ \A f \in AcceptEvents : accept[f] # "register"
  /\ Stage(accept, e, "new", "register")
  /\ UNCHANGED <<running, acceptSession, stack, alive, service, crash, port,
                 connected, events, users>>

StartWorkers ==
  /\ ~running
  /\ \A e \in AcceptEvents : accept[e] \notin {"new", "register"}
  /\ running' = TRUE
  /\ UNCHANGED <<accept, acceptSession, stack, alive, service, crash, port,
                 connected, events, users>>

(* RegisterAccept.  CreateSession returns nullptr if the port refuses the  *)
(* socket, and the pointer is followed.                                    *)
CreateFails(e) ==
  /\ accept[e] = "register" /\ "register" \in Faults
  /\ crash' = "nullSession"
  /\ UNCHANGED <<listener, port, connected, events, users>>

(* The locals go when AcceptEx is pending and all frames return. *)
RegisterAccept(e) ==
  \E s \in NewSession(e) :
    /\ Stage(accept, e, "register", "kernel")
    /\ acceptSession' = [acceptSession EXCEPT ![e] = s]
    /\ stack' = [stack EXCEPT ![e] = {}]
    /\ alive' = alive \union {s}
    /\ UNCHANGED <<running, service, crash, port, connected, events, users>>

(* AcceptEx fails at once: RegisterAccept calls itself, its session held.  *)
AcceptFails(e) ==
  \E s \in NewSession(e) :
    /\ "accept" \in Faults
    /\ accept[e] = "register"
    /\ acceptSession' = [acceptSession EXCEPT ![e] = s]
    /\ stack' = [stack EXCEPT ![e] = @ \union {s}]
    /\ alive' = alive \union {s}
    /\ crash' = IF Cardinality(stack[e]) + 1 >= StackDepth THEN "stack" ELSE "no"
    /\ UNCHANGED <<running, accept, service, port, connected, events, users>>

(* A client comes, or the accept fails. *)
KernelAccept(e) ==
  /\ Stage(accept, e, "kernel", "port")
  /\ Complete("accept", e)
  /\ UNCHANGED <<running, acceptSession, stack, alive, service, crash,
                 connected, events, users>>

ProcessAccept(e) ==
  /\ Dispatch("accept", e)
  /\ Stage(accept, e, "port", "process")
  /\ stack' = [stack EXCEPT ![e] = {acceptSession[e]}]
  /\ UNCHANGED <<running, acceptSession, alive, service, crash, connected,
                 events, users>>

(* setsockopt or getpeername fails: the session is given up. *)
GivesUp == "new"         \* mutant: the accept is not registered again
AfterRefusal == "register"
RefuseClient(e) ==
  /\ "peer" \in Faults
  /\ Stage(accept, e, "process", AfterRefusal)
  /\ UNCHANGED <<running, acceptSession, stack, alive, service, crash, port,
                 connected, events, users>>

(* ProcessConnect sets _connected, enters the session in the Service and   *)
(* registers the first recv; then RegisterAccept again.                    *)
RecvThenAdd(stage) ==    \* mutant: the recv is registered before AddSession
  CASE stage = "process" -> "recv" [] stage = "recv" -> "add"
    [] stage = "add" -> "register"
Following(stage) ==
  CASE stage = "process" -> "add" [] stage = "add" -> "recv"
    [] stage = "recv" -> "register"

ProcessConnect(e) ==
  /\ Stage(accept, e, "process", Following("process"))
  /\ connected' = connected \union {acceptSession[e]}
  /\ UNCHANGED <<running, acceptSession, stack, alive, service, crash, port,
                 events, users>>

AddSession(e) ==
  /\ Stage(accept, e, "add", Following("add"))
  /\ sessions' = sessions \union {acceptSession[e]}
  /\ sessionCount' = sessionCount + 1
  /\ UNCHANGED <<running, acceptSession, stack, alive, crash, port, connected,
                 events, users>>

FirstRecv(e) ==
  /\ Stage(accept, e, "recv", Following("recv"))
  /\ IF acceptSession[e] \in connected
       THEN PostRecv(acceptSession[e])
       ELSE UNCHANGED <<connected, recv, disc, owner>>
  /\ UNCHANGED <<running, acceptSession, stack, alive, service, crash, port,
                 send, users>>

-----------------------------------------------------------------------------
(* Recv. *)

(* RegisterRecv: the test of _connected, then WSARecv. *)
RegisterRecv(s) ==
  /\ Stage(recv, s, "register", IF s \in connected THEN "post" ELSE "idle")
  /\ UNCHANGED <<listener, crash, port, connected, send, disc, owner, users>>

PostRecvAgain(s) ==
  /\ recv[s] = "post"
  /\ PostRecv(s)
  /\ UNCHANGED <<listener, crash, port, send, users>>

(* Once DisconnectEx has completed, a recv brings nothing. *)
KernelRecv(s, how) ==
  /\ how = "data" => disc[s] \in {"idle", "kernel", "failed"}
  /\ Stage(recv, s, "kernel", how)
  /\ Complete("recv", s)
  /\ UNCHANGED <<listener, crash, connected, send, disc, owner, users>>

(* ProcessRecv without data. *)
ProcessRecvZero(s) ==
  /\ Dispatch("recv", s)
  /\ Stage(recv, s, "zero", "idle")
  /\ Disconnect(s, Disown(s, "recv"))
  /\ UNCHANGED <<listener, crash, send, users>>

(* ProcessRecv with part of a frame or with a frame. *)
ProcessRecv(s) ==
  \E next \in {"register"} \union Packets :
    /\ Dispatch("recv", s)
    /\ Stage(recv, s, "data", next)
    /\ owner' = Disown(s, "recv")
    /\ UNCHANGED <<listener, crash, connected, send, disc, users>>

(* A handler copies session->_user, to enter a room with it. *)
CopyUser(s) ==
  /\ "other" \in Handled /\ s \in user
  /\ Stage(recv, s, "other", "enter")
  /\ UNCHANGED <<listener, crash, port, connected, send, disc, owner, users>>

(* HandlePacket returns true: C_LOGIN makes a User unless the nickname is  *)
(* taken; the second login or the second room of a User may leave one      *)
(* behind in a room, and so may a copy that enters one after ClearUser.    *)
HandlePacket(s) ==
  /\ Handling(s)
  /\ recv' = [recv EXCEPT ![s] = "register"]
  /\ \/ /\ user' = user \/ (recv[s] = "login" /\ user' = user \union {s})
        /\ stuck' \in {stuck, stuck \union ({s} \cap user)}
     \/ /\ recv[s] = "enter"
        /\ user' = user \union {s} /\ stuck' = stuck \union {s}
  /\ UNCHANGED <<listener, crash, port, connected, send, disc, owner>>

(* A handler that follows session->_user when there is none, not yet or    *)
(* not any more.                                                           *)
HandlerFaults(s) ==
  /\ Handling(s) /\ recv[s] # "login"
  /\ s \notin user \/ disc[s] \in {"release", "done"}
  /\ crash' = "nullUser"
  /\ UNCHANGED <<listener, port, connected, events, users>>

(* HandlePacket returns false: no handler, a body that does not parse, or  *)
(* a handler that refuses, which C_LOGIN's never does.                     *)
Refused(p) == p = "other" \/ p \in Packets \ Handled
RefusePacket(s) ==
  /\ Refused(recv[s])
  /\ recv' = [recv EXCEPT ![s] = "idle"]
  /\ Disconnect(s, owner)
  /\ UNCHANGED <<listener, crash, port, send, users>>

-----------------------------------------------------------------------------
(* Send: the replies of the session's own handlers, and broadcasts by a    *)
(* handler or a ProcessDisconnect of any session.                          *)

Sender(s) ==
  \/ Handling(s)
  \/ s \in user /\ \E t \in Sessions : Handling(t) \/ disc[t] = "user"

Send(s) ==
  /\ Sender(s) /\ s \in connected
  /\ Stage(send, s, "idle", "post")
  /\ UNCHANGED <<listener, crash, port, connected, recv, disc, owner, users>>

(* RegisterSend returns at once for a session that was disconnected. *)
PostSendGone(s) ==
  /\ s \notin connected
  /\ Stage(send, s, "post", "idle")
  /\ UNCHANGED <<listener, crash, port, connected, recv, disc, owner, users>>

PostSend(s) ==
  /\ Stage(send, s, "post", "kernel")
  /\ owner' = Own(s, "send")
  /\ UNCHANGED <<listener, crash, port, connected, recv, disc, users>>

PostSendFails(s) ==
  /\ "send" \in Faults
  /\ Stage(send, s, "post", "idle")
  /\ Disconnect(s, owner) \/ UNCHANGED <<connected, disc, owner>>
  /\ UNCHANGED <<listener, crash, port, recv, users>>

KernelSend(s) ==
  /\ Stage(send, s, "kernel", "port")
  /\ Complete("send", s)
  /\ UNCHANGED <<listener, crash, connected, recv, disc, owner, users>>

(* ProcessSend: nothing was sent, the queue is empty, or RegisterSend.  *)
ProcessSend(s) ==
  /\ Dispatch("send", s)
  /\ \/ Stage(send, s, "port", "idle") /\ Disconnect(s, Disown(s, "send"))
     \/ /\ \/ Stage(send, s, "port", "idle")
           \/ s \in connected /\ Stage(send, s, "port", "post")
        /\ owner' = Disown(s, "send")
        /\ UNCHANGED <<connected, disc>>
  /\ UNCHANGED <<listener, crash, recv, users>>

-----------------------------------------------------------------------------
(* The end. *)

KernelDisconnect(s) ==
  /\ Stage(disc, s, "kernel", "port")
  /\ Complete("disconnect", s)
  /\ UNCHANGED <<listener, crash, connected, recv, send, owner, users>>

ProcessDisconnect(s) ==
  /\ Dispatch("disconnect", s)
  /\ Stage(disc, s, "port", "user")
  /\ owner' = Disown(s, "disconnect")
  /\ UNCHANGED <<listener, crash, connected, recv, send, users>>

(* LeaveRoom and _user = nullptr: the User and its reference go, unless    *)
(* a room keeps it.                                                        *)
FreedAnyway(s) == {s}    \* mutant: a User in a room is freed
Freed(s) == {s} \ stuck
ClearUser(s) ==
  /\ Stage(disc, s, "user", "release")
  /\ user' = user \ Freed(s)
  /\ UNCHANGED <<stuck, listener, crash, port, connected, recv, send, owner>>

(* ReleaseSession, with its ASSERT_CRASH. *)
Erase(s) == sessions' = sessions \ {s}
ReleaseSession(s) ==
  /\ Stage(disc, s, "release", "done")
  /\ Erase(s)
  /\ sessionCount' = sessionCount - 1
  /\ crash' = IF s \in sessions THEN crash ELSE "assert"
  /\ UNCHANGED <<running, accept, acceptSession, stack, alive, port, connected,
                 recv, send, owner, users>>

(* ~Session on the thread that drops the last reference. *)
Destroy(s) ==
  /\ s \in alive /\ ~Referenced(s)
  /\ alive' = alive \ {s}
  /\ connected' = connected \ {s}
  /\ recv' = [recv EXCEPT ![s] = "idle"]
  /\ send' = [send EXCEPT ![s] = "idle"]
  /\ disc' = [disc EXCEPT ![s] = "idle"]
  /\ UNCHANGED <<running, accept, acceptSession, stack, service, crash, port,
                 owner, users>>

-----------------------------------------------------------------------------
AcceptStep(e) ==
  \/ StartAccept(e) \/ CreateFails(e) \/ RegisterAccept(e) \/ AcceptFails(e)
  \/ RefuseClient(e) \/ ProcessConnect(e) \/ AddSession(e) \/ FirstRecv(e)

WorkerStep(s) ==
  \/ RegisterRecv(s) \/ PostRecvAgain(s)
  \/ CopyUser(s) \/ HandlePacket(s) \/ RefusePacket(s) \/ HandlerFaults(s)
  \/ PostSendGone(s) \/ PostSend(s) \/ PostSendFails(s)
  \/ ClearUser(s) \/ ReleaseSession(s)

Dequeue ==
  \/ \E e \in AcceptEvents : ProcessAccept(e)
  \/ \E s \in Sessions : \/ ProcessRecvZero(s) \/ ProcessRecv(s)
                         \/ ProcessSend(s) \/ ProcessDisconnect(s)

Kernel(s) ==
  \/ \E how \in {"data", "zero"} : KernelRecv(s, how)
  \/ KernelSend(s) \/ KernelDisconnect(s)

Step ==
  \/ StartFails \/ StartWorkers \/ Dequeue
  \/ \E e \in AcceptEvents : AcceptStep(e) \/ KernelAccept(e)
  \/ \E s \in Sessions : WorkerStep(s) \/ Kernel(s) \/ Send(s) \/ Destroy(s)

Next == crash = "no" /\ Step

Spec == Init /\ [][Next]_vars

(* A thread goes on with what it does, a free worker takes the oldest      *)
(* completion packet, and the last reference destroys.  Of the kernel only *)
(* that it ends the operations of a session that is being disconnected;    *)
(* nothing makes a client come, send or go.                                *)
Runs(A) == crash = "no" /\ A
Fairness ==
  /\ WF_vars(Runs(Dequeue))
  /\ \A e \in AcceptEvents : WF_vars(Runs(AcceptStep(e)))
  /\ \A s \in Sessions :
       /\ WF_vars(Runs(WorkerStep(s))) /\ WF_vars(Runs(Destroy(s)))
       /\ WF_vars(Runs(s \notin connected /\ KernelRecv(s, "zero")))
       /\ WF_vars(Runs(s \notin connected /\ KernelSend(s)))
       /\ WF_vars(Runs(KernelDisconnect(s)))
FairSpec == Spec /\ Fairness

-----------------------------------------------------------------------------
(* Types of the variables. *)
TypeOK ==
  /\ running \in BOOLEAN
  /\ crash \in {"no", "startup", "nullSession", "nullUser", "stack", "assert"}
  /\ port \in Seq(Completions)
  /\ accept \in [AcceptEvents -> AcceptStages]
  /\ acceptSession \in [AcceptEvents -> Sessions \union {NoSession}]
  /\ stack \in [AcceptEvents -> SUBSET Sessions]
  /\ alive \subseteq Sessions /\ connected \subseteq Sessions
  /\ sessions \subseteq Sessions /\ sessionCount \in Int
  /\ recv \in [Sessions -> RecvStages]
  /\ send \in [Sessions -> SendStages]
  /\ disc \in [Sessions -> DiscStages]
  /\ owner \in [Sessions -> SUBSET SessionEvents]
  /\ stuck \subseteq user /\ user \subseteq Sessions

(* No OVERLAPPED that the kernel or the port has is freed: its _owner is   *)
(* set and the Session there is alive, which is what Iocp::Dispatch needs  *)
(* when it follows iocpEvent->_owner without a test.  And no other _owner  *)
(* is set: a session would keep itself alive through its own event.        *)
OutstandingPinned ==
  /\ \A s \in Sessions :
       /\ recv[s] \in {"kernel", "data", "zero"} <=> "recv" \in owner[s]
       /\ send[s] \in {"kernel", "port"} <=> "send" \in owner[s]
       /\ disc[s] \in {"kernel", "port"} <=> "disconnect" \in owner[s]
       /\ owner[s] # {} => s \in alive
  /\ \A e \in AcceptEvents :
       accept[e] \in {"kernel", "port"} => acceptSession[e] \in alive

(* The port holds one packet for each operation that ended and was not     *)
(* dispatched yet, and no other: nothing is completed twice, and a worker  *)
(* that takes a packet finds the event waiting for it.                     *)
Returned ==
  ({"accept"} \X {e \in AcceptEvents : accept[e] = "port"})
  \union ({"recv"} \X {s \in Sessions : recv[s] \in {"data", "zero"}})
  \union ({"send"} \X {s \in Sessions : send[s] = "port"})
  \union ({"disconnect"} \X {s \in Sessions : disc[s] = "port"})
PortExact ==
  /\ \A i, j \in 1 .. Len(port) : port[i] = port[j] => i = j
  /\ {port[i] : i \in 1 .. Len(port)} = Returned

(* A session offered to AcceptEx is new: not connected, not in the         *)
(* Service, without an operation, and offered by no other accept.          *)
PendingAcceptIsFresh ==
  \A e \in AcceptEvents : accept[e] \in {"kernel", "port"} =>
    LET s == acceptSession[e]
    IN /\ s \notin connected \union sessions \union user
       /\ recv[s] = "idle" /\ send[s] = "idle" /\ disc[s] = "idle"
       /\ owner[s] = {}
       /\ \A f \in AcceptEvents \ {e} : acceptSession[f] # s

(* The Service counts the sessions it holds, each is released once (the    *)
(* assertion of ReleaseSession holds), and none is released before it was  *)
(* added, though its first recv may end it at once.                        *)
ServiceExact == sessionCount = Cardinality(sessions) /\ crash # "assert"

(* A session of the Service is read or is on its way out.  The exceptions  *)
(* are those of an error that is only logged or returned to nobody: the    *)
(* recv was abandoned, or DisconnectEx failed.                             *)
SessionsAccounted ==
  \A s \in sessions :
    \/ s \in connected /\ recv[s] # "idle"
    \/ \E e \in AcceptEvents : accept[e] = "recv" /\ acceptSession[e] = s
    \/ disc[s] \in {"kernel", "port", "user", "release", "failed"}

(* The Session objects live as ConnectionLife says.                        *)
LifeOf(s) ==
  IF s \notin alive THEN "none"
  ELSE IF s \in connected THEN "open"
  ELSE IF disc[s] = "idle" THEN "waiting"
  ELSE IF disc[s] = "done" THEN "released" ELSE "closing"
lives == [s \in Sessions |-> LifeOf(s)]
Life == INSTANCE ConnectionLife WITH state <- lives
ImplementsLife == Life!LifeSpec

(* A session whose disconnect was requested is destroyed, with its socket. *)
(* It is kept only by a User nobody takes back: one a room keeps, or one   *)
(* made by a login handled after ProcessDisconnect.                        *)
OutOfAddresses == alive = Sessions /\ \E e \in AcceptEvents : accept[e] = "register"
ClosedIsDestroyed ==
  \A s \in Sessions :
    disc[s] = "kernel" ~> \/ s \notin alive
                          \/ s \in stuck
                          \/ s \in user /\ disc[s] = "done"
                          \/ crash # "no"
                          \/ OutOfAddresses

(* An AcceptEvent whose completion is processed is offered to AcceptEx     *)
(* again, whether its client was taken or refused.                         *)
AcceptsResume ==
  \A e \in AcceptEvents :
    accept[e] = "process" ~> accept[e] = "kernel" \/ crash # "no" \/ OutOfAddresses

(* A login packet is answered, not taken for an abnormal packet that ends  *)
(* the connection (the policy stated above the handlers).                  *)
LoginIsHandled ==
  [][\A s \in Sessions : recv[s] = "login" => recv'[s] \in {"login", "register"}]_vars
=============================================================================
