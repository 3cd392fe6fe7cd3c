----------------------------- MODULE SessionSend -----------------------------
(***************************************************************************)
(* The send path of one Session (BigeumTalkServer/Session.cpp).            *)
(*                                                                         *)
(* Any worker thread may call Send on a session; the session owns ONE      *)
(* SendEvent (an OVERLAPPED with a vector of buffers), so at most one      *)
(* thread or the kernel may be using it.  There is no lock around its use: *)
(* the atomic flag _sendRegistered hands it from one user to the next.     *)
(* _mutex protects only _sendQueue; each of its critical sections touches  *)
(* nothing that blocks and is one action here.  Everything between two     *)
(* critical sections or atomic accesses is an action of its own.           *)
(*                                                                         *)
(* Sessions are never reused (Service::CreateSession makes a new one for   *)
(* every accept), so the model starts where ProcessConnect has stored TRUE *)
(* in _connected and ends with _connected FALSE, when Disconnect has run   *)
(* and requested DisconnectEx.                                             *)
(***************************************************************************)
EXTENDS Naturals, Sequences

CONSTANTS
  Threads,     \* worker threads of the completion port
  Packets,     \* SendBuffers that callers hand to Send, each of them once
  NoPacket,    \* the argument of a thread that is not in Send
  SendErrors   \* how WSASend may fail at once: "reset" stands for
               \* WSAECONNRESET and WSAECONNABORTED, "other" for the rest

ASSUME PacketAssumption == NoPacket \notin Packets
ASSUME SendErrorsAssumption == SendErrors \subseteq {"reset", "other"}

VARIABLES
  connected,       \* _connected
  sendQueue,       \* _sendQueue
  sendRegistered,  \* _sendRegistered
  sendBuffers,     \* _sendEvent._sendBuffers
  eventOwner,      \* _sendEvent._owner # nullptr
  posted,          \* overlapped sends on _sendEvent that the kernel holds or
                   \* whose completion packet no worker has dequeued
  pc,              \* where each thread is in the send path
  arg,             \* the sendBuffer argument of each thread's Send
  offered,         \* history: packets that were passed to Send
  wire             \* history: packets given to the socket, in order

event == <<sendBuffers, eventOwner>>
vars == <<connected, sendQueue, sendRegistered, sendBuffers, eventOwner,
          posted, pc, arg, offered, wire>>

-----------------------------------------------------------------------------
(* Program counters, named after the statement the thread runs next. *)

PCs == {"idle", "push", "RegisterSend", "drain", "WSASend", "sendFailed",
        "unregister", "ProcessSend", "ProcessSend0", "checkQueue"}

(* The thread has the right to use _sendEvent. *)
Holding == PCs \ {"idle", "push"}

Goto(t, from, to) ==
  /\ pc[t] = from
  /\ pc' = [pc EXCEPT ![t] = to]

Init ==
  /\ connected = TRUE
  /\ sendQueue = <<>>
  /\ sendRegistered = FALSE
  /\ sendBuffers = <<>>
  /\ eventOwner = FALSE
  /\ posted = 0
  /\ pc = [t \in Threads |-> "idle"]
  /\ arg = [t \in Threads |-> NoPacket]
  /\ offered = {}
  /\ wire = <<>>

-----------------------------------------------------------------------------
(* Mutants: plausible slips in the helpers below, each of which must break *)
(* one of the properties.                                                  *)
ExchangeIgnored == TRUE             \* Send registers whatever the flag says
EnqueueMoved(t) ==                  \* pushes an argument already moved from
  sendQueue' = Append(sendQueue, NoPacket)
TakeNoReference == UNCHANGED eventOwner
ReleaseOwnerOnly ==                 \* forgets _sendBuffers.clear()
  eventOwner' = FALSE /\ UNCHANGED sendBuffers
AlwaysIdle == TRUE                  \* ProcessSend never looks at the queue
FlagStaysOn == TRUE                 \* ProcessSend forgets the flag

-----------------------------------------------------------------------------
(* Helpers: the statements that several operations share. *)

(* _sendRegistered.exchange(true) == false *)
ExchangeWins == ~sendRegistered

(* _sendQueue.push(sendBuffer) *)
Enqueue(t) == sendQueue' = Append(sendQueue, arg[t])

(* _sendEvent._owner = shared_from_this() *)
TakeReference == eventOwner' = TRUE

(* _sendEvent._owner = nullptr and _sendEvent._sendBuffers.clear() *)
ReleaseBatch == eventOwner' = FALSE /\ sendBuffers' = <<>>

(* _sendQueue.empty() in ProcessSend, and the flag it leaves behind *)
QueueIsEmpty == sendQueue = <<>>
FlagAfterSend == sendQueue # <<>>

-----------------------------------------------------------------------------
(* Session::Send, up to the IsConnected test. *)
Send(t, p) ==
  /\ p \notin offered
  /\ connected
  /\ Goto(t, "idle", "push")
  /\ arg' = [arg EXCEPT ![t] = p]
  /\ offered' = offered \union {p}
  /\ UNCHANGED <<connected, sendQueue, sendRegistered, event, posted, wire>>

(* The critical section of Send: push and exchange(true).  Only the thread *)
(* that turned the flag on goes to RegisterSend.                           *)
Push(t) ==
  /\ Goto(t, "push", IF ExchangeWins THEN "RegisterSend" ELSE "idle")
  /\ Enqueue(t)
  /\ sendRegistered' = TRUE
  /\ arg' = [arg EXCEPT ![t] = NoPacket]
  /\ UNCHANGED <<connected, event, posted, offered, wire>>

(* RegisterSend on a session that is gone returns and leaves the flag on. *)
RegisterSendGone(t) ==
  /\ ~connected
  /\ Goto(t, "RegisterSend", "idle")
  /\ UNCHANGED <<connected, sendQueue, sendRegistered, event, posted, arg,
                 offered, wire>>

(* RegisterSend: _sendEvent.Init() and the reference of the pending I/O. *)
RegisterSend(t) ==
  /\ connected
  /\ Goto(t, "RegisterSend", "drain")
  /\ TakeReference
  /\ UNCHANGED <<connected, sendQueue, sendRegistered, sendBuffers, posted,
                 arg, offered, wire>>

(* The critical section of RegisterSend: the queue moves into the event. *)
Drain(t) ==
  /\ Goto(t, "drain", "WSASend")
  /\ sendBuffers' = sendBuffers \o sendQueue
  /\ sendQueue' = <<>>
  /\ UNCHANGED <<connected, sendRegistered, eventOwner, posted, arg, offered,
                 wire>>

(* WSASend succeeds or is pending: the kernel has the event from here on   *)
(* and posts one completion packet, whoever returns first.                 *)
PostSend(t) ==
  /\ Goto(t, "WSASend", "idle")
  /\ posted' = posted + 1
  /\ wire' = wire \o sendBuffers
  /\ UNCHANGED <<connected, sendQueue, sendRegistered, event, arg, offered>>

(* WSASend fails at once.  HandleError disconnects the session for         *)
(* WSAECONNRESET and WSAECONNABORTED, and only logs any other error.       *)
FailSend(t, e) ==
  /\ Goto(t, "WSASend", "sendFailed")
  /\ connected' = (connected /\ e # "reset")
  /\ UNCHANGED <<sendQueue, sendRegistered, event, posted, arg, offered, wire>>

(* The error branch drops the batch ... *)
ReleaseEvent(t) ==
  /\ Goto(t, "sendFailed", "unregister")
  /\ ReleaseBatch
  /\ UNCHANGED <<connected, sendQueue, sendRegistered, posted, arg, offered,
                 wire>>

(* ... and then stores FALSE in the flag, outside _mutex. *)
Unregister(t) ==
  /\ Goto(t, "unregister", "idle")
  /\ sendRegistered' = FALSE
  /\ UNCHANGED <<connected, sendQueue, event, posted, arg, offered, wire>>

(* A worker dequeues the completion packet; zero bytes for a failed send. *)
Dequeue(t) ==
  /\ posted > 0
  /\ \E entry \in {"ProcessSend", "ProcessSend0"} : Goto(t, "idle", entry)
  /\ posted' = posted - 1
  /\ UNCHANGED <<connected, sendQueue, sendRegistered, event, arg, offered,
                 wire>>

(* ProcessSend releases the event and, unless nothing was sent, goes on. *)
ProcessSend(t) ==
  /\ Goto(t, "ProcessSend", "checkQueue")
  /\ ReleaseBatch
  /\ UNCHANGED <<connected, sendQueue, sendRegistered, posted, arg, offered,
                 wire>>

(* ProcessSend with zero bytes disconnects and leaves the flag on. *)
ProcessSendZero(t) ==
  /\ Goto(t, "ProcessSend0", "idle")
  /\ ReleaseBatch
  /\ connected' = FALSE
  /\ UNCHANGED <<sendQueue, sendRegistered, posted, arg, offered, wire>>

(* The critical section of ProcessSend: give the flag back or send again. *)
CheckQueue(t) ==
  /\ Goto(t, "checkQueue", IF QueueIsEmpty THEN "idle" ELSE "RegisterSend")
  /\ sendRegistered' = FlagAfterSend
  /\ UNCHANGED <<connected, sendQueue, event, posted, arg, offered, wire>>

(* Session::Disconnect called from outside the send path (ProcessRecv, or  *)
(* the error branch of RegisterRecv).                                      *)
Disconnect ==
  /\ connected
  /\ connected' = FALSE
  /\ UNCHANGED <<sendQueue, sendRegistered, event, posted, pc, arg, offered,
                 wire>>

(* What a thread that is inside the send path does next. *)
Step(t) ==
  \/ Push(t)
  \/ RegisterSendGone(t) \/ RegisterSend(t) \/ Drain(t)
  \/ PostSend(t) \/ (\E e \in SendErrors : FailSend(t, e))
  \/ ReleaseEvent(t) \/ Unregister(t)
  \/ ProcessSend(t) \/ ProcessSendZero(t) \/ CheckQueue(t)

Next ==
  \/ \E t \in Threads : Step(t) \/ Dequeue(t) \/ (\E p \in Packets : Send(t, p))
  \/ Disconnect

Spec == Init /\ [][Next]_vars

(* A thread inside the send path keeps running (no step of it blocks), the *)
(* kernel completes every overlapped send and an idle worker dequeues it.  *)
(* Nothing is assumed about callers or about disconnection.                *)
Fairness ==
  /\ \A t \in Threads : WF_vars(Step(t))
  /\ WF_vars(\E t \in Threads : Dequeue(t))

FairSpec == Spec /\ Fairness

-----------------------------------------------------------------------------
(* Properties. *)

TypeOK ==
  /\ connected \in BOOLEAN
  /\ sendQueue \in Seq(Packets)
  /\ sendRegistered \in BOOLEAN
  /\ sendBuffers \in Seq(Packets)
  /\ eventOwner \in BOOLEAN
  /\ posted \in Nat
  /\ pc \in [Threads -> PCs]
  /\ arg \in [Threads -> Packets \union {NoPacket}]
  /\ \A t \in Threads : pc[t] = "push" => arg[t] \in Packets
  /\ offered \subseteq Packets
  /\ wire \in Seq(Packets)

Holders == {t \in Threads : pc[t] \in Holding}

(* The one SendEvent of a session has one user at a time: a single thread  *)
(* between winning _sendRegistered and posting or releasing the event, or  *)
(* the kernel with a single overlapped send.  Session.cpp takes no lock    *)
(* around these uses; a second user would rewrite an OVERLAPPED in flight. *)
ExclusiveSendEvent ==
  /\ \A t, u \in Holders : t = u
  /\ posted <= 1
  /\ posted = 1 => Holders = {}

(* WSASend is never called with an empty gather list.  Its completion      *)
(* would carry zero bytes, which ProcessSend takes for a lost connection   *)
(* ("Send 0") and answers by disconnecting a healthy client.               *)
BatchNeverEmpty ==
  \A t \in Threads : pc[t] = "WSASend" => sendBuffers # <<>>

(* While the kernel holds the event, the event keeps the session alive     *)
(* (Iocp::Dispatch dereferences _owner) and keeps the buffers it is        *)
(* sending out of the chunk pool.                                          *)
KernelBatchPinned ==
  posted > 0 => eventOwner /\ sendBuffers # <<>>

(* A queued packet of a connected session always has somebody in charge:   *)
(* a thread that will drain the queue or look at it again, or a send whose *)
(* completion will.  Otherwise the packet waits for a later, unrelated     *)
(* Send that may never come.                                               *)
NoStrandedPacket ==
  connected /\ sendQueue # <<>> => posted > 0 \/ Holders # {}

PacketsOf(s) == {s[i] : i \in 1..Len(s)}

(* Session::Send "sends a packet to the session": a packet that reached    *)
(* the queue reaches the socket, or the session ends.                      *)
Delivered ==
  \A p \in Packets :
    p \in PacketsOf(sendQueue) ~> (p \in PacketsOf(wire) \/ ~connected)

(* The packets of a drained batch are unsent until WSASend takes them or   *)
(* the error branch clears them.                                           *)
Unsent ==
  IF \E t \in Threads : pc[t] \in {"WSASend", "sendFailed"}
  THEN sendBuffers ELSE <<>>

Channel == INSTANCE PacketChannel WITH pending <- Unsent \o sendQueue

(* Callers on many threads, batches, failed sends and completions that     *)
(* overtake the return of WSASend together still are a FIFO channel that   *)
(* sends no packet twice.                                                  *)
ImplementsChannel == Channel!ChanSpec

=============================================================================
