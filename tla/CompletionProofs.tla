-------------------------- MODULE CompletionProofs --------------------------
(***************************************************************************)
(* Proofs about the completion port of SessionLifecycle and the _owner of  *)
(* the events, for any sessions, accepts, workers and failing calls.       *)
(*                                                                         *)
(* Iocp::Dispatch believes what the port says: it does not ask whether an  *)
(* event is outstanding.  Owned and PortExact say that it need not.  A     *)
(* packet is queued when the kernel is done with an operation, which it is *)
(* once per request, and while it is queued the event keeps its stage;     *)
(* DisconnectEx in particular is requested once (ClosedOnce), so the event *)
(* of a disconnect is not requested again while its packet is queued.      *)
(*                                                                         *)
(* ReleasedIsLetGo is about the end of a session: who may still refer to   *)
(* it after it left the Service.                                           *)
(***************************************************************************)
EXTENDS SessionLifecycleProofs, SequenceTheorems

(* An event has an _owner only while the kernel or the port has it.        *)
OwnedAt(s) ==
  /\ "recv" \in owner[s] => recv[s] \in {"kernel", "data", "zero"}
  /\ "send" \in owner[s] => send[s] \in {"kernel", "port"}
  /\ "disconnect" \in owner[s] => disc[s] \in {"kernel", "port"}
Owned == \A s \in Sessions : OwnedAt(s)

-----------------------------------------------------------------------------
(* Owners. *)

(* Disconnect takes a reference only for the request that it makes.        *)
LEMMA DisconnectOwns ==
  ASSUME TypeOK, Shape, Owned, NEW s \in Sessions,
         NEW own \in [Sessions -> SUBSET SessionEvents],
         own[s] \subseteq owner[s], Disconnect(s, own)
  PROVE  /\ "disconnect" \in owner'[s] => disc'[s] \in {"kernel", "port"}
         /\ owner'[s] \ {"disconnect"} \subseteq own[s]
         /\ \A r \in Sessions \ {s} : disc'[r] = disc[r] /\ owner'[r] = own[r]
<1>1. s \in connected => disc[s] = "idle" /\ "disconnect" \notin owner[s]
  BY DEF Shape, ClosedOnce, ClosedAt, Owned, OwnedAt
<1>2. CASE s \in connected
  BY <1>1, <1>2 DEF Disconnect, FirstCaller, TypeOK
<1>3. CASE s \notin connected
  BY <1>3 DEF Disconnect, FirstCaller, TypeOK, Owned, OwnedAt
<1>4. QED
  BY <1>2, <1>3

(* WSARecv takes a reference only if it is pending.                        *)
LEMMA PostRecvOwns ==
  ASSUME TypeOK, Shape, Owned, NEW s \in Sessions,
         recv[s] \in {"post", "idle"}, UNCHANGED send, PostRecv(s)
  PROVE  Owned'
<1>1. owner[s] \subseteq owner[s] /\ "recv" \notin owner[s]
      /\ owner \in [Sessions -> SUBSET SessionEvents]
  BY DEF Owned, OwnedAt, TypeOK
<1>2. CASE recv' = [recv EXCEPT ![s] = "idle"] /\ Disconnect(s, owner)
  BY <1>1, <1>2, DisconnectOwns DEF Owned, OwnedAt, TypeOK
<1>3. CASE UNCHANGED <<connected, disc>>
  BY <1>1, <1>3 DEF PostRecv, Own, Disconnect, Owned, OwnedAt, TypeOK
<1>4. QED
  BY <1>2, <1>3 DEF PostRecv

LEMMA OwnedStep ==
  ASSUME TypeOK, Shape, Owned, [Next]_vars
  PROVE  Owned'
<1> USE DEF Stage, listener, service, events, users
<1>0. \A s \in Sessions : \A io \in SessionEvents :
        /\ Disown(s, io) \in [Sessions -> SUBSET SessionEvents]
        /\ Disown(s, io)[s] = owner[s] \ {io}
        /\ \A r \in Sessions \ {s} : Disown(s, io)[r] = owner[r]
  BY DEF Disown, TypeOK
<1>1. CASE UNCHANGED events
  BY <1>1 DEF Owned, OwnedAt
<1>2. ASSUME NEW e \in AcceptEvents, AcceptStep(e) \/ KernelAccept(e) \/ ProcessAccept(e)
      PROVE  Owned'
  <2>1. CASE FirstRecv(e) /\ PostRecv(acceptSession[e])
    <3>1. /\ acceptSession[e] \in Sessions
          /\ recv[acceptSession[e]] = "idle"
      BY <2>1 DEF FirstRecv, Shape, Accepting, Held, Fresh, TypeOK
    <3>2. QED
      BY <2>1, <3>1, PostRecvOwns DEF FirstRecv
  <2>2. CASE ~(FirstRecv(e) /\ PostRecv(acceptSession[e]))
    BY <1>1, <1>2, <2>2 DEF AcceptStep, StartAccept, CreateFails, RegisterAccept,
       AcceptFails, RefuseClient, ProcessConnect, AddSession, FirstRecv,
       KernelAccept, ProcessAccept
  <2>3. QED
    BY <2>1, <2>2
<1>3. ASSUME NEW s \in Sessions, WorkerStep(s)
      PROVE  Owned'
  <2>0. owner[s] \subseteq owner[s] /\ owner \in [Sessions -> SUBSET SessionEvents]
    BY DEF TypeOK
  <2>1. CASE RegisterRecv(s)
    BY <2>1 DEF RegisterRecv, Owned, OwnedAt, TypeOK
  <2>2. CASE PostRecvAgain(s)
    BY <2>2, PostRecvOwns DEF PostRecvAgain
  <2>3. CASE HandlePacket(s)
    BY <2>3, LifecycleAssumption DEF HandlePacket, Handling, Owned, OwnedAt, TypeOK
  <2>4. CASE RefusePacket(s)
    BY <2>0, <2>4, DisconnectOwns
    DEF RefusePacket, Refused, Packets, Owned, OwnedAt, TypeOK
  <2>5. CASE HandlerFaults(s)
    BY <1>1, <2>5 DEF HandlerFaults
  <2>6. CASE PostSend(s)
    BY <2>6 DEF PostSend, Own, Owned, OwnedAt, TypeOK
  <2>7. CASE PostSendFails(s)
    <3>1. CASE Disconnect(s, owner)
      BY <2>0, <2>7, <3>1, DisconnectOwns DEF PostSendFails, Owned, OwnedAt, TypeOK
    <3>2. CASE UNCHANGED <<connected, disc, owner>>
      BY <2>7, <3>2 DEF PostSendFails, Owned, OwnedAt, TypeOK
    <3>3. QED
      BY <2>7, <3>1, <3>2 DEF PostSendFails
  <2>8. CASE ClearUser(s)
    BY <2>8 DEF ClearUser, Owned, OwnedAt, TypeOK
  <2>9. CASE ReleaseSession(s)
    BY <2>9 DEF ReleaseSession, Owned, OwnedAt, TypeOK
  <2>10. CASE CopyUser(s)
    BY <2>10 DEF CopyUser, Owned, OwnedAt, TypeOK
  <2>11. CASE PostSendGone(s)
    BY <2>11 DEF PostSendGone, Owned, OwnedAt, TypeOK
  <2>12. QED
    BY <1>3, <2>1, <2>2, <2>3, <2>4, <2>5, <2>6, <2>7, <2>8, <2>9, <2>10, <2>11
    DEF WorkerStep
<1>4. ASSUME NEW s \in Sessions, ProcessRecvZero(s)
      PROVE  Owned'
  <2> DEFINE own == Disown(s, "recv")
  <2>1. /\ own \in [Sessions -> SUBSET SessionEvents] /\ own[s] = owner[s] \ {"recv"}
        /\ \A r \in Sessions \ {s} : own[r] = owner[r]
    BY <1>0 DEF SessionEvents
  <2>2. /\ Disconnect(s, own) /\ recv' = [recv EXCEPT ![s] = "idle"]
        /\ UNCHANGED send
    BY <1>4 DEF ProcessRecvZero
  <2> HIDE DEF own
  <2>3. /\ "disconnect" \in owner'[s] => disc'[s] \in {"kernel", "port"}
        /\ owner'[s] \ {"disconnect"} \subseteq own[s]
        /\ \A r \in Sessions \ {s} : disc'[r] = disc[r] /\ owner'[r] = own[r]
    BY <2>1, <2>2, DisconnectOwns
  <2>4. QED
    BY <2>1, <2>2, <2>3 DEF Owned, OwnedAt, TypeOK
<1>5. ASSUME NEW s \in Sessions, ProcessRecv(s)
      PROVE  Owned'
  BY <1>0, <1>5 DEF ProcessRecv, SessionEvents, Owned, OwnedAt, TypeOK
<1>6. ASSUME NEW s \in Sessions, ProcessSend(s)
      PROVE  Owned'
  <2>1. CASE Disconnect(s, Disown(s, "send")) /\ send' = [send EXCEPT ![s] = "idle"]
    <3> DEFINE own == Disown(s, "send")
    <3>1. /\ own \in [Sessions -> SUBSET SessionEvents] /\ own[s] = owner[s] \ {"send"}
          /\ \A r \in Sessions \ {s} : own[r] = owner[r]
      BY <1>0 DEF SessionEvents
    <3>2. /\ Disconnect(s, own) /\ send' = [send EXCEPT ![s] = "idle"]
          /\ UNCHANGED recv
      BY <1>6, <2>1 DEF ProcessSend
    <3> HIDE DEF own
    <3>3. /\ "disconnect" \in owner'[s] => disc'[s] \in {"kernel", "port"}
          /\ owner'[s] \ {"disconnect"} \subseteq own[s]
          /\ \A r \in Sessions \ {s} : disc'[r] = disc[r] /\ owner'[r] = own[r]
      BY <3>1, <3>2, DisconnectOwns
    <3>4. QED
      BY <3>1, <3>2, <3>3 DEF Owned, OwnedAt, TypeOK
  <2>2. CASE owner' = Disown(s, "send") /\ UNCHANGED <<connected, disc>>
    BY <1>0, <1>6, <2>2 DEF ProcessSend, SessionEvents, Owned, OwnedAt, TypeOK
  <2>3. QED
    BY <1>6, <2>1, <2>2 DEF ProcessSend
<1>7. ASSUME NEW s \in Sessions, ProcessDisconnect(s)
      PROVE  Owned'
  BY <1>0, <1>7 DEF ProcessDisconnect, SessionEvents, Owned, OwnedAt, TypeOK
<1>8. ASSUME NEW s \in Sessions, Kernel(s) \/ Send(s)
      PROVE  Owned'
  BY <1>8 DEF Kernel, KernelRecv, KernelSend, KernelDisconnect, Send, Owned,
     OwnedAt, TypeOK
<1>9. ASSUME NEW s \in Sessions, Destroy(s)
      PROVE  Owned'
  BY <1>9 DEF Destroy, Referenced, Owned, OwnedAt, TypeOK
<1>10. CASE StartFails \/ StartWorkers \/ UNCHANGED vars
  BY <1>1, <1>10 DEF StartFails, StartWorkers, vars
<1>11. QED
  BY <1>2, <1>3, <1>4, <1>5, <1>6, <1>7, <1>8, <1>9, <1>10
  DEF Next, Step, Dequeue

LEMMA OwnedAlways == Spec => []Owned
<1>1. Init => Owned
  BY DEF Init, Owned, OwnedAt
<1>2. Inv /\ Owned /\ [Next]_vars => Owned'
  BY OwnedStep DEF Inv
<1>3. QED
  BY <1>1, <1>2, InvHolds, PTL DEF Spec

(* The OVERLAPPED of every pending or completed operation is in a live     *)
(* Session that its event owns, so Iocp::Dispatch follows no freed owner;  *)
(* and an event that is not outstanding owns nothing, so no session keeps  *)
(* itself alive.                                                           *)
THEOREM OutstandingIsPinned == Spec => []OutstandingPinned
<1>1. Inv /\ Owned => OutstandingPinned
  <2>1. SUFFICES ASSUME Inv, Owned PROVE OutstandingPinned
    OBVIOUS
  <2>2. \A s \in Sessions : PinnedAt(s) /\ OwnedAt(s)
    BY <2>1 DEF Inv, Shape, Pinned, Owned
  <2>3. \A s \in Sessions : owner[s] # {} => s \in alive
    BY <2>1 DEF Inv, Shape, Unborn, Fresh
  <2>4. \A e \in AcceptEvents :
          accept[e] \in {"kernel", "port"} => acceptSession[e] \in alive
    BY <2>1 DEF Inv, Shape, Accepting, Held
  <2>5. QED
    BY <2>2, <2>3, <2>4 DEF PinnedAt, OwnedAt, OutstandingPinned
<1>2. QED
  BY <1>1, InvHolds, OwnedAlways, PTL

-----------------------------------------------------------------------------
(* The port. *)

(* A packet that is queued is a new one in the port.                       *)
LEMMA QueuePacket ==
  ASSUME TypeOK, PortExact, NEW io, NEW x, <<io, x>> \in Completions,
         Complete(io, x), <<io, x>> \notin Returned,
         Returned' = Returned \union {<<io, x>>}
  PROVE  PortExact'
<1> DEFINE c == <<io, x>>
<1>1. port \in Seq(Completions) /\ c \in Completions /\ port' = Append(port, c)
  BY DEF TypeOK, Complete
<1> HIDE DEF c
<1>2. /\ Len(port) \in Nat /\ Len(port') = Len(port) + 1
      /\ \A i \in 1 .. Len(port) : port'[i] = port[i]
      /\ port'[Len(port) + 1] = c
  BY <1>1, AppendProperties, LenProperties
<1>3. \A i \in 1 .. Len(port) : port[i] \in Returned /\ port[i] # c
  BY DEF PortExact, c
<1>4. \A i, j \in 1 .. Len(port') : port'[i] = port'[j] => i = j
  BY <1>2, <1>3 DEF PortExact
<1>5. {port'[i] : i \in 1 .. Len(port')} = {port[i] : i \in 1 .. Len(port)} \union {c}
  BY <1>2
<1>6. QED
  BY <1>4, <1>5 DEF PortExact, c

(* A packet that a worker takes was in the port once.                      *)
LEMMA TakePacket ==
  ASSUME TypeOK, PortExact, NEW io, NEW x, Dispatch(io, x)
  PROVE  /\ <<io, x>> \in Returned
         /\ Returned' = Returned \ {<<io, x>>} => PortExact'
<1> DEFINE c == <<io, x>>
<1>1. port \in Seq(Completions) /\ port # <<>> /\ c = Head(port) /\ port' = Tail(port)
  BY DEF TypeOK, Dispatch
<1> HIDE DEF c
<1>2. /\ Len(port) \in Nat \ {0} /\ Len(port') = Len(port) - 1
      /\ \A i \in 1 .. Len(port') : port'[i] = port[i + 1]
      /\ port[1] = c
  BY <1>1, HeadTailProperties, EmptySeq, LenProperties
<1>3. \A i, j \in 1 .. Len(port') : port'[i] = port'[j] => i = j
  <2>1. SUFFICES ASSUME NEW i \in 1 .. Len(port'), NEW j \in 1 .. Len(port'),
                        port'[i] = port'[j]
                 PROVE  i = j
    OBVIOUS
  <2>2. /\ i + 1 \in 1 .. Len(port) /\ j + 1 \in 1 .. Len(port)
        /\ port[i + 1] = port[j + 1]
    BY <1>2, <2>1
  <2>3. i + 1 = j + 1
    BY <2>2 DEF PortExact
  <2>4. QED
    BY <1>2, <2>3
<1>4. {port'[i] : i \in 1 .. Len(port')} = {port[i] : i \in 1 .. Len(port)} \ {c}
  <2>1. \A i \in 1 .. Len(port') : i + 1 \in 1 .. Len(port) /\ i + 1 # 1
    BY <1>2
  <2>2. \A i \in 1 .. Len(port') : port'[i] # c
    BY <1>2, <2>1 DEF PortExact
  <2>3. \A k \in 1 .. Len(port) : port[k] # c =>
          k - 1 \in 1 .. Len(port') /\ port'[k - 1] = port[k]
    BY <1>2
  <2>4. QED
    BY <1>2, <2>1, <2>2, <2>3
<1>5. c \in Returned
  BY <1>2 DEF PortExact
<1>6. QED
  BY <1>3, <1>4, <1>5 DEF PortExact, c

(* The events that wait for a worker, kind by kind.                        *)
LEMMA WhatReturned ==
  /\ \A e : <<"accept", e>> \in Returned <=> e \in AcceptEvents /\ accept[e] = "port"
  /\ \A s : <<"recv", s>> \in Returned <=> s \in Sessions /\ recv[s] \in {"data", "zero"}
  /\ \A s : <<"send", s>> \in Returned <=> s \in Sessions /\ send[s] = "port"
  /\ \A s : <<"disconnect", s>> \in Returned <=> s \in Sessions /\ disc[s] = "port"
BY DEF Returned

(* A step that leaves the port and the waiting events alone. *)
LEMMA Untouched ==
  ASSUME PortExact, UNCHANGED port,
         \A e \in AcceptEvents : accept'[e] = "port" <=> accept[e] = "port",
         \A s \in Sessions :
           /\ recv'[s] \in {"data", "zero"} <=> recv[s] \in {"data", "zero"}
           /\ send'[s] = "port" <=> send[s] = "port"
           /\ disc'[s] = "port" <=> disc[s] = "port"
  PROVE  PortExact'
<1>1. Returned' = Returned
  BY DEF Returned
<1>2. QED
  BY <1>1 DEF PortExact

(* Disconnect completes nothing, and requests nothing that is completed.   *)
LEMMA DisconnectReturns ==
  ASSUME TypeOK, Shape, NEW s \in Sessions, NEW own, Disconnect(s, own)
  PROVE  \A r \in Sessions : disc'[r] = "port" <=> disc[r] = "port"
<1>1. s \in connected => disc[s] = "idle"
  BY DEF Shape, ClosedOnce, ClosedAt
<1>2. QED
  BY <1>1 DEF Disconnect, FirstCaller, TypeOK

LEMMA PostRecvReturns ==
  ASSUME TypeOK, Shape, NEW s \in Sessions, recv[s] \in {"post", "idle"}, PostRecv(s)
  PROVE  \A r \in Sessions :
           /\ recv'[r] \in {"data", "zero"} <=> recv[r] \in {"data", "zero"}
           /\ disc'[r] = "port" <=> disc[r] = "port"
<1>1. \A r \in Sessions : recv'[r] \in {"data", "zero"} <=> recv[r] \in {"data", "zero"}
  BY DEF PostRecv, TypeOK
<1>2. \A r \in Sessions : disc'[r] = "port" <=> disc[r] = "port"
  BY DisconnectReturns DEF PostRecv
<1>3. QED
  BY <1>1, <1>2

(* The kernel queues the packet of an event that it no longer has. *)
LEMMA KernelQueues ==
  ASSUME TypeOK, PortExact,
         \/ \E e \in AcceptEvents : KernelAccept(e)
         \/ \E s \in Sessions : Kernel(s)
  PROVE  PortExact'
<1> USE DEF Stage, listener, events
<1>1. ASSUME NEW e \in AcceptEvents, KernelAccept(e)
      PROVE  PortExact'
  <2>1. Returned' = Returned \union {<<"accept", e>>}
    BY <1>1 DEF KernelAccept, Returned, TypeOK
  <2>2. <<"accept", e>> \in Completions \ Returned
    BY <1>1, WhatReturned DEF KernelAccept, Completions
  <2>3. QED
    BY <1>1, <2>1, <2>2, QueuePacket DEF KernelAccept
<1>2. ASSUME NEW s \in Sessions, NEW how \in {"data", "zero"}, KernelRecv(s, how)
      PROVE  PortExact'
  <2>1. Returned' = Returned \union {<<"recv", s>>}
    BY <1>2 DEF KernelRecv, Returned, TypeOK
  <2>2. <<"recv", s>> \in Completions \ Returned
    BY <1>2, WhatReturned DEF KernelRecv, Completions, SessionEvents
  <2>3. QED
    BY <1>2, <2>1, <2>2, QueuePacket DEF KernelRecv
<1>3. ASSUME NEW s \in Sessions, KernelSend(s)
      PROVE  PortExact'
  <2>1. Returned' = Returned \union {<<"send", s>>}
    BY <1>3 DEF KernelSend, Returned, TypeOK
  <2>2. <<"send", s>> \in Completions \ Returned
    BY <1>3, WhatReturned DEF KernelSend, Completions, SessionEvents
  <2>3. QED
    BY <1>3, <2>1, <2>2, QueuePacket DEF KernelSend
<1>4. ASSUME NEW s \in Sessions, KernelDisconnect(s)
      PROVE  PortExact'
  <2>1. Returned' = Returned \union {<<"disconnect", s>>}
    BY <1>4 DEF KernelDisconnect, Returned, TypeOK
  <2>2. <<"disconnect", s>> \in Completions \ Returned
    BY <1>4, WhatReturned DEF KernelDisconnect, Completions, SessionEvents
  <2>3. QED
    BY <1>4, <2>1, <2>2, QueuePacket DEF KernelDisconnect
<1>5. QED
  BY <1>1, <1>2, <1>3, <1>4 DEF Kernel

(* The handler of a packet leaves the event idle, or works on it. *)
LEMMA WorkerTakes ==
  ASSUME TypeOK, Shape, PortExact, Dequeue
  PROVE  PortExact'
<1> USE DEF Stage, listener, events
<1>1. ASSUME NEW e \in AcceptEvents, ProcessAccept(e)
      PROVE  PortExact'
  <2>1. Returned' = Returned \ {<<"accept", e>>}
    BY <1>1 DEF ProcessAccept, Returned, TypeOK
  <2>2. QED
    BY <1>1, <2>1, TakePacket DEF ProcessAccept
<1>2. ASSUME NEW s \in Sessions, ProcessRecvZero(s) \/ ProcessRecv(s)
      PROVE  PortExact'
  <2>1. \A r \in Sessions : disc'[r] = "port" <=> disc[r] = "port"
    BY <1>2, DisconnectReturns DEF ProcessRecvZero, ProcessRecv
  <2>2. /\ UNCHANGED <<accept, send>>
        /\ recv' \in {[recv EXCEPT ![s] = to] : to \in {"idle", "register"} \union Packets}
    BY <1>2 DEF ProcessRecvZero, ProcessRecv
  <2>3. Returned' = Returned \ {<<"recv", s>>}
    BY <2>1, <2>2 DEF Returned, TypeOK, Packets
  <2>4. QED
    BY <1>2, <2>3, TakePacket DEF ProcessRecvZero, ProcessRecv
<1>3. ASSUME NEW s \in Sessions, ProcessSend(s)
      PROVE  PortExact'
  <2>1. \A r \in Sessions : disc'[r] = "port" <=> disc[r] = "port"
    BY <1>3, DisconnectReturns DEF ProcessSend
  <2>2. /\ UNCHANGED <<accept, recv>>
        /\ send' \in {[send EXCEPT ![s] = to] : to \in {"idle", "post"}}
    BY <1>3 DEF ProcessSend
  <2>3. Returned' = Returned \ {<<"send", s>>}
    BY <2>1, <2>2 DEF Returned, TypeOK
  <2>4. QED
    BY <1>3, <2>3, TakePacket DEF ProcessSend
<1>4. ASSUME NEW s \in Sessions, ProcessDisconnect(s)
      PROVE  PortExact'
  <2>1. Returned' = Returned \ {<<"disconnect", s>>}
    BY <1>4 DEF ProcessDisconnect, Returned, TypeOK
  <2>2. QED
    BY <1>4, <2>1, TakePacket DEF ProcessDisconnect
<1>5. QED
  BY <1>1, <1>2, <1>3, <1>4 DEF Dequeue

LEMMA PortStep ==
  ASSUME TypeOK, Shape, PortExact, [Next]_vars
  PROVE  PortExact'
<1> USE DEF Stage, listener, service, events, users
<1>1. CASE StartFails \/ StartWorkers \/ UNCHANGED vars
  BY <1>1, Untouched DEF StartFails, StartWorkers, vars
<1>2. ASSUME NEW e \in AcceptEvents, AcceptStep(e)
      PROVE  PortExact'
  <2>1. CASE FirstRecv(e)
    <3>1. UNCHANGED <<port, send>>
          /\ \A f \in AcceptEvents : accept'[f] = "port" <=> accept[f] = "port"
      BY <2>1 DEF FirstRecv, Following, TypeOK
    <3>2. CASE UNCHANGED <<recv, disc>>
      BY <3>1, <3>2, Untouched
    <3>3. CASE PostRecv(acceptSession[e])
      <4>1. acceptSession[e] \in Sessions /\ recv[acceptSession[e]] = "idle"
        BY <2>1 DEF FirstRecv, Shape, Accepting, Held, Fresh, TypeOK
      <4>2. QED
        BY <3>1, <3>3, <4>1, PostRecvReturns, Untouched
    <3>4. QED
      BY <2>1, <3>2, <3>3 DEF FirstRecv
  <2>2. CASE ~FirstRecv(e)
    <3>1. UNCHANGED <<port, events>>
      BY <1>2, <2>2 DEF AcceptStep, StartAccept, CreateFails, RegisterAccept,
         AcceptFails, RefuseClient, ProcessConnect, AddSession
    <3>2. \A f \in AcceptEvents : accept'[f] = "port" <=> accept[f] = "port"
      BY <1>2, <2>2 DEF AcceptStep, StartAccept, CreateFails, RegisterAccept,
         AcceptFails, RefuseClient, AfterRefusal, ProcessConnect, AddSession,
         Following, TypeOK
    <3>3. QED
      BY <3>1, <3>2, Untouched
  <2>3. QED
    BY <2>1, <2>2
<1>3. ASSUME NEW s \in Sessions, WorkerStep(s)
      PROVE  PortExact'
  <2>1. CASE RegisterRecv(s)
    BY <2>1, Untouched DEF RegisterRecv, TypeOK
  <2>2. CASE PostRecvAgain(s)
    BY <2>2, PostRecvReturns, Untouched DEF PostRecvAgain
  <2>3. CASE HandlePacket(s)
    BY <2>3, LifecycleAssumption, Untouched DEF HandlePacket, Handling, TypeOK
  <2>4. CASE RefusePacket(s)
    <3>1. \A r \in Sessions : recv'[r] \in {"data", "zero"} <=> recv[r] \in {"data", "zero"}
      BY <2>4 DEF RefusePacket, Refused, Packets, TypeOK
    <3>2. QED
      BY <2>4, <3>1, DisconnectReturns, Untouched DEF RefusePacket
  <2>5. CASE HandlerFaults(s)
    BY <2>5, Untouched DEF HandlerFaults
  <2>6. CASE PostSend(s)
    BY <2>6, Untouched DEF PostSend, TypeOK
  <2>7. CASE PostSendFails(s)
    <3>1. \A r \in Sessions : disc'[r] = "port" <=> disc[r] = "port"
      BY <2>7, DisconnectReturns DEF PostSendFails
    <3>2. QED
      BY <2>7, <3>1, Untouched DEF PostSendFails, TypeOK
  <2>8. CASE ClearUser(s)
    BY <2>8, Untouched DEF ClearUser, TypeOK
  <2>9. CASE ReleaseSession(s)
    BY <2>9, Untouched DEF ReleaseSession, TypeOK
  <2>10. CASE CopyUser(s)
    BY <2>10, Untouched DEF CopyUser, TypeOK
  <2>11. CASE PostSendGone(s)
    BY <2>11, Untouched DEF PostSendGone, TypeOK
  <2>12. QED
    BY <1>3, <2>1, <2>2, <2>3, <2>4, <2>5, <2>6, <2>7, <2>8, <2>9, <2>10, <2>11
    DEF WorkerStep
<1>4. ASSUME NEW s \in Sessions, Send(s)
      PROVE  PortExact'
  BY <1>4, Untouched DEF Send, TypeOK
<1>5. ASSUME NEW s \in Sessions, Destroy(s)
      PROVE  PortExact'
  <2>1. /\ recv[s] \notin {"data", "zero"} /\ send[s] # "port" /\ disc[s] # "port"
    BY <1>5 DEF Destroy, Referenced, Shape, Pinned, PinnedAt
  <2>2. QED
    BY <1>5, <2>1, Untouched DEF Destroy, TypeOK
<1>6. QED
  BY <1>1, <1>2, <1>3, <1>4, <1>5, KernelQueues, WorkerTakes DEF Next, Step

(* The port has one packet for each operation that ended and was not       *)
(* dispatched, whatever fails and whoever disconnects: no completion is    *)
(* lost, none comes twice, and none outlives the memory of its event.      *)
THEOREM PortIsExact == Spec => []PortExact
<1>1. Init => PortExact
  BY DEF Init, PortExact, Returned
<1>2. Inv /\ PortExact /\ [Next]_vars => PortExact'
  BY PortStep DEF Inv
<1>3. QED
  BY <1>1, <1>2, InvHolds, PTL DEF Spec

-----------------------------------------------------------------------------
(* What may still refer to a session that was released. *)

(* The thread on an accept holds the session of the accept, and others     *)
(* only while it registers the next one.                                   *)
StackAt(e) ==
  /\ accept[e] = "new" => acceptSession[e] = NoSession
  /\ \A s \in stack[e] :
       \/ accept[e] = "register"
       \/ accept[e] \in {"process", "add", "recv"} /\ s = acceptSession[e]
Stacks == \A e \in AcceptEvents : StackAt(e)

LEMMA StacksStep ==
  ASSUME TypeOK, Stacks, [Next]_vars
  PROVE  Stacks'
<1> USE DEF Stage, listener
<1>1. CASE UNCHANGED <<accept, acceptSession, stack>>
  BY <1>1 DEF Stacks, StackAt
<1>2. ASSUME NEW e \in AcceptEvents,
             \A f \in AcceptEvents \ {e} :
               /\ accept'[f] = accept[f] /\ acceptSession'[f] = acceptSession[f]
               /\ stack'[f] = stack[f],
             StackAt(e)'
      PROVE  Stacks'
  BY <1>2 DEF Stacks, StackAt
<1>3. ASSUME NEW e \in AcceptEvents, AcceptStep(e) \/ KernelAccept(e) \/ ProcessAccept(e)
      PROVE  Stacks'
  <2>1. StackAt(e)
    BY DEF Stacks
  <2>2. CASE StartAccept(e) \/ KernelAccept(e)
    BY <1>2, <2>1, <2>2 DEF StartAccept, KernelAccept, StackAt, TypeOK
  <2>3. CASE CreateFails(e)
    BY <1>1, <2>3 DEF CreateFails
  <2>4. CASE RegisterAccept(e)
    BY <1>2, <2>4 DEF RegisterAccept, StackAt, TypeOK
  <2>5. CASE AcceptFails(e)
    BY <1>2, <2>5 DEF AcceptFails, StackAt, TypeOK
  <2>6. CASE RefuseClient(e)
    BY <1>2, <2>6 DEF RefuseClient, AfterRefusal, StackAt, TypeOK
  <2>7. CASE ProcessConnect(e) \/ AddSession(e) \/ FirstRecv(e)
    BY <1>2, <2>1, <2>7
    DEF ProcessConnect, AddSession, FirstRecv, Following, StackAt, TypeOK
  <2>8. CASE ProcessAccept(e)
    BY <1>2, <2>8 DEF ProcessAccept, StackAt, TypeOK
  <2>9. QED
    BY <1>3, <2>2, <2>3, <2>4, <2>5, <2>6, <2>7, <2>8 DEF AcceptStep
<1>4. CASE StartFails \/ StartWorkers \/ UNCHANGED vars
  BY <1>1, <1>4 DEF StartFails, StartWorkers, vars
<1>5. ASSUME NEW s \in Sessions, WorkerStep(s)
      PROVE  UNCHANGED <<accept, acceptSession, stack>>
  BY <1>5 DEF WorkerStep, RegisterRecv, PostRecvAgain, CopyUser, HandlePacket,
     RefusePacket, HandlerFaults, PostSendGone, PostSend, PostSendFails, ClearUser,
     ReleaseSession
<1>6. ASSUME NEW s \in Sessions,
             \/ ProcessRecvZero(s) \/ ProcessRecv(s) \/ ProcessSend(s)
             \/ ProcessDisconnect(s) \/ Kernel(s) \/ Send(s) \/ Destroy(s)
      PROVE  UNCHANGED <<accept, acceptSession, stack>>
  BY <1>6 DEF ProcessRecvZero, ProcessRecv, ProcessSend, ProcessDisconnect,
     Kernel, KernelRecv, KernelSend, KernelDisconnect, Send, Destroy
<1>7. QED
  BY <1>1, <1>3, <1>4, <1>5, <1>6 DEF Next, Step, Dequeue

LEMMA StacksHold == Spec => []Stacks
<1>1. Init => Stacks
  BY DEF Init, Stacks, StackAt
<1>2. Inv /\ Stacks /\ [Next]_vars => Stacks'
  BY StacksStep DEF Inv
<1>3. QED
  BY <1>1, <1>2, InvHolds, PTL DEF Spec

ReleasedIsLetGo ==
  \A s \in Sessions : disc[s] = "done" /\ Referenced(s) =>
    \/ recv[s] \notin {"idle", "abandoned"} \/ send[s] # "idle"
    \/ s \in user
    \/ \E e \in AcceptEvents :
         accept[e] = "register" /\ (acceptSession[e] = s \/ s \in stack[e])

(* Once ReleaseSession has run, a session is kept only by an operation or  *)
(* a thread of its own that has still to end, by its User, or by the       *)
(* accept that is about to be offered the next session.  Nothing else of   *)
(* the server, and no event of its own, is left that would leak it.        *)
THEOREM NothingElseKeepsIt == Spec => []ReleasedIsLetGo
<1>1. Inv /\ Owned /\ Stacks => ReleasedIsLetGo
  <2>1. SUFFICES ASSUME Inv, Owned, Stacks, NEW s \in Sessions,
                        disc[s] = "done", Referenced(s),
                        recv[s] \in {"idle", "abandoned"}, send[s] = "idle",
                        s \notin user
                 PROVE  \E e \in AcceptEvents :
                          accept[e] = "register" /\ (acceptSession[e] = s \/ s \in stack[e])
    BY DEF ReleasedIsLetGo
  <2>2. owner[s] = {}
    BY <2>1 DEF Owned, OwnedAt, Inv, TypeOK, SessionEvents
  <2>3. \A e \in AcceptEvents : accept[e] \in Held => acceptSession[e] # s
    BY <2>1 DEF Inv, Shape, Accepting, Fresh
  <2>4. s \notin sessions
    BY <2>1, <2>3 DEF Inv, Shape, SessionsAccounted, ClosedOnce, ClosedAt, Held
  <2>5. PICK e \in AcceptEvents : acceptSession[e] = s \/ s \in stack[e]
    BY <2>1, <2>2, <2>4 DEF Referenced, RecvRunning, DiscRunning, Packets
  <2>6. CASE s \in stack[e]
    BY <2>1, <2>3, <2>6 DEF Stacks, StackAt, Held
  <2>7. CASE acceptSession[e] = s
    <3>1. accept[e] # "new"
      BY <2>1, <2>7, LifecycleAssumption DEF Stacks, StackAt
    <3>2. QED
      BY <2>1, <2>3, <2>7, <3>1 DEF Inv, TypeOK, AcceptStages, Held
  <2>8. QED
    BY <2>5, <2>6, <2>7
<1>2. QED
  BY <1>1, InvHolds, OwnedAlways, StacksHold, PTL

=============================================================================
