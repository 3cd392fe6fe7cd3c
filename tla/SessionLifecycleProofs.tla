----------------------- MODULE SessionLifecycleProofs -----------------------
(***************************************************************************)
(* Proofs about SessionLifecycle, for any sessions, accepts, workers,      *)
(* handled packets and failing calls.                                      *)
(*                                                                         *)
(* A session is fresh as long as no recv, send or disconnect was requested *)
(* for it and no User refers to it.  Accepting says what the session of an *)
(* accept is like at each stage of the accept: fresh up to its first recv. *)
(* So whatever happens to a session that is not fresh happens after        *)
(* AddSession, and leaves the accepts alone (SessionStep).  InService says *)
(* that a session stays in the Service from there until its release, and   *)
(* SessionsAccounted that it is read or on its way out meanwhile.          *)
(***************************************************************************)
EXTENDS SessionLifecycle, FiniteSetTheorems, TLAPS

Fresh(s) ==
  /\ s \notin user
  /\ recv[s] = "idle" /\ send[s] = "idle" /\ disc[s] = "idle"
  /\ owner[s] = {}

(* There is nothing at an address without a Session. *)
Unborn ==
  \A s \in Sessions \ alive : Fresh(s) /\ s \notin connected /\ s \notin sessions

Held == {"kernel", "port", "process", "add", "recv"}
Accepting ==
  \A e \in AcceptEvents : accept[e] \in Held =>
    LET s == acceptSession[e]
    IN /\ s \in alive /\ Fresh(s)
       /\ s \in connected <=> accept[e] \in {"add", "recv"}
       /\ s \in sessions <=> accept[e] = "recv"

(* The session an accept refers to is alive and no other accept's. *)
Own1 ==
  /\ \A e \in AcceptEvents : acceptSession[e] \in alive \union {NoSession}
  /\ \A e, f \in AcceptEvents :
       acceptSession[e] = acceptSession[f] /\ acceptSession[e] # NoSession => e = f

Adding(s) == \E e \in AcceptEvents : accept[e] = "add" /\ acceptSession[e] = s
ServedAt(s) ==
  s \in connected \/ disc[s] \notin {"idle", "done"} => s \in sessions \/ Adding(s)
InService == \A s \in Sessions : ServedAt(s)

ClosedAt(s) == disc[s] # "idle" => s \notin connected
PinnedAt(s) ==
  /\ recv[s] \in {"kernel", "data", "zero"} => "recv" \in owner[s]
  /\ send[s] \in {"kernel", "port"} => "send" \in owner[s]
  /\ disc[s] \in {"kernel", "port"} => "disconnect" \in owner[s]
Ending == {"kernel", "port", "user", "release", "failed"}
ReadAt(s) ==
  s \in sessions => (s \in connected /\ recv[s] # "idle") \/ disc[s] \in Ending
ClosedOnce == \A s \in Sessions : ClosedAt(s)
Pinned == \A s \in Sessions : PinnedAt(s)

Shape ==
  /\ Unborn /\ Accepting /\ Own1 /\ InService /\ ClosedOnce /\ Pinned
  /\ SessionsAccounted
Inv == TypeOK /\ Shape /\ ServiceExact

-----------------------------------------------------------------------------
(* Types. *)

LEMMA PortAppend ==
  ASSUME port \in Seq(Completions), NEW io, NEW x, <<io, x>> \in Completions,
         Complete(io, x)
  PROVE  port' \in Seq(Completions)
  BY DEF Complete

LEMMA PortTail ==
  ASSUME port \in Seq(Completions), NEW io, NEW x, Dispatch(io, x)
  PROVE  port' \in Seq(Completions)
  BY DEF Dispatch

LEMMA DisconnectTypes ==
  ASSUME TypeOK, NEW s \in Sessions, NEW own \in [Sessions -> SUBSET SessionEvents],
         Disconnect(s, own)
  PROVE  /\ connected' \subseteq Sessions
         /\ disc' \in [Sessions -> DiscStages]
         /\ owner' \in [Sessions -> SUBSET SessionEvents]
  BY DEF TypeOK, Disconnect, DiscStages, SessionEvents

LEMMA OwnTypes ==
  ASSUME TypeOK, NEW s \in Sessions, NEW io \in SessionEvents
  PROVE  /\ Own(s, io) \in [Sessions -> SUBSET SessionEvents]
         /\ Disown(s, io) \in [Sessions -> SUBSET SessionEvents]
  BY DEF TypeOK, Own, Disown

LEMMA PostRecvTypes ==
  ASSUME TypeOK, NEW s \in Sessions, PostRecv(s)
  PROVE  /\ recv' \in [Sessions -> RecvStages]
         /\ connected' \subseteq Sessions
         /\ disc' \in [Sessions -> DiscStages]
         /\ owner' \in [Sessions -> SUBSET SessionEvents]
<1>1. recv' \in [Sessions -> RecvStages]
  BY DEF TypeOK, PostRecv, RecvStages
<1>2. CASE Disconnect(s, owner)
  BY <1>1, <1>2, DisconnectTypes DEF TypeOK
<1>3. CASE ~Disconnect(s, owner)
  BY <1>1, <1>3, OwnTypes DEF TypeOK, PostRecv, SessionEvents
<1> QED BY <1>2, <1>3

LEMMA TypeInit == Init => TypeOK
<1> SUFFICES ASSUME Init PROVE TypeOK
  OBVIOUS
<1>1. port \in Seq(Completions)
  BY DEF Init
<1>2. /\ accept \in [AcceptEvents -> AcceptStages]
      /\ recv \in [Sessions -> RecvStages]
      /\ send \in [Sessions -> SendStages] /\ disc \in [Sessions -> DiscStages]
  BY DEF Init, AcceptStages, RecvStages, SendStages, DiscStages
<1>3. /\ acceptSession \in [AcceptEvents -> Sessions \union {NoSession}]
      /\ stack \in [AcceptEvents -> SUBSET Sessions]
      /\ owner \in [Sessions -> SUBSET SessionEvents]
  BY DEF Init
<1>4. sessionCount \in Int
  BY DEF Init
<1>5. /\ running \in BOOLEAN
      /\ alive \subseteq Sessions /\ connected \subseteq Sessions
      /\ sessions \subseteq Sessions
      /\ stuck \subseteq user /\ user \subseteq Sessions
  BY DEF Init
<1> QED BY <1>1, <1>2, <1>3, <1>4, <1>5 DEF Init, TypeOK

LEMMA TypeStep == TypeOK /\ Accepting /\ [Next]_vars => TypeOK'
<1> SUFFICES ASSUME TypeOK, Accepting, [Next]_vars PROVE TypeOK'
  OBVIOUS
<1>0. \A e \in AcceptEvents : accept[e] \in Held => acceptSession[e] \in Sessions
  BY DEF TypeOK, Accepting
<1> USE DEF Stage, listener, service, events, users
<1>1. CASE StartFails
  BY <1>1 DEF StartFails, TypeOK
<1>2. CASE StartWorkers
  BY <1>2 DEF StartWorkers, TypeOK
<1>3. ASSUME NEW e \in AcceptEvents, AcceptStep(e) PROVE TypeOK'
  <2>1. CASE StartAccept(e)
    BY <2>1 DEF StartAccept, TypeOK, AcceptStages
  <2>2. CASE CreateFails(e)
    BY <2>2 DEF CreateFails, TypeOK
  <2>3. CASE RegisterAccept(e)
    BY <2>3 DEF RegisterAccept, NewSession, TypeOK, AcceptStages
  <2>4. CASE AcceptFails(e)
    BY <2>4 DEF AcceptFails, NewSession, TypeOK
  <2>5. CASE RefuseClient(e)
    BY <2>5 DEF RefuseClient, AfterRefusal, TypeOK, AcceptStages
  <2>6. CASE ProcessConnect(e)
    BY <1>0, <2>6 DEF ProcessConnect, Following, TypeOK, AcceptStages, Held
  <2>7. CASE AddSession(e)
    BY <1>0, <2>7 DEF AddSession, Following, TypeOK, AcceptStages, Held
  <2>8. CASE FirstRecv(e)
    BY <2>8, PostRecvTypes DEF FirstRecv, Following, TypeOK, AcceptStages
  <2> QED BY <1>3, <2>1, <2>2, <2>3, <2>4, <2>5, <2>6, <2>7, <2>8 DEF AcceptStep
<1>4. ASSUME NEW e \in AcceptEvents, KernelAccept(e) PROVE TypeOK'
  <2>1. port' \in Seq(Completions)
    BY <1>4, PortAppend DEF KernelAccept, TypeOK, Completions
  <2> QED BY <1>4, <2>1 DEF KernelAccept, TypeOK, AcceptStages
<1>5. ASSUME NEW e \in AcceptEvents, ProcessAccept(e) PROVE TypeOK'
  <2>1. port' \in Seq(Completions)
    BY <1>5, PortTail DEF ProcessAccept, TypeOK
  <2> QED BY <1>0, <1>5, <2>1 DEF ProcessAccept, TypeOK, AcceptStages, Held
<1>6. ASSUME NEW s \in Sessions, WorkerStep(s) PROVE TypeOK'
  <2>1. CASE RegisterRecv(s)
    BY <2>1 DEF RegisterRecv, TypeOK, RecvStages
  <2>2. CASE PostRecvAgain(s)
    BY <2>2, PostRecvTypes DEF PostRecvAgain, TypeOK
  <2>3. CASE HandlePacket(s)
    BY <2>3 DEF HandlePacket, Handling, TypeOK, RecvStages
  <2>4. CASE RefusePacket(s)
    BY <2>4, DisconnectTypes DEF RefusePacket, TypeOK, RecvStages
  <2>5. CASE HandlerFaults(s)
    BY <2>5 DEF HandlerFaults, TypeOK
  <2>6. CASE PostSend(s)
    BY <2>6, OwnTypes DEF PostSend, TypeOK, SendStages, SessionEvents
  <2>7. CASE PostSendFails(s)
    BY <2>7, DisconnectTypes DEF PostSendFails, TypeOK, SendStages
  <2>8. CASE ClearUser(s)
    BY <2>8 DEF ClearUser, Freed, TypeOK, DiscStages
  <2>9. CASE ReleaseSession(s)
    BY <2>9 DEF ReleaseSession, Erase, TypeOK, DiscStages
  <2>10. CASE CopyUser(s)
    BY <2>10 DEF CopyUser, TypeOK, RecvStages
  <2>11. CASE PostSendGone(s)
    BY <2>11 DEF PostSendGone, TypeOK, SendStages
  <2> QED BY <1>6, <2>1, <2>2, <2>3, <2>4, <2>5, <2>6, <2>7, <2>8, <2>9, <2>10, <2>11
          DEF WorkerStep
<1>7. ASSUME NEW s \in Sessions, ProcessRecvZero(s) PROVE TypeOK'
  <2>1. port' \in Seq(Completions)
    BY <1>7, PortTail DEF ProcessRecvZero, TypeOK
  <2>2. Disown(s, "recv") \in [Sessions -> SUBSET SessionEvents]
    BY OwnTypes DEF SessionEvents
  <2> QED BY <1>7, <2>1, <2>2, DisconnectTypes DEF ProcessRecvZero, TypeOK, RecvStages
<1>8. ASSUME NEW s \in Sessions, ProcessRecv(s) PROVE TypeOK'
  <2>1. port' \in Seq(Completions)
    BY <1>8, PortTail DEF ProcessRecv, TypeOK
  <2> QED BY <1>8, <2>1, OwnTypes DEF ProcessRecv, TypeOK, RecvStages, Packets, SessionEvents
<1>9. ASSUME NEW s \in Sessions, ProcessSend(s) PROVE TypeOK'
  <2>1. port' \in Seq(Completions)
    BY <1>9, PortTail DEF ProcessSend, TypeOK
  <2>2. Disown(s, "send") \in [Sessions -> SUBSET SessionEvents]
    BY OwnTypes DEF SessionEvents
  <2>3. send' \in [Sessions -> SendStages]
    BY <1>9 DEF ProcessSend, TypeOK, SendStages
  <2>4. CASE Disconnect(s, Disown(s, "send"))
    BY <1>9, <2>1, <2>2, <2>3, <2>4, DisconnectTypes DEF ProcessSend, TypeOK
  <2>5. CASE ~Disconnect(s, Disown(s, "send"))
    BY <1>9, <2>1, <2>2, <2>3, <2>5 DEF ProcessSend, TypeOK
  <2> QED BY <2>4, <2>5
<1>10. ASSUME NEW s \in Sessions, ProcessDisconnect(s) PROVE TypeOK'
  <2>1. port' \in Seq(Completions)
    BY <1>10, PortTail DEF ProcessDisconnect, TypeOK
  <2> QED BY <1>10, <2>1, OwnTypes
          DEF ProcessDisconnect, TypeOK, DiscStages, SessionEvents
<1>11. ASSUME NEW s \in Sessions, Kernel(s) PROVE TypeOK'
  <2>1. port' \in Seq(Completions)
    BY <1>11, PortAppend
    DEF Kernel, KernelRecv, KernelSend, KernelDisconnect, TypeOK, Completions,
        SessionEvents
  <2> QED BY <1>11, <2>1
          DEF Kernel, KernelRecv, KernelSend, KernelDisconnect, TypeOK, RecvStages,
              SendStages, DiscStages
<1>12. ASSUME NEW s \in Sessions, Send(s) PROVE TypeOK'
  BY <1>12 DEF Send, TypeOK, SendStages
<1>13. ASSUME NEW s \in Sessions, Destroy(s) PROVE TypeOK'
  BY <1>13 DEF Destroy, TypeOK, RecvStages, SendStages, DiscStages
<1>14. CASE UNCHANGED vars
  BY <1>14 DEF vars, TypeOK
<1> QED
  BY <1>1, <1>2, <1>3, <1>4, <1>5, <1>6, <1>7, <1>8, <1>9, <1>10, <1>11, <1>12,
     <1>13, <1>14
  DEF Next, Step, Dequeue


-----------------------------------------------------------------------------
(* Steps of a session that is not fresh. *)

Frame(s) ==
  /\ \A r \in Sessions \ {s} :
       /\ recv'[r] = recv[r] /\ send'[r] = send[r]
       /\ disc'[r] = disc[r] /\ owner'[r] = owner[r]
       /\ r \in user' <=> r \in user
       /\ r \in connected' <=> r \in connected
       /\ r \in sessions' <=> r \in sessions

(* A session that is not fresh is alive and no accept holds it. *)
LEMMA BusySession ==
  ASSUME TypeOK, Shape, NEW s \in Sessions, ~Fresh(s)
  PROVE  /\ s \in alive
         /\ \A e \in AcceptEvents : accept[e] \in Held => acceptSession[e] # s
         /\ s \in connected \/ disc[s] \notin {"idle", "done"} => s \in sessions
         /\ ReadAt(s)
<1>1. s \in alive
  BY DEF Shape, Unborn
<1>2. \A e \in AcceptEvents : accept[e] \in Held => acceptSession[e] # s
  BY DEF Shape, Accepting
<1>3. ~Adding(s)
  BY <1>2 DEF Adding, Held
<1>4. ReadAt(s)
  BY <1>2 DEF Shape, SessionsAccounted, ReadAt, Ending, Held
<1> QED BY <1>1, <1>2, <1>3, <1>4 DEF Shape, InService, ServedAt

LEMMA SessionStep ==
  ASSUME TypeOK, Shape, NEW s \in Sessions, ~Fresh(s), Frame(s),
         UNCHANGED <<accept, acceptSession, alive>>,
         PinnedAt(s)', ClosedAt(s)', ReadAt(s)', sessions' \subseteq sessions,
         s \in connected' \/ disc'[s] \notin {"idle", "done"} => s \in sessions'
  PROVE  Shape'
<1>1. /\ s \in alive
      /\ \A e \in AcceptEvents : accept[e] \in Held => acceptSession[e] # s
  BY BusySession
<1>2. \A r \in Sessions \ {s} : Fresh(r) => Fresh(r)'
  BY DEF Frame, Fresh
<1>3. Unborn'
  BY <1>1, <1>2 DEF Shape, Unborn, Frame
<1>4. Accepting'
  <2> SUFFICES ASSUME NEW e \in AcceptEvents, accept[e] \in Held
               PROVE  LET r == acceptSession[e]
                      IN /\ r \in alive /\ Fresh(r)'
                         /\ r \in connected' <=> accept[e] \in {"add", "recv"}
                         /\ r \in sessions' <=> accept[e] = "recv"
    BY DEF Accepting, Fresh
  <2>1. acceptSession[e] \in Sessions \ {s}
    BY <1>1 DEF Shape, Accepting, TypeOK
  <2> QED BY <2>1, <1>2 DEF Shape, Accepting, Frame
<1>5. Own1'
  BY DEF Shape, Own1
<1>6. InService'
  <2> SUFFICES ASSUME NEW r \in Sessions PROVE ServedAt(r)'
    BY DEF InService
  <2>1. CASE r = s
    BY <2>1 DEF ServedAt
  <2>2. CASE r # s
    BY <2>2 DEF Shape, InService, ServedAt, Adding, Frame
  <2> QED BY <2>1, <2>2
<1>7. ClosedOnce' /\ Pinned'
  BY DEF Shape, ClosedOnce, Pinned, ClosedAt, PinnedAt, Frame
<1>8. SessionsAccounted'
  <2> SUFFICES ASSUME NEW r \in sessions'
               PROVE  \/ ReadAt(r)'
                      \/ \E e \in AcceptEvents : accept[e] = "recv" /\ acceptSession[e] = r
    BY DEF SessionsAccounted, ReadAt, Ending
  <2>1. CASE r # s
    BY <2>1 DEF Shape, SessionsAccounted, ReadAt, Ending, Frame, TypeOK
  <2> QED BY <2>1
<1> QED BY <1>3, <1>4, <1>5, <1>6, <1>7, <1>8 DEF Shape

(* Disconnect of a busy session, whose recv and send have their owners in  *)
(* own if they need them.                                                  *)
LEMMA DisconnectStep ==
  ASSUME TypeOK, Shape, NEW s \in Sessions, ~Fresh(s),
         NEW own \in [Sessions -> SUBSET SessionEvents],
         \A r \in Sessions \ {s} : own[r] = owner[r],
         "disconnect" \in owner[s] => "disconnect" \in own[s],
         Disconnect(s, own)
  PROVE  /\ own[s] \subseteq owner'[s]
         /\ disc'[s] \in {"kernel", "port"} => "disconnect" \in owner'[s]
         /\ ClosedAt(s)'
         /\ s \in connected' \/ disc'[s] \notin {"idle", "done"} => s \in sessions
         /\ s \in sessions => disc'[s] \in Ending
         /\ \A r \in Sessions \ {s} :
              /\ disc'[r] = disc[r] /\ owner'[r] = owner[r]
              /\ r \in connected' <=> r \in connected
<1>1. /\ s \in connected \/ disc[s] \notin {"idle", "done"} => s \in sessions
      /\ ReadAt(s)
  BY BusySession
<1>2. /\ disc[s] \in {"kernel", "port"} => "disconnect" \in owner[s]
      /\ disc[s] # "idle" => s \notin connected
  BY DEF Shape, Pinned, PinnedAt, ClosedOnce, ClosedAt
<1>3. CASE s \notin connected
  BY <1>1, <1>2, <1>3 DEF Disconnect, FirstCaller, ClosedAt, ReadAt, Ending
<1>4. CASE s \in connected
  BY <1>1, <1>2, <1>4 DEF Disconnect, FirstCaller, ClosedAt, Ending, TypeOK
<1> QED BY <1>3, <1>4

(* What the steps of a busy session keep. *)
LEMMA BusyFacts ==
  ASSUME TypeOK, Shape, NEW s \in Sessions, ~Fresh(s)
  PROVE  /\ PinnedAt(s) /\ ClosedAt(s) /\ ReadAt(s)
         /\ s \in connected \/ disc[s] \notin {"idle", "done"} => s \in sessions
  BY BusySession DEF Shape, Pinned, ClosedOnce

LEMMA WorkerShape ==
  ASSUME TypeOK, Shape, NEW s \in Sessions, WorkerStep(s)
  PROVE  Shape'
<1> USE DEF Stage, listener, service, events, users
<1>0. CASE HandlerFaults(s)
  BY <1>0 DEF HandlerFaults, Shape, Unborn, Accepting, Own1, InService, ServedAt,
     Adding, ClosedOnce, ClosedAt, Pinned, PinnedAt, Fresh, SessionsAccounted
<1>1. CASE RegisterRecv(s)
  <2>1. ~Fresh(s) /\ Frame(s)
    BY <1>1 DEF RegisterRecv, Fresh, Frame, TypeOK
  <2> QED BY <1>1, <2>1, BusyFacts, SessionStep
          DEF RegisterRecv, PinnedAt, ClosedAt, ReadAt, Ending, TypeOK
<1>2. CASE PostRecvAgain(s)
  <2>1. ~Fresh(s)
    BY <1>2 DEF PostRecvAgain, Fresh
  <2>2. CASE Disconnect(s, owner) /\ recv' = [recv EXCEPT ![s] = "idle"]
    <3>1. Frame(s)
      BY <1>2, <2>1, <2>2, DisconnectStep DEF PostRecvAgain, Frame, TypeOK
    <3> QED BY <1>2, <2>1, <2>2, <3>1, BusyFacts, DisconnectStep, SessionStep
            DEF PostRecvAgain, PinnedAt, ReadAt, Ending, TypeOK
  <2>3. CASE ~(Disconnect(s, owner) /\ recv' = [recv EXCEPT ![s] = "idle"])
    <3>1. Frame(s)
      BY <1>2, <2>3 DEF PostRecvAgain, PostRecv, Own, Frame, TypeOK
    <3> QED BY <1>2, <2>1, <2>3, <3>1, BusyFacts, SessionStep
            DEF PostRecvAgain, PostRecv, Own, PinnedAt, ClosedAt, ReadAt, Ending, TypeOK
  <2> QED BY <2>2, <2>3
<1>3. CASE HandlePacket(s)
  <2>1. ~Fresh(s) /\ Frame(s)
    BY <1>3, LifecycleAssumption DEF HandlePacket, Handling, Fresh, Frame, TypeOK
  <2> QED BY <1>3, <2>1, BusyFacts, SessionStep
          DEF HandlePacket, Handling, PinnedAt, ClosedAt, ReadAt, Ending, TypeOK
<1>4. CASE RefusePacket(s)
  <2>1. ~Fresh(s)
    BY <1>4 DEF RefusePacket, Refused, Packets, Fresh
  <2>2. Frame(s)
    BY <1>4, <2>1, DisconnectStep DEF RefusePacket, Frame, TypeOK
  <2> QED BY <1>4, <2>1, <2>2, BusyFacts, DisconnectStep, SessionStep
          DEF RefusePacket, PinnedAt, ReadAt, Ending, TypeOK
<1>5. CASE PostSend(s)
  <2>1. ~Fresh(s) /\ Frame(s)
    BY <1>5 DEF PostSend, Own, Fresh, Frame, TypeOK
  <2> QED BY <1>5, <2>1, BusyFacts, SessionStep
          DEF PostSend, Own, PinnedAt, ClosedAt, ReadAt, Ending, TypeOK
<1>6. CASE PostSendFails(s)
  <2>1. ~Fresh(s)
    BY <1>6 DEF PostSendFails, Fresh
  <2>2. CASE Disconnect(s, owner)
    <3>1. Frame(s)
      BY <1>6, <2>1, <2>2, DisconnectStep DEF PostSendFails, Frame, TypeOK
    <3> QED BY <1>6, <2>1, <2>2, <3>1, BusyFacts, DisconnectStep, SessionStep
            DEF PostSendFails, PinnedAt, ReadAt, Ending, TypeOK
  <2>3. CASE UNCHANGED <<connected, disc, owner>>
    <3>1. Frame(s)
      BY <1>6, <2>3 DEF PostSendFails, Frame, TypeOK
    <3> QED BY <1>6, <2>1, <2>3, <3>1, BusyFacts, SessionStep
            DEF PostSendFails, PinnedAt, ClosedAt, ReadAt, Ending, TypeOK
  <2> QED BY <1>6, <2>2, <2>3 DEF PostSendFails
<1>7. CASE ClearUser(s)
  <2>1. ~Fresh(s) /\ Frame(s)
    BY <1>7 DEF ClearUser, Freed, Fresh, Frame, TypeOK
  <2> QED BY <1>7, <2>1, BusyFacts, SessionStep
          DEF ClearUser, PinnedAt, ClosedAt, ReadAt, Ending, TypeOK
<1>8. CASE ReleaseSession(s)
  <2>1. ~Fresh(s) /\ Frame(s)
    BY <1>8 DEF ReleaseSession, Erase, Fresh, Frame, TypeOK
  <2> QED BY <1>8, <2>1, BusyFacts, SessionStep
          DEF ReleaseSession, Erase, PinnedAt, ClosedAt, ReadAt, Ending, TypeOK
<1>9. CASE CopyUser(s)
  <2>1. ~Fresh(s) /\ Frame(s)
    BY <1>9 DEF CopyUser, Fresh, Frame, TypeOK
  <2> QED BY <1>9, <2>1, BusyFacts, SessionStep
          DEF CopyUser, PinnedAt, ClosedAt, ReadAt, Ending, TypeOK
<1>10. CASE PostSendGone(s)
  <2>1. ~Fresh(s) /\ Frame(s)
    BY <1>10 DEF PostSendGone, Fresh, Frame, TypeOK
  <2> QED BY <1>10, <2>1, BusyFacts, SessionStep
          DEF PostSendGone, PinnedAt, ClosedAt, ReadAt, Ending, TypeOK
<1> QED BY <1>0, <1>1, <1>2, <1>3, <1>4, <1>5, <1>6, <1>7, <1>8, <1>9, <1>10
        DEF WorkerStep

(* Completions, their dispatch, and Send. *)
LEMMA CompletionShape ==
  ASSUME TypeOK, Shape, NEW s \in Sessions,
         \/ ProcessRecvZero(s) \/ ProcessRecv(s) \/ ProcessSend(s)
         \/ ProcessDisconnect(s) \/ Kernel(s) \/ Send(s)
  PROVE  Shape'
<1> USE DEF Stage, listener, service, events, users
<1>0. \A io \in SessionEvents :
        /\ Disown(s, io) \in [Sessions -> SUBSET SessionEvents]
        /\ Disown(s, io)[s] = owner[s] \ {io}
        /\ \A r \in Sessions \ {s} : Disown(s, io)[r] = owner[r]
  BY DEF Disown, TypeOK
<1>1. CASE ProcessRecvZero(s)
  <2>1. ~Fresh(s)
    BY <1>1 DEF ProcessRecvZero, Fresh
  <2>2. Frame(s)
    BY <1>0, <1>1, <2>1, DisconnectStep
    DEF ProcessRecvZero, Frame, TypeOK, SessionEvents
  <2> QED BY <1>0, <1>1, <2>1, <2>2, BusyFacts, DisconnectStep, SessionStep
          DEF ProcessRecvZero, PinnedAt, ReadAt, Ending, TypeOK, SessionEvents
<1>2. CASE ProcessRecv(s)
  <2>1. ~Fresh(s) /\ Frame(s)
    BY <1>0, <1>2 DEF ProcessRecv, Fresh, Frame, TypeOK, SessionEvents
  <2> QED BY <1>0, <1>2, <2>1, BusyFacts, SessionStep
          DEF ProcessRecv, Packets, PinnedAt, ClosedAt, ReadAt, Ending, TypeOK, SessionEvents
<1>3. CASE ProcessSend(s)
  <2>1. ~Fresh(s)
    BY <1>3 DEF ProcessSend, Fresh
  <2>2. CASE Disconnect(s, Disown(s, "send")) /\ send' = [send EXCEPT ![s] = "idle"]
    <3>1. Frame(s)
      BY <1>0, <1>3, <2>1, <2>2, DisconnectStep
      DEF ProcessSend, Frame, TypeOK, SessionEvents
    <3> QED BY <1>0, <1>3, <2>1, <2>2, <3>1, BusyFacts, DisconnectStep, SessionStep
            DEF ProcessSend, PinnedAt, ReadAt, Ending, TypeOK, SessionEvents
  <2>3. CASE owner' = Disown(s, "send") /\ UNCHANGED <<connected, disc>>
    <3>1. Frame(s)
      BY <1>0, <1>3, <2>3 DEF ProcessSend, Frame, TypeOK, SessionEvents
    <3> QED BY <1>0, <1>3, <2>1, <2>3, <3>1, BusyFacts, SessionStep
            DEF ProcessSend, PinnedAt, ClosedAt, ReadAt, Ending, TypeOK, SessionEvents
  <2> QED BY <1>3, <2>2, <2>3 DEF ProcessSend
<1>4. CASE ProcessDisconnect(s)
  <2>1. ~Fresh(s) /\ Frame(s)
    BY <1>0, <1>4 DEF ProcessDisconnect, Fresh, Frame, TypeOK, SessionEvents
  <2> QED BY <1>0, <1>4, <2>1, BusyFacts, SessionStep
          DEF ProcessDisconnect, PinnedAt, ClosedAt, ReadAt, Ending, TypeOK, SessionEvents
<1>5. CASE Kernel(s)
  <2>1. ~Fresh(s) /\ Frame(s)
    BY <1>5 DEF Kernel, KernelRecv, KernelSend, KernelDisconnect, Fresh, Frame, TypeOK
  <2> QED BY <1>5, <2>1, BusyFacts, SessionStep
          DEF Kernel, KernelRecv, KernelSend, KernelDisconnect, PinnedAt, ClosedAt, ReadAt, Ending,
              TypeOK
<1>6. CASE Send(s)
  <2>1. ~Fresh(s) /\ Frame(s)
    BY <1>6, LifecycleAssumption DEF Send, Sender, Handling, Fresh, Frame, TypeOK
  <2> QED BY <1>6, <2>1, BusyFacts, SessionStep DEF Send, PinnedAt, ClosedAt, ReadAt, Ending, TypeOK
<1> QED BY <1>1, <1>2, <1>3, <1>4, <1>5, <1>6

-----------------------------------------------------------------------------
(* Steps of the listener, and ~Session. *)

LEMMA AcceptShape ==
  ASSUME TypeOK, Shape, NEW e \in AcceptEvents,
         AcceptStep(e) \/ KernelAccept(e) \/ ProcessAccept(e)
  PROVE  Shape'
<1> USE DEF Stage, listener, service, events, users
<1>1. CASE StartAccept(e) \/ CreateFails(e) \/ KernelAccept(e) \/ ProcessAccept(e)
             \/ RefuseClient(e)
  <2>1. UNCHANGED <<acceptSession, alive, connected, sessions, events, user>>
    BY <1>1 DEF StartAccept, CreateFails, KernelAccept, ProcessAccept, RefuseClient
  <2>2. \A f \in AcceptEvents :
          /\ accept'[f] \in Held => accept[f] \in Held
          /\ accept'[f] \in {"add", "recv"} \/ accept[f] \in {"add", "recv"}
               => accept'[f] = accept[f]
    BY <1>1 DEF StartAccept, CreateFails, KernelAccept, ProcessAccept, RefuseClient,
       AfterRefusal, Held, TypeOK
  <2>3. Unborn' /\ Own1' /\ ClosedOnce' /\ Pinned'
    BY <2>1 DEF Shape, Unborn, Own1, ClosedOnce, ClosedAt, Pinned, PinnedAt, Fresh
  <2>4. Accepting'
    BY <2>1, <2>2 DEF Shape, Accepting, Fresh
  <2>5. InService'
    BY <2>1, <2>2 DEF Shape, InService, ServedAt, Adding
  <2>6. SessionsAccounted'
    BY <2>1, <2>2 DEF Shape, SessionsAccounted
  <2> QED BY <2>3, <2>4, <2>5, <2>6 DEF Shape
<1>2. ASSUME NEW s \in Sessions \ alive,
             UNCHANGED <<connected, sessions, events, user>>,
             acceptSession' = [acceptSession EXCEPT ![e] = s],
             alive' = alive \union {s},
             accept[e] = "register",
             accept' = [accept EXCEPT ![e] = "kernel"] \/ UNCHANGED accept
      PROVE  Shape'
  <2>1. Fresh(s) /\ s \notin connected /\ s \notin sessions
    BY DEF Shape, Unborn
  <2>2. Own1'
    BY <1>2, LifecycleAssumption DEF Shape, Own1, TypeOK
  <2>3. Accepting'
    <3> SUFFICES ASSUME NEW f \in AcceptEvents, accept'[f] \in Held
                 PROVE  LET r == acceptSession'[f]
                        IN /\ r \in alive' /\ Fresh(r)
                           /\ r \in connected <=> accept'[f] \in {"add", "recv"}
                           /\ r \in sessions <=> accept'[f] = "recv"
      BY <1>2 DEF Accepting, Fresh
    <3>1. CASE f = e
      BY <1>2, <2>1, <3>1 DEF Held, TypeOK
    <3>2. CASE f # e
      BY <1>2, <3>2 DEF Shape, Accepting, TypeOK
    <3> QED BY <3>1, <3>2
  <2>4. InService'
    BY <1>2 DEF Shape, InService, ServedAt, Adding, TypeOK
  <2>5. Unborn' /\ ClosedOnce' /\ Pinned'
    BY <1>2 DEF Shape, Unborn, ClosedOnce, ClosedAt, Pinned, PinnedAt, Fresh
  <2>6. SessionsAccounted'
    BY <1>2 DEF Shape, SessionsAccounted, TypeOK
  <2> QED BY <2>2, <2>3, <2>4, <2>5, <2>6 DEF Shape
<1>3. CASE RegisterAccept(e)
  BY <1>2, <1>3 DEF RegisterAccept, NewSession
<1>4. CASE AcceptFails(e)
  BY <1>2, <1>4 DEF AcceptFails, NewSession
<1>5. PICK s : s = acceptSession[e]
  OBVIOUS
<1>6. accept[e] \in Held =>
        /\ s \in Sessions /\ s \in alive /\ Fresh(s)
        /\ \A f \in AcceptEvents \ {e} : acceptSession[f] # s
        /\ s \in connected <=> accept[e] \in {"add", "recv"}
        /\ s \in sessions <=> accept[e] = "recv"
  BY <1>5, LifecycleAssumption DEF Shape, Accepting, Own1, TypeOK
<1>7. CASE ProcessConnect(e)
  <2>1. /\ accept[e] = "process" /\ accept' = [accept EXCEPT ![e] = "add"]
        /\ connected' = connected \union {s}
        /\ UNCHANGED <<acceptSession, alive, sessions, events, user>>
    BY <1>7, <1>5 DEF ProcessConnect, Following
  <2>2. Accepting'
    BY <1>6, <1>5, <2>1 DEF Shape, Accepting, Fresh, Held, TypeOK
  <2>3. Adding(s)'
    BY <1>5, <2>1 DEF Adding, TypeOK
  <2>4. InService'
    <3> SUFFICES ASSUME NEW r \in Sessions PROVE ServedAt(r)'
      BY DEF InService
    <3>1. CASE r = s
      BY <2>3, <3>1 DEF ServedAt
    <3>2. CASE r # s
      <4>1. Adding(r) => Adding(r)'
        BY <1>5, <2>1 DEF Adding, TypeOK
      <4> QED BY <2>1, <3>2, <4>1 DEF Shape, InService, ServedAt
    <3> QED BY <3>1, <3>2
  <2>5. Unborn' /\ ClosedOnce' /\ Pinned' /\ Own1'
    BY <1>6, <2>1 DEF Shape, Unborn, ClosedOnce, ClosedAt, Pinned, PinnedAt, Fresh,
       Own1, Held
  <2>6. SessionsAccounted'
    BY <2>1 DEF Shape, SessionsAccounted, TypeOK
  <2> QED BY <2>2, <2>4, <2>5, <2>6 DEF Shape
<1>8. CASE AddSession(e)
  <2>1. /\ accept[e] = "add" /\ accept' = [accept EXCEPT ![e] = "recv"]
        /\ sessions' = sessions \union {s}
        /\ UNCHANGED <<acceptSession, alive, connected, events, user>>
    BY <1>8, <1>5 DEF AddSession, Following
  <2>2. Accepting'
    BY <1>6, <1>5, <2>1 DEF Shape, Accepting, Fresh, Held, TypeOK
  <2>3. \A r \in Sessions \ {s} : Adding(r) => Adding(r)'
    BY <1>5, <2>1 DEF Adding, TypeOK
  <2>4. InService'
    BY <2>1, <2>3 DEF Shape, InService, ServedAt
  <2>5. Unborn' /\ ClosedOnce' /\ Pinned' /\ Own1'
    BY <1>6, <2>1 DEF Shape, Unborn, ClosedOnce, ClosedAt, Pinned, PinnedAt, Fresh,
       Own1, Held
  <2>6. SessionsAccounted'
    BY <1>5, <2>1 DEF Shape, SessionsAccounted, TypeOK
  <2> QED BY <2>2, <2>4, <2>5, <2>6 DEF Shape
<1>9. CASE FirstRecv(e)
  <2>1. /\ accept[e] = "recv" /\ accept' = [accept EXCEPT ![e] = "register"]
        /\ s \in Sessions /\ s \in connected /\ s \in sessions /\ s \in alive
        /\ Fresh(s) /\ \A f \in AcceptEvents \ {e} : acceptSession[f] # s
        /\ PostRecv(s)
        /\ UNCHANGED <<acceptSession, alive, sessions, send, user>>
    BY <1>6, <1>9, <1>5 DEF FirstRecv, Following, Held
  <2>2. /\ \A r \in Sessions \ {s} :
            /\ recv'[r] = recv[r] /\ disc'[r] = disc[r] /\ owner'[r] = owner[r]
            /\ r \in connected' <=> r \in connected
        /\ PinnedAt(s)' /\ ClosedAt(s)'
    <3>1. CASE recv' = [recv EXCEPT ![s] = "idle"] /\ Disconnect(s, owner)
      BY <2>1, <3>1 DEF Disconnect, FirstCaller, Fresh, PinnedAt, ClosedAt, TypeOK
    <3>2. CASE UNCHANGED <<connected, disc>>
      BY <2>1, <3>2 DEF PostRecv, Own, Disconnect, FirstCaller, Fresh, PinnedAt,
         ClosedAt, TypeOK
    <3> QED BY <2>1, <3>1, <3>2 DEF PostRecv
  <2>3. Accepting'
    <3> SUFFICES ASSUME NEW f \in AcceptEvents, accept'[f] \in Held
                 PROVE  LET r == acceptSession[f]
                        IN /\ r \in alive /\ Fresh(r)'
                           /\ r \in connected' <=> accept'[f] \in {"add", "recv"}
                           /\ r \in sessions <=> accept'[f] = "recv"
      BY <2>1 DEF Accepting, Fresh
    <3>1. /\ f # e /\ accept'[f] = accept[f]
          /\ acceptSession[f] \in Sessions \ {s}
      BY <2>1 DEF Held, TypeOK, Shape, Accepting
    <3> QED BY <2>1, <2>2, <3>1 DEF Shape, Accepting, Fresh
  <2>4. InService'
    BY <2>1, <2>2 DEF Shape, InService, ServedAt, Adding, TypeOK
  <2>5. Unborn' /\ Own1'
    BY <2>1, <2>2 DEF Shape, Unborn, Fresh, Own1
  <2>6. ClosedOnce' /\ Pinned'
    <3> SUFFICES ASSUME NEW r \in Sessions PROVE ClosedAt(r)' /\ PinnedAt(r)'
      BY DEF ClosedOnce, Pinned
    <3>1. CASE r = s
      BY <2>2, <3>1
    <3>2. CASE r # s
      BY <2>1, <2>2, <3>2 DEF Shape, ClosedOnce, ClosedAt, Pinned, PinnedAt
    <3> QED BY <3>1, <3>2
  <2>7. SessionsAccounted'
    <3> SUFFICES ASSUME NEW r \in sessions
                 PROVE  \/ r \in connected' /\ recv'[r] # "idle"
                        \/ \E f \in AcceptEvents :
                             accept'[f] = "recv" /\ acceptSession[f] = r
                        \/ disc'[r] \in {"kernel", "port", "user", "release", "failed"}
      BY <2>1 DEF SessionsAccounted
    <3>1. CASE r = s
      BY <2>1, <3>1 DEF PostRecv, Disconnect, FirstCaller, TypeOK
    <3>2. CASE r # s
      BY <1>5, <2>1, <2>2, <3>2 DEF Shape, SessionsAccounted, TypeOK
    <3> QED BY <3>1, <3>2
  <2> QED BY <2>3, <2>4, <2>5, <2>6, <2>7 DEF Shape
<1> QED BY <1>1, <1>3, <1>4, <1>7, <1>8, <1>9 DEF AcceptStep

LEMMA DestroyShape ==
  ASSUME TypeOK, Shape, NEW s \in Sessions, Destroy(s)
  PROVE  Shape'
<1> USE DEF service, users
<1>1. /\ \A e \in AcceptEvents : acceptSession[e] # s
      /\ s \notin sessions /\ owner[s] = {} /\ s \notin user
  BY DEF Destroy, Referenced
<1>2. \A r \in Sessions : Fresh(r) => Fresh(r)'
  BY DEF Destroy, Fresh, TypeOK
<1>3. Fresh(s)'
  BY <1>1 DEF Destroy, Fresh, TypeOK
<1>4. Unborn'
  BY <1>1, <1>2, <1>3 DEF Destroy, Shape, Unborn, service
<1>5. Accepting'
  <2> SUFFICES ASSUME NEW e \in AcceptEvents, accept[e] \in Held,
                      NEW r, r = acceptSession[e]
               PROVE  /\ r \in alive \ {s} /\ Fresh(r)'
                      /\ r \in connected \ {s} <=> accept[e] \in {"add", "recv"}
                      /\ r \in sessions <=> accept[e] = "recv"
    BY DEF Destroy, Accepting, Fresh
  <2> QED BY <1>1, <1>2 DEF Shape, Accepting, TypeOK
<1>6. Own1'
  BY <1>1 DEF Destroy, Shape, Own1
<1>7. InService'
  BY <1>1 DEF Destroy, Shape, InService, ServedAt, Adding, service, TypeOK
<1>8. ClosedOnce' /\ Pinned'
  BY <1>1 DEF Destroy, Shape, ClosedOnce, ClosedAt, Pinned, PinnedAt, TypeOK
<1>9. SessionsAccounted'
  BY <1>1 DEF Destroy, Shape, SessionsAccounted, TypeOK
<1> QED BY <1>4, <1>5, <1>6, <1>7, <1>8, <1>9 DEF Shape

LEMMA ShapeStep == TypeOK /\ Shape /\ [Next]_vars => Shape'
<1> SUFFICES ASSUME TypeOK, Shape, [Next]_vars PROVE Shape'
  OBVIOUS
<1>1. CASE StartFails \/ StartWorkers \/ UNCHANGED vars
  <2>1. UNCHANGED <<accept, acceptSession, alive, connected, sessions, events, user>>
    BY <1>1 DEF StartFails, StartWorkers, vars, listener, service, users
  <2> QED BY <2>1 DEF Shape, Unborn, Accepting, Own1, InService, ServedAt, Adding,
          ClosedOnce, ClosedAt, Pinned, PinnedAt, Fresh, SessionsAccounted, events
<1> QED
  BY <1>1, AcceptShape, WorkerShape, CompletionShape, DestroyShape
  DEF Next, Step, Dequeue

LEMMA ShapeInit == Init => Shape
  BY LifecycleAssumption
  DEF Init, Shape, Unborn, Accepting, Own1, InService, ServedAt, Adding, ClosedOnce,
      ClosedAt, Pinned, PinnedAt, Fresh, Held, SessionsAccounted

-----------------------------------------------------------------------------
(* The count of the Service. *)

LEMMA SessionsFinite == TypeOK => IsFiniteSet(sessions) /\ Cardinality(sessions) \in Nat
  BY LifecycleAssumption, FS_Subset, FS_CardinalityType DEF TypeOK

LEMMA ServiceStep == TypeOK /\ Shape /\ ServiceExact /\ Next => ServiceExact'
<1> SUFFICES ASSUME TypeOK, Shape, ServiceExact, Next PROVE ServiceExact'
  OBVIOUS
<1>0. crash = "no"
  BY DEF Next
<1> USE DEF Stage, service, listener
<1>1. ASSUME NEW e \in AcceptEvents, AddSession(e) PROVE ServiceExact'
  <2>1. acceptSession[e] \notin sessions
    BY <1>1 DEF AddSession, Shape, Accepting, Held
  <2> QED BY <1>0, <1>1, <2>1, SessionsFinite, FS_AddElement
          DEF AddSession, ServiceExact
<1>2. ASSUME NEW s \in Sessions, ReleaseSession(s) PROVE ServiceExact'
  <2>1. s \in sessions
    BY <1>2, BusySession DEF ReleaseSession, Fresh
  <2> QED BY <1>0, <1>2, <2>1, SessionsFinite, FS_RemoveElement
          DEF ReleaseSession, Erase, ServiceExact
<1>3. CASE UNCHANGED service /\ crash' # "assert"
  BY <1>3 DEF ServiceExact
<1>4. ASSUME NEW e \in AcceptEvents, AcceptStep(e) \/ KernelAccept(e) \/ ProcessAccept(e),
             ~AddSession(e)
      PROVE  UNCHANGED service /\ crash' # "assert"
  BY <1>0, <1>4 DEF AcceptStep, StartAccept, CreateFails, RegisterAccept, AcceptFails,
     RefuseClient, ProcessConnect, FirstRecv, KernelAccept, ProcessAccept
<1>5. ASSUME NEW s \in Sessions, WorkerStep(s), ~ReleaseSession(s)
      PROVE  UNCHANGED service /\ crash' # "assert"
  BY <1>0, <1>5 DEF WorkerStep, RegisterRecv, PostRecvAgain, CopyUser, HandlePacket,
     HandlerFaults, RefusePacket, PostSendGone, PostSend, PostSendFails, ClearUser
<1>6. ASSUME NEW s \in Sessions,
             \/ ProcessRecvZero(s) \/ ProcessRecv(s) \/ ProcessSend(s)
             \/ ProcessDisconnect(s) \/ Kernel(s) \/ Send(s) \/ Destroy(s)
      PROVE  UNCHANGED service /\ crash' # "assert"
  BY <1>0, <1>6 DEF ProcessRecvZero, ProcessRecv, ProcessSend, ProcessDisconnect,
     Kernel, KernelRecv, KernelSend, KernelDisconnect, Send, Destroy
<1>7. CASE StartFails \/ StartWorkers
  BY <1>0, <1>3, <1>7 DEF StartFails, StartWorkers
<1> QED BY <1>1, <1>2, <1>3, <1>4, <1>5, <1>6, <1>7 DEF Next, Step, Dequeue

-----------------------------------------------------------------------------
(* The inductive invariant and the theorems. *)

LEMMA InvInit == Init => Inv
  BY TypeInit, ShapeInit, FS_EmptySet DEF Inv, Init, ServiceExact

LEMMA InvStep == Inv /\ [Next]_vars => Inv'
<1>1. TypeOK /\ Shape /\ [Next]_vars => TypeOK' /\ Shape'
  BY TypeStep, ShapeStep DEF Shape
<1>2. ServiceExact /\ UNCHANGED vars => ServiceExact'
  BY DEF ServiceExact, vars, listener, service
<1> QED BY <1>1, <1>2, ServiceStep DEF Inv

LEMMA InvHolds == Spec => []Inv
  BY InvInit, InvStep, PTL DEF Spec

(* Every variable keeps its type: no operation leaves an event of an      *)
(* accept or of a session in a stage its handlers do not know.             *)
THEOREM TypeCorrect == Spec => []TypeOK
<1>1. Inv => TypeOK
  BY DEF Inv
<1> QED BY <1>1, InvHolds, PTL

(* A session offered to AcceptEx is new, whatever the kernel and the       *)
(* workers did to the sessions accepted before it.                         *)
THEOREM PendingAcceptsAreFresh == Spec => []PendingAcceptIsFresh
<1>1. Inv => PendingAcceptIsFresh
  <2> SUFFICES ASSUME Inv, NEW e \in AcceptEvents, accept[e] \in {"kernel", "port"},
                      NEW s, s = acceptSession[e]
               PROVE  /\ s \notin connected \union sessions \union user
                      /\ recv[s] = "idle" /\ send[s] = "idle" /\ disc[s] = "idle"
                      /\ owner[s] = {}
                      /\ \A f \in AcceptEvents \ {e} : acceptSession[f] # s
    BY DEF PendingAcceptIsFresh
  <2>1. /\ s \in alive /\ Fresh(s)
        /\ s \notin connected /\ s \notin sessions
    BY DEF Inv, Shape, Accepting, Held
  <2>2. \A f \in AcceptEvents \ {e} : acceptSession[f] # s
    BY <2>1, LifecycleAssumption DEF Inv, Shape, Own1, TypeOK
  <2> QED BY <2>1, <2>2 DEF Fresh
<1> QED BY <1>1, InvHolds, PTL

(* AddSession and ReleaseSession keep _sessionCount the size of _sessions, *)
(* and the assertion of ReleaseSession cannot fail.                        *)
THEOREM ServiceCountsExactly == Spec => []ServiceExact
<1>1. Inv => ServiceExact
  BY DEF Inv
<1> QED BY <1>1, InvHolds, PTL

(* A session in the Service is being read or is on its way out of it; the  *)
(* exceptions SessionsAccounted names are the only ones.                   *)
THEOREM SessionsAreAccounted == Spec => []SessionsAccounted
<1>1. Inv => SessionsAccounted
  BY DEF Inv, Shape
<1> QED BY <1>1, InvHolds, PTL

-----------------------------------------------------------------------------
(* The implementation of ConnectionLife. *)

LifeMoves ==
  {<<"none", "waiting">>, <<"waiting", "open">>, <<"open", "closing">>,
   <<"closing", "released">>, <<"waiting", "none">>, <<"released", "none">>}

SameLife(s) ==
  /\ s \in alive' <=> s \in alive
  /\ s \in connected' <=> s \in connected
  /\ disc'[s] = disc[s]

LEMMA OneMoves ==
  ASSUME NEW s \in Sessions, \A r \in Sessions \ {s} : SameLife(r),
         LifeOf(s)' = LifeOf(s) \/ <<LifeOf(s), LifeOf(s)'>> \in LifeMoves
  PROVE  [Life!LifeNext]_lives
<1>1. \A r \in Sessions \ {s} : LifeOf(r)' = LifeOf(r)
  BY DEF SameLife, LifeOf
<1>2. CASE LifeOf(s)' = LifeOf(s)
  BY <1>1, <1>2 DEF lives
<1>3. CASE <<LifeOf(s), LifeOf(s)'>> \in LifeMoves
  <2>1. lives' = [lives EXCEPT ![s] = LifeOf(s)'] /\ lives[s] = LifeOf(s)
    BY <1>1 DEF lives
  <2>2. \/ Life!Create(s) \/ Life!Open(s) \/ Life!Close(s) \/ Life!Release(s)
        \/ Life!Destroy(s)
    BY <1>3, <2>1 DEF LifeMoves, Life!Create, Life!Open, Life!Close, Life!Release,
       Life!Destroy, Life!Move
  <2> QED BY <2>2 DEF Life!LifeNext
<1> QED BY <1>2, <1>3

LEMMA DisconnectMoves ==
  ASSUME TypeOK, NEW s \in alive, NEW own, Disconnect(s, own), UNCHANGED alive
  PROVE  [Life!LifeNext]_lives
<1>1. \A r \in Sessions \ {s} : SameLife(r)
  BY DEF Disconnect, SameLife, TypeOK
<1>2. LifeOf(s)' = LifeOf(s) \/ <<LifeOf(s), LifeOf(s)'>> \in LifeMoves
  BY DEF Disconnect, FirstCaller, LifeOf, LifeMoves, TypeOK
<1> QED BY <1>1, <1>2, OneMoves DEF TypeOK

LEMMA LifeStep ==
  ASSUME Inv, [Next]_vars
  PROVE  [Life!LifeNext]_lives
<1> USE DEF Stage, listener, service, events, users
<1>0. TypeOK /\ Shape
  BY DEF Inv
<1>1. CASE UNCHANGED <<alive, connected, disc>>
  BY <1>1 DEF lives, LifeOf
<1>2. ASSUME NEW e \in AcceptEvents, AcceptStep(e) PROVE [Life!LifeNext]_lives
  <2>1. CASE RegisterAccept(e) \/ AcceptFails(e)
    <3>1. PICK s \in Sessions \ alive :
            alive' = alive \union {s} /\ UNCHANGED <<connected, disc>>
      BY <2>1 DEF RegisterAccept, AcceptFails, NewSession
    <3>2. LifeOf(s) = "none" /\ LifeOf(s)' = "waiting"
      BY <1>0, <3>1 DEF LifeOf, Shape, Unborn, Fresh
    <3> QED BY <3>1, <3>2, OneMoves DEF SameLife, LifeMoves
  <2>2. CASE ProcessConnect(e)
    <3>1. PICK s : s = acceptSession[e]
      OBVIOUS
    <3>2. /\ s \in Sessions /\ s \in alive /\ s \notin connected /\ disc[s] = "idle"
      BY <1>0, <2>2, <3>1 DEF ProcessConnect, Shape, Accepting, Held, Fresh, TypeOK
    <3>3. UNCHANGED <<alive, disc>> /\ connected' = connected \union {s}
      BY <2>2, <3>1 DEF ProcessConnect
    <3> QED BY <3>2, <3>3, OneMoves DEF SameLife, LifeMoves, LifeOf
  <2>3. CASE FirstRecv(e)
    <3>1. PICK s : s = acceptSession[e]
      OBVIOUS
    <3>2. s \in alive /\ UNCHANGED alive
      BY <1>0, <2>3, <3>1 DEF FirstRecv, Shape, Accepting, Held
    <3>3. UNCHANGED <<connected, disc>> \/ Disconnect(s, owner)
      BY <2>3, <3>1 DEF FirstRecv, PostRecv
    <3> QED BY <1>0, <1>1, <3>2, <3>3, DisconnectMoves
  <2>4. CASE ~(RegisterAccept(e) \/ AcceptFails(e) \/ ProcessConnect(e) \/ FirstRecv(e))
    BY <1>1, <1>2, <2>4 DEF AcceptStep, StartAccept, CreateFails, RefuseClient, AddSession
  <2> QED BY <2>1, <2>2, <2>3, <2>4
<1>3. ASSUME NEW s \in Sessions, NEW own, ~Fresh(s), UNCHANGED alive, Disconnect(s, own)
      PROVE  [Life!LifeNext]_lives
  BY <1>0, <1>3, BusySession, DisconnectMoves
<1>4. ASSUME NEW s \in Sessions,
             \/ PostRecvAgain(s) \/ RefusePacket(s) \/ PostSendFails(s)
             \/ ProcessRecvZero(s) \/ ProcessSend(s)
      PROVE  [Life!LifeNext]_lives
  <2>1. ~Fresh(s) /\ UNCHANGED alive
    BY <1>4 DEF PostRecvAgain, RefusePacket, Refused, Packets, PostSendFails,
       ProcessRecvZero, ProcessSend, Fresh
  <2>2. \/ UNCHANGED <<connected, disc>> \/ Disconnect(s, owner)
        \/ Disconnect(s, Disown(s, "recv")) \/ Disconnect(s, Disown(s, "send"))
    BY <1>4 DEF PostRecvAgain, PostRecv, RefusePacket, PostSendFails, ProcessRecvZero,
       ProcessSend
  <2> QED BY <1>1, <1>3, <2>1, <2>2
<1>5. ASSUME NEW s \in Sessions,
             \/ KernelDisconnect(s) \/ ProcessDisconnect(s) \/ ClearUser(s)
             \/ ReleaseSession(s)
      PROVE  [Life!LifeNext]_lives
  <2>1. ~Fresh(s) /\ UNCHANGED <<alive, connected>>
    BY <1>5 DEF KernelDisconnect, ProcessDisconnect, ClearUser, ReleaseSession, Fresh
  <2>2. s \in alive /\ s \notin connected
    BY <1>0, <1>5, <2>1, BusySession
    DEF KernelDisconnect, ProcessDisconnect, ClearUser, ReleaseSession, Shape,
        ClosedOnce, ClosedAt
  <2>3. /\ disc[s] \in {"kernel", "port", "user", "release"}
        /\ disc'[s] \in {"port", "user", "release", "done"}
        /\ \A r \in Sessions \ {s} : disc'[r] = disc[r]
    BY <1>0, <1>5
    DEF KernelDisconnect, ProcessDisconnect, ClearUser, ReleaseSession, TypeOK
  <2> QED BY <2>1, <2>2, <2>3, OneMoves DEF SameLife, LifeMoves, LifeOf
<1>6. ASSUME NEW s \in Sessions, Destroy(s) PROVE [Life!LifeNext]_lives
  <2>1. s \in alive /\ s \notin connected /\ disc[s] \in {"idle", "done"}
    BY <1>0, <1>6 DEF Destroy, Referenced, Shape, InService, ServedAt, Adding
  <2>2. LifeOf(s) \in {"waiting", "released"} /\ LifeOf(s)' = "none"
    BY <1>6, <2>1 DEF Destroy, LifeOf
  <2>3. \A r \in Sessions \ {s} : SameLife(r)
    BY <1>0, <1>6 DEF Destroy, SameLife, TypeOK
  <2> QED BY <2>2, <2>3, OneMoves DEF LifeMoves
<1>7. ASSUME NEW s \in Sessions,
             \/ RegisterRecv(s) \/ CopyUser(s) \/ HandlePacket(s) \/ HandlerFaults(s)
             \/ PostSendGone(s) \/ PostSend(s) \/ ProcessRecv(s) \/ KernelSend(s) \/ Send(s)
             \/ \E how \in {"data", "zero"} : KernelRecv(s, how)
      PROVE  [Life!LifeNext]_lives
  BY <1>1, <1>7 DEF RegisterRecv, CopyUser, HandlePacket, HandlerFaults, PostSendGone,
     PostSend, ProcessRecv, KernelSend, Send, KernelRecv
<1>8. CASE \/ StartFails \/ StartWorkers \/ UNCHANGED vars
           \/ \E e \in AcceptEvents : KernelAccept(e) \/ ProcessAccept(e)
  BY <1>1, <1>8 DEF StartFails, StartWorkers, KernelAccept, ProcessAccept, vars
<1> QED BY <1>2, <1>4, <1>5, <1>6, <1>7, <1>8
        DEF Next, Step, Dequeue, WorkerStep, Kernel

(* The Session objects of the server live as ConnectionLife promises: each *)
(* is opened and closed once, and destroyed only before a client was taken *)
(* for it or after it left the Service.                                    *)
THEOREM LifeIsImplemented == Spec => ImplementsLife
<1>1. Init => Life!LifeInit
  BY DEF Init, Life!LifeInit, lives, LifeOf
<1>2. Inv /\ [Next]_vars => [Life!LifeNext]_lives
  BY LifeStep
<1> QED BY <1>1, <1>2, InvHolds, PTL DEF Spec, ImplementsLife, Life!LifeSpec
=============================================================================
