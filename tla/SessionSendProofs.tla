-------------------------- MODULE SessionSendProofs --------------------------
(***************************************************************************)
(* Proofs about SessionSend for any set of threads and packets and any way *)
(* WSASend may fail.                                                       *)
(*                                                                         *)
(* The inductive invariant is Inv: the flag _sendRegistered is on whenever *)
(* somebody uses the event (Baton), that somebody is alone                 *)
(* (ExclusiveSendEvent), and the queue and the event hold what the current *)
(* user expects to find there (Contents).                                  *)
(***************************************************************************)
EXTENDS SessionSend, SequenceTheorems, TLAPS

(* Whoever uses the event does so under the flag. *)
Baton == Holders # {} \/ posted > 0 => sendRegistered

(* What the queue and the event contain at each point of the send path. *)
Contents ==
  /\ \A t \in Threads :
       /\ pc[t] \in {"RegisterSend", "drain"} => sendQueue # <<>>
       /\ pc[t] \in {"RegisterSend", "drain", "unregister", "checkQueue"}
            => sendBuffers = <<>>
       /\ pc[t] \in {"WSASend", "sendFailed"} => sendBuffers # <<>>
       /\ pc[t] = "WSASend" => eventOwner
       /\ pc[t] = "drain" => eventOwner
  /\ posted > 0 => eventOwner /\ sendBuffers # <<>>
  /\ Holders = {} /\ posted = 0 => sendBuffers = <<>>

Inv == TypeOK /\ ExclusiveSendEvent /\ Baton /\ Contents

-----------------------------------------------------------------------------
(* Every step keeps the shape of the state, and a thread about to push     *)
(* carries a packet.                                                       *)
LEMMA TypeStep ==
  ASSUME TypeOK, [Next]_vars
  PROVE  TypeOK'
<1> USE EmptySeq DEF TypeOK, PCs, Goto, event, Enqueue, TakeReference,
                     ReleaseBatch, FlagAfterSend
<1>1. ASSUME NEW t \in Threads, NEW p \in Packets, Send(t, p) PROVE TypeOK'
  BY <1>1 DEF Send
<1>2. ASSUME NEW t \in Threads, Push(t) PROVE TypeOK'
  BY <1>2, PacketAssumption DEF Push
<1>3. ASSUME NEW t \in Threads, RegisterSendGone(t) PROVE TypeOK'
  BY <1>3 DEF RegisterSendGone
<1>4. ASSUME NEW t \in Threads, RegisterSend(t) PROVE TypeOK'
  BY <1>4 DEF RegisterSend
<1>5. ASSUME NEW t \in Threads, Drain(t) PROVE TypeOK'
  BY <1>5 DEF Drain
<1>6. ASSUME NEW t \in Threads, PostSend(t) PROVE TypeOK'
  BY <1>6 DEF PostSend
<1>7. ASSUME NEW t \in Threads, NEW e \in SendErrors, FailSend(t, e)
      PROVE  TypeOK'
  BY <1>7 DEF FailSend
<1>8. ASSUME NEW t \in Threads, ReleaseEvent(t) PROVE TypeOK'
  BY <1>8 DEF ReleaseEvent
<1>9. ASSUME NEW t \in Threads, Unregister(t) PROVE TypeOK'
  BY <1>9 DEF Unregister
<1>10. ASSUME NEW t \in Threads, Dequeue(t) PROVE TypeOK'
  BY <1>10 DEF Dequeue
<1>11. ASSUME NEW t \in Threads, ProcessSend(t) PROVE TypeOK'
  BY <1>11 DEF ProcessSend
<1>12. ASSUME NEW t \in Threads, ProcessSendZero(t) PROVE TypeOK'
  BY <1>12 DEF ProcessSendZero
<1>13. ASSUME NEW t \in Threads, CheckQueue(t) PROVE TypeOK'
  BY <1>13 DEF CheckQueue
<1>14. CASE Disconnect
  BY <1>14 DEF Disconnect
<1>15. CASE UNCHANGED vars
  BY <1>15 DEF vars
<1>16. QED
  BY <1>1, <1>2, <1>3, <1>4, <1>5, <1>6, <1>7, <1>8, <1>9, <1>10, <1>11,
     <1>12, <1>13, <1>14, <1>15 DEF Next, Step

LEMMA TypeInit ==
  ASSUME Init
  PROVE  TypeOK
<1>1. <<>> \in Seq(Packets)
  BY EmptySeq
<1>2. \A t \in Threads : pc[t] = "idle" /\ pc[t] # "push"
  BY DEF Init
<1>3. pc \in [Threads -> PCs] /\ arg \in [Threads -> Packets \union {NoPacket}]
  BY DEF Init, PCs
<1>4. QED
  BY <1>1, <1>2, <1>3 DEF Init, TypeOK

(* Type correctness of the send path for any threads and packets. *)
THEOREM TypeCorrect == Spec => []TypeOK
<1>1. Init => TypeOK
  BY TypeInit
<1>2. TypeOK /\ [Next]_vars => TypeOK'
  BY TypeStep
<1>3. QED
  BY <1>1, <1>2, PTL DEF Spec

-----------------------------------------------------------------------------
(* The invariant is inductive: one case per action. *)
LEMMA InvStep ==
  ASSUME Inv, [Next]_vars
  PROVE  Inv'
<1> SUFFICES (ExclusiveSendEvent /\ Baton /\ Contents)'
  BY TypeStep DEF Inv
<1> DEFINE Goal == (ExclusiveSendEvent /\ Baton /\ Contents)'
<1> SUFFICES Goal
  OBVIOUS
<1> USE DEF Inv, TypeOK, ExclusiveSendEvent, Baton, Contents, Holders, Holding,
            PCs, Goto, event, ExchangeWins, Enqueue, TakeReference, ReleaseBatch,
            QueueIsEmpty, FlagAfterSend
<1>1. ASSUME NEW t \in Threads, NEW p \in Packets, Send(t, p) PROVE Goal
  BY <1>1 DEF Send
<1>2. ASSUME NEW t \in Threads, Push(t) PROVE Goal
  <2>1. arg[t] \in Packets
    BY <1>2 DEF Push
  <2>2. sendQueue' # <<>>
    BY <1>2, <2>1, AppendProperties DEF Push
  <2>3. QED
    BY <1>2, <2>2 DEF Push
<1>3. ASSUME NEW t \in Threads, RegisterSendGone(t) PROVE Goal
  BY <1>3 DEF RegisterSendGone
<1>4. ASSUME NEW t \in Threads, RegisterSend(t) PROVE Goal
  BY <1>4 DEF RegisterSend
<1>5. ASSUME NEW t \in Threads, Drain(t) PROVE Goal
  <2>1. sendBuffers' = sendQueue /\ sendQueue # <<>>
    BY <1>5, ConcatEmptySeq DEF Drain
  <2>2. QED
    BY <1>5, <2>1 DEF Drain
<1>6. ASSUME NEW t \in Threads, PostSend(t) PROVE Goal
  BY <1>6 DEF PostSend
<1>7. ASSUME NEW t \in Threads, NEW e \in SendErrors, FailSend(t, e) PROVE Goal
  BY <1>7 DEF FailSend
<1>8. ASSUME NEW t \in Threads, ReleaseEvent(t) PROVE Goal
  BY <1>8 DEF ReleaseEvent
<1>9. ASSUME NEW t \in Threads, Unregister(t) PROVE Goal
  BY <1>9 DEF Unregister
<1>10. ASSUME NEW t \in Threads, Dequeue(t) PROVE Goal
  BY <1>10 DEF Dequeue
<1>11. ASSUME NEW t \in Threads, ProcessSend(t) PROVE Goal
  BY <1>11 DEF ProcessSend
<1>12. ASSUME NEW t \in Threads, ProcessSendZero(t) PROVE Goal
  BY <1>12 DEF ProcessSendZero
<1>13. ASSUME NEW t \in Threads, CheckQueue(t) PROVE Goal
  BY <1>13 DEF CheckQueue
<1>14. CASE Disconnect
  BY <1>14 DEF Disconnect
<1>15. CASE UNCHANGED vars
  BY <1>15 DEF vars
<1>16. QED
  BY <1>1, <1>2, <1>3, <1>4, <1>5, <1>6, <1>7, <1>8, <1>9, <1>10, <1>11,
     <1>12, <1>13, <1>14, <1>15 DEF Next, Step

LEMMA InvInit ==
  ASSUME Init
  PROVE  Inv
<1>1. \A t \in Threads : pc[t] = "idle" /\ pc[t] \notin Holding
  BY DEF Init, Holding
<1>2. Holders = {}
  BY <1>1 DEF Holders
<1>3. posted = 0 /\ sendBuffers = <<>>
  BY DEF Init
<1>4. ExclusiveSendEvent /\ Baton
  BY <1>2, <1>3 DEF ExclusiveSendEvent, Baton
<1>5. Contents
  <2>1. \A t \in Threads : pc[t] = "idle"
    BY <1>1
  <2>2. QED
    BY <2>1, <1>3 DEF Contents
<1>6. QED
  BY <1>4, <1>5, TypeInit DEF Inv

LEMMA Invariance == Spec => []Inv
  BY InvInit, InvStep, PTL DEF Spec

(* No two threads, and no thread and the kernel, ever use the SendEvent of *)
(* a session together, however Sends, failures and completions interleave. *)
THEOREM SendEventIsExclusive == Spec => []ExclusiveSendEvent
<1>1. Inv => ExclusiveSendEvent
  BY DEF Inv
<1>2. QED
  BY <1>1, Invariance, PTL

(* No WSASend is issued with nothing to send. *)
THEOREM NoEmptySend == Spec => []BatchNeverEmpty
<1>1. Inv => BatchNeverEmpty
  BY DEF Inv, Contents, BatchNeverEmpty
<1>2. QED
  BY <1>1, Invariance, PTL

(* The session and the buffers of a send outlive the kernel's use of them. *)
THEOREM KernelHoldsReferences == Spec => []KernelBatchPinned
<1>1. Inv => KernelBatchPinned
  BY DEF Inv, Contents, KernelBatchPinned
<1>2. QED
  BY <1>1, Invariance, PTL

-----------------------------------------------------------------------------
(* A packet is left behind only after an error that does not disconnect.   *)

(* While the session is connected the flag is on as long as there is       *)
(* something to send, and somebody is responsible for turning it off.      *)
Charge ==
  connected =>
    /\ sendQueue # <<>> => sendRegistered
    /\ sendRegistered => posted > 0 \/ \E t \in Threads : pc[t] \in Holding
    /\ \A t \in Threads : pc[t] \notin {"sendFailed", "unregister"}

LEMMA ChargeStep ==
  ASSUME SendErrors \subseteq {"reset"}, Inv, Charge, [Next]_vars
  PROVE  Charge'
<1> USE DEF Inv, TypeOK, Charge, Holding, PCs, Goto, event, ExchangeWins, Enqueue,
            ReleaseBatch, TakeReference, QueueIsEmpty, FlagAfterSend
<1>1. ASSUME NEW t \in Threads, NEW p \in Packets, Send(t, p) PROVE Charge'
  BY <1>1 DEF Send
<1>2. ASSUME NEW t \in Threads, Push(t) PROVE Charge'
  BY <1>2 DEF Push
<1>3. ASSUME NEW t \in Threads, RegisterSendGone(t) PROVE Charge'
  BY <1>3 DEF RegisterSendGone
<1>4. ASSUME NEW t \in Threads, RegisterSend(t) PROVE Charge'
  BY <1>4 DEF RegisterSend
<1>5. ASSUME NEW t \in Threads, Drain(t) PROVE Charge'
  BY <1>5 DEF Drain
<1>6. ASSUME NEW t \in Threads, PostSend(t) PROVE Charge'
  BY <1>6 DEF PostSend, Baton, Holders
<1>7. ASSUME NEW t \in Threads, NEW e \in SendErrors, FailSend(t, e) PROVE Charge'
  BY <1>7 DEF FailSend
<1>8. ASSUME NEW t \in Threads, ReleaseEvent(t) PROVE Charge'
  BY <1>8 DEF ReleaseEvent
<1>9. ASSUME NEW t \in Threads, Unregister(t) PROVE Charge'
  BY <1>9 DEF Unregister
<1>10. ASSUME NEW t \in Threads, Dequeue(t) PROVE Charge'
  BY <1>10 DEF Dequeue
<1>11. ASSUME NEW t \in Threads, ProcessSend(t) PROVE Charge'
  BY <1>11 DEF ProcessSend
<1>12. ASSUME NEW t \in Threads, ProcessSendZero(t) PROVE Charge'
  BY <1>12 DEF ProcessSendZero
<1>13. ASSUME NEW t \in Threads, CheckQueue(t) PROVE Charge'
  BY <1>13 DEF CheckQueue
<1>14. CASE Disconnect
  BY <1>14 DEF Disconnect
<1>15. CASE UNCHANGED vars
  BY <1>15 DEF vars
<1>16. QED
  BY <1>1, <1>2, <1>3, <1>4, <1>5, <1>6, <1>7, <1>8, <1>9, <1>10, <1>11,
     <1>12, <1>13, <1>14, <1>15 DEF Next, Step

(* If every error of WSASend disconnects, as WSAECONNRESET and             *)
(* WSAECONNABORTED do, a queued packet of a connected session always has a *)
(* thread or an outstanding send in charge of it.                          *)
THEOREM NothingIsStranded ==
  ASSUME SendErrors \subseteq {"reset"}
  PROVE  Spec => []NoStrandedPacket
<1>1. Init => Charge
  BY DEF Init, Charge
<1>2. Inv /\ Charge /\ [Next]_vars => Charge'
  BY ChargeStep
<1>3. Charge => NoStrandedPacket
  BY DEF Charge, NoStrandedPacket, Holders
<1>4. QED
  BY <1>1, <1>2, <1>3, Invariance, PTL DEF Spec

-----------------------------------------------------------------------------
(* SessionSend implements PacketChannel. *)

(* Cutting a non-empty front off a sequence gives the front and the rest. *)
LEMMA FrontAndRest ==
  ASSUME NEW S, NEW s \in Seq(S), NEW q \in Seq(S), s # <<>>
  PROVE  /\ Len(s) \in 1..Len(s \o q)
         /\ SubSeq(s \o q, 1, Len(s)) = s
         /\ SubSeq(s \o q, Len(s) + 1, Len(s \o q)) = q
<1>1. Len(s) \in Nat \ {0} /\ Len(q) \in Nat
  BY EmptySeq, LenProperties
<1>2. Len(s \o q) = Len(s) + Len(q)
  BY ConcatProperties
<1>3. Len(s) \in 1..Len(s \o q)
  BY <1>1, <1>2
<1>4. SubSeq(s \o q, 1, Len(s)) = s
  <2>1. SubSeq(s \o q, 1, Len(s)) = SubSeq(s, 1, Len(s))
    BY <1>1, SubSeqOfConcat1
  <2>2. QED
    BY <2>1, SubSeqFull
<1>5. SubSeq(s \o q, Len(s) + 1, Len(s \o q)) = q
  <2>1. CASE q = <<>>
    BY <2>1, <1>1, <1>2, SubSeqEmpty, EmptySeq
  <2>2. CASE q # <<>>
    <3>1. Len(q) \in Nat \ {0}
      BY <2>2, EmptySeq
    <3>2. /\ Len(s) + 1 \in Len(s) + 1 .. Len(s) + Len(q)
          /\ Len(s) + Len(q) \in Len(s) + 1 .. Len(s) + Len(q)
      BY <3>1, <1>1
    <3>3. SubSeq(s \o q, Len(s) + 1, Len(s) + Len(q))
            = SubSeq(q, Len(s) + 1 - Len(s), Len(s) + Len(q) - Len(s))
      BY <3>2, SubSeqOfConcat2
    <3>4. Len(s) + 1 - Len(s) = 1 /\ Len(s) + Len(q) - Len(s) = Len(q)
      BY <1>1
    <3>5. QED
      BY <3>3, <3>4, <1>2, SubSeqFull
  <2>3. QED
    BY <2>1, <2>2
<1>6. QED
  BY <1>3, <1>4, <1>5

(* The thread that uses the event decides what is unsent. *)
LEMMA UnsentOfHolder ==
  ASSUME Inv, NEW t \in Holders
  PROVE  Unsent = IF pc[t] \in {"WSASend", "sendFailed"} THEN sendBuffers
                  ELSE <<>>
<1>1. \A u \in Threads : pc[u] \in {"WSASend", "sendFailed"} => u = t
  BY DEF Inv, ExclusiveSendEvent, Holders, Holding, PCs
<1>2. t \in Threads
  BY DEF Holders
<1>3. QED
  BY <1>1, <1>2 DEF Unsent

LEMMA UnsentType ==
  ASSUME TypeOK
  PROVE  Unsent \in Seq(Packets)
  BY EmptySeq DEF TypeOK, Unsent

(* A step whose thread is at neither of the two points, before or after,   *)
(* and that leaves the event or the holders alone does not change Unsent.  *)
LEMMA UnsentKept ==
  ASSUME TypeOK, NEW t \in Threads, NEW a \in PCs, pc' = [pc EXCEPT ![t] = a],
         pc[t] \notin {"WSASend", "sendFailed"},
         a \notin {"WSASend", "sendFailed"},
         sendBuffers' = sendBuffers
  PROVE  Unsent' = Unsent
<1>1. \A u \in Threads : pc'[u] \in {"WSASend", "sendFailed"}
                           <=> pc[u] \in {"WSASend", "sendFailed"}
  BY DEF TypeOK
<1>2. QED
  BY <1>1 DEF Unsent

LEMMA ChannelStep ==
  ASSUME Inv, Inv', [Next]_vars
  PROVE  [Channel!ChanNext]_(Channel!chanVars)
<1> DEFINE Pend == Unsent \o sendQueue
           Same == UNCHANGED <<Pend, wire>>
           Goal == [Channel!ChanNext]_(Channel!chanVars)
<1> USE DEF Enqueue, TakeReference, ReleaseBatch
<1>0. Same => Goal
  BY DEF Channel!chanVars
<1>a. Unsent \in Seq(Packets) /\ sendQueue \in Seq(Packets) /\ TypeOK
  BY UnsentType DEF Inv, TypeOK
<1>1. ASSUME NEW t \in Threads, NEW p \in Packets, Send(t, p) PROVE Goal
  <2>1. Unsent' = Unsent
    BY <1>1, <1>a, UnsentKept DEF Send, Goto, PCs, event
  <2>2. QED
    BY <1>1, <2>1, <1>0 DEF Send
<1>2. ASSUME NEW t \in Threads, Push(t) PROVE Goal
  <2>1. Unsent' = Unsent
    BY <1>2, <1>a, UnsentKept DEF Push, Goto, PCs, event
  <2>2. arg[t] \in Packets
    BY <1>2, <1>a DEF Push, Goto, TypeOK
  <2>3. Unsent \o Append(sendQueue, arg[t]) = Append(Unsent \o sendQueue, arg[t])
    <3>1. Append(sendQueue, arg[t]) = sendQueue \o <<arg[t]>>
      BY <1>a, <2>2, AppendIsConcat
    <3>2. <<arg[t]>> \in Seq(Packets)
      BY <2>2
    <3>3. Unsent \o (sendQueue \o <<arg[t]>>) = (Unsent \o sendQueue) \o <<arg[t]>>
      BY <1>a, <3>2, ConcatAssociative
    <3>4. Unsent \o sendQueue \in Seq(Packets)
      BY <1>a, ConcatProperties
    <3>5. QED
      BY <3>1, <3>3, <3>4, <2>2, AppendIsConcat
  <2>4. Channel!Accept(arg[t])
    BY <1>2, <2>1, <2>3 DEF Push, Channel!Accept
  <2>5. QED
    BY <2>2, <2>4 DEF Channel!ChanNext
<1>3. ASSUME NEW t \in Threads, RegisterSendGone(t) PROVE Goal
  <2>1. Unsent' = Unsent
    BY <1>3, <1>a, UnsentKept DEF RegisterSendGone, Goto, PCs, event
  <2>2. QED
    BY <1>3, <2>1, <1>0 DEF RegisterSendGone
<1>4. ASSUME NEW t \in Threads, RegisterSend(t) PROVE Goal
  <2>1. Unsent' = Unsent
    BY <1>4, <1>a, UnsentKept DEF RegisterSend, Goto, PCs
  <2>2. QED
    BY <1>4, <2>1, <1>0 DEF RegisterSend
<1>5. ASSUME NEW t \in Threads, Drain(t) PROVE Goal
  <2>1. t \in Holders /\ t \in Holders' /\ pc[t] = "drain" /\ pc'[t] = "WSASend"
    BY <1>5, <1>a DEF Drain, Goto, Holders, Holding, PCs, TypeOK
  <2>2. Unsent = <<>>
    BY <2>1, UnsentOfHolder
  <2>3. sendBuffers = <<>>
    BY <2>1, <1>5 DEF Inv, Contents
  <2>4. Unsent' = sendBuffers'
    BY <2>1, Inv' DEF Inv, ExclusiveSendEvent, Unsent, Holders
  <2>5. sendBuffers' = sendQueue /\ sendQueue' = <<>>
    BY <1>5, <2>3, <1>a, ConcatEmptySeq DEF Drain
  <2>6. Unsent' \o sendQueue' = Unsent \o sendQueue
    BY <2>2, <2>4, <2>5, <1>a, ConcatEmptySeq
  <2>7. QED
    BY <1>5, <2>6, <1>0 DEF Drain
<1>6. ASSUME NEW t \in Threads, PostSend(t) PROVE Goal
  <2>1. t \in Holders /\ pc[t] = "WSASend"
    BY <1>6, <1>a DEF PostSend, Goto, Holders, Holding, PCs, TypeOK
  <2>2. Unsent = sendBuffers /\ sendBuffers # <<>>
    BY <2>1, UnsentOfHolder DEF Inv, Contents, Holders
  <2>3. \A u \in Threads : pc'[u] \notin {"WSASend", "sendFailed"}
    BY <1>6, <2>1, <1>a DEF PostSend, Goto, Inv, ExclusiveSendEvent, Holders,
                            Holding, PCs, TypeOK
  <2>4. Unsent' = <<>>
    BY <2>3 DEF Unsent
  <2>5. Unsent' \o sendQueue' = sendQueue
    BY <2>4, <1>6, <1>a, ConcatEmptySeq DEF PostSend
  <2>0. /\ Len(Unsent) \in 1..Len(Pend)
        /\ SubSeq(Pend, 1, Len(Unsent)) = Unsent
        /\ SubSeq(Pend, Len(Unsent) + 1, Len(Pend)) = sendQueue
    BY <2>2, <1>a, FrontAndRest
  <2>6. Channel!Transmit(Len(Unsent))
    BY <1>6, <2>2, <2>5, <2>0
       DEF PostSend, Channel!Transmit, Channel!LeavesPending
  <2>7. Len(Unsent) \in 1..Len(Unsent \o sendQueue)
    BY <2>0
  <2>8. QED
    BY <2>6, <2>7 DEF Channel!ChanNext
<1>7. ASSUME NEW t \in Threads, NEW e \in SendErrors, FailSend(t, e) PROVE Goal
  <2>1. t \in Holders /\ t \in Holders' /\ pc[t] = "WSASend"
        /\ pc'[t] = "sendFailed"
    BY <1>7, <1>a DEF FailSend, Goto, Holders, Holding, PCs, TypeOK
  <2>2. Unsent = sendBuffers
    BY <2>1, UnsentOfHolder
  <2>3. Unsent' = sendBuffers'
    BY <2>1 DEF Unsent, Holders
  <2>4. QED
    BY <1>7, <2>2, <2>3, <1>0 DEF FailSend, event
<1>8. ASSUME NEW t \in Threads, ReleaseEvent(t) PROVE Goal
  <2>1. t \in Holders /\ pc[t] = "sendFailed"
    BY <1>8, <1>a DEF ReleaseEvent, Goto, Holders, Holding, PCs, TypeOK
  <2>2. Unsent = sendBuffers /\ sendBuffers # <<>>
    BY <2>1, UnsentOfHolder DEF Inv, Contents, Holders
  <2>3. Unsent' = <<>>
    BY <1>8 DEF ReleaseEvent, Unsent
  <2>4. Unsent' \o sendQueue' = sendQueue
    BY <2>3, <1>8, <1>a, ConcatEmptySeq DEF ReleaseEvent
  <2>0. /\ Len(Unsent) \in 1..Len(Pend)
        /\ SubSeq(Pend, Len(Unsent) + 1, Len(Pend)) = sendQueue
    BY <2>2, <1>a, FrontAndRest
  <2>5. Channel!Lose(Len(Unsent))
    BY <1>8, <2>4, <2>0
       DEF ReleaseEvent, Channel!Lose, Channel!LeavesPending
  <2>6. Len(Unsent) \in 1..Len(Unsent \o sendQueue)
    BY <2>0
  <2>7. QED
    BY <2>5, <2>6 DEF Channel!ChanNext
<1>9. ASSUME NEW t \in Threads, Unregister(t) PROVE Goal
  <2>1. Unsent' = Unsent
    BY <1>9, <1>a, UnsentKept DEF Unregister, Goto, PCs, event
  <2>2. QED
    BY <1>9, <2>1, <1>0 DEF Unregister
<1>10. ASSUME NEW t \in Threads, Dequeue(t) PROVE Goal
  <2>1. Unsent' = Unsent
    BY <1>10, <1>a, UnsentKept DEF Dequeue, Goto, PCs, event
  <2>2. QED
    BY <1>10, <2>1, <1>0 DEF Dequeue
<1>11. ASSUME NEW t \in Threads, ProcessSend(t) PROVE Goal
  <2>1. t \in Holders /\ pc[t] = "ProcessSend"
    BY <1>11, <1>a DEF ProcessSend, Goto, Holders, Holding, PCs, TypeOK
  <2>2. Unsent = <<>>
    BY <2>1, UnsentOfHolder
  <2>3. Unsent' = <<>>
    BY <1>11 DEF ProcessSend, Unsent
  <2>4. QED
    BY <1>11, <2>2, <2>3, <1>0 DEF ProcessSend
<1>12. ASSUME NEW t \in Threads, ProcessSendZero(t) PROVE Goal
  <2>1. t \in Holders /\ pc[t] = "ProcessSend0"
    BY <1>12, <1>a DEF ProcessSendZero, Goto, Holders, Holding, PCs, TypeOK
  <2>2. Unsent = <<>>
    BY <2>1, UnsentOfHolder
  <2>3. Unsent' = <<>>
    BY <1>12 DEF ProcessSendZero, Unsent
  <2>4. QED
    BY <1>12, <2>2, <2>3, <1>0 DEF ProcessSendZero
<1>13. ASSUME NEW t \in Threads, CheckQueue(t) PROVE Goal
  <2>1. Unsent' = Unsent
    BY <1>13, <1>a, UnsentKept DEF CheckQueue, Goto, PCs, event
  <2>2. QED
    BY <1>13, <2>1, <1>0 DEF CheckQueue
<1>14. CASE Disconnect
  BY <1>14, <1>0 DEF Disconnect, event, Unsent
<1>15. CASE UNCHANGED vars
  BY <1>15, <1>0 DEF vars, Unsent
<1>16. QED
  BY <1>1, <1>2, <1>3, <1>4, <1>5, <1>6, <1>7, <1>8, <1>9, <1>10, <1>11,
     <1>12, <1>13, <1>14, <1>15 DEF Next, Step

(* The send path implements the FIFO channel its callers rely on, for any  *)
(* number of worker threads and packets and whatever errors WSASend gives. *)
THEOREM SendImplementsChannel == Spec => ImplementsChannel
<1>1. Init => Channel!ChanInit
  <2> SUFFICES ASSUME Init PROVE Channel!ChanInit
    OBVIOUS
  <2>1. Unsent = <<>> /\ sendQueue = <<>> /\ wire = <<>>
    BY DEF Init, Unsent
  <2>2. Unsent \o sendQueue = <<>>
    BY <2>1, ConcatEmptySeq, EmptySeq
  <2>3. QED
    BY <2>1, <2>2 DEF Channel!ChanInit
<1>2. Inv /\ Inv' /\ [Next]_vars => [Channel!ChanNext]_(Channel!chanVars)
  BY ChannelStep
<1>3. QED
  BY <1>1, <1>2, Invariance, PTL DEF Spec, ImplementsChannel, Channel!ChanSpec

=============================================================================
