-------------------------- MODULE RecvStreamProofs --------------------------
(***************************************************************************)
(* Proofs about RecvStream for any header, frame and buffer sizes that     *)
(* keep the relations of SizeAssumption, any buffer of three BufferSizes   *)
(* or more and any stream.                                                 *)
(*                                                                         *)
(* The inductive invariant is Inv.  Layout relates cells to the stream:    *)
(* the cells between readPos and the end of what arrived hold consecutive  *)
(* bytes, and the first of them that the loop has not passed is the start  *)
(* of a frame.  Room bounds what can be left over when the loop ends,      *)
(* which is what Clean turns into room for the next recv.                  *)
(***************************************************************************)
EXTENDS RecvStream, TLAPS

(* The first cell behind what has arrived, counted in or not. *)
End == IF pc = "completed" THEN writePos + numOfBytes ELSE writePos

Layout ==
  /\ \A c \in readPos .. End - 1 : buffer[c] = received - (End - c)
  /\ frameStart = received - (End - (readPos + processLen))

Room ==
  /\ pc = "completed" => numOfBytes <= FreeSize
  /\ processLen <= DataSize
  /\ pc \notin {"parse", "read", "done"} => processLen = 0
  /\ pc = "read" => DataSize - processLen < BufferSize
  /\ pc = "clean" => DataSize < BufferSize
  /\ pc \in {"register", "posted"} => FreeSize >= BufferSize

Inv == TypeOK /\ Layout /\ Room

-----------------------------------------------------------------------------
LEMMA CapacityBound == Capacity \in Nat /\ Capacity >= 3 * BufferSize
<1>1. PICK k \in Nat : BufferCount = 3 + k
  <2>1. BufferCount - 3 \in Nat /\ BufferCount = 3 + (BufferCount - 3)
    BY CountAssumption
  <2>2. QED
    BY <2>1
<1>2. BufferSize * k \in Nat
  BY <1>1, SizeAssumption
<1>3. BufferSize * (3 + k) = 3 * BufferSize + BufferSize * k
  BY <1>1, SizeAssumption
<1>4. QED
  BY <1>1, <1>2, <1>3, SizeAssumption DEF Capacity

LEMMA InvInit == Init => Inv
<1>1. SUFFICES ASSUME Init PROVE Inv
  OBVIOUS
<1>2. TypeOK
  BY <1>1, CapacityBound DEF Init, TypeOK, PCs, Junk
<1>3. Layout
  BY <1>1 DEF Init, Layout, End
<1>4. Room
  BY <1>1, CapacityBound, SizeAssumption DEF Init, Room, DataSize, FreeSize
<1>5. QED
  BY <1>2, <1>3, <1>4 DEF Inv

(* Inside the loop a readable header is the header of the next frame. *)
LEMMA Alignment ==
  ASSUME Inv, pc = "parse", DataSize - processLen >= HeaderSize
  PROVE  Aligned
<1>1. readPos + processLen \in readPos .. End - 1
  BY SizeAssumption DEF Inv, TypeOK, DataSize, End
<1>2. QED
  BY <1>1 DEF Inv, Layout, TypeOK, Aligned

LEMMA InvStep ==
  ASSUME Inv, [Next]_vars
  PROVE  Inv'
<1> USE SizeAssumption, CapacityBound
    DEF Inv, TypeOK, Layout, Room, End, DataSize, FreeSize, Goto, PCs,
        bufferVars, stream, FrameSizes, Rewind, Consumed, CopySource
<1>1. CASE RegisterRecv
  BY <1>1 DEF RegisterRecv
<1>2. CASE RegisterRecvGone
  BY <1>2 DEF RegisterRecvGone
<1>3. ASSUME NEW e \in RecvErrors, RegisterRecvFails(e) PROVE Inv'
  BY <1>3 DEF RegisterRecvFails
<1>4. ASSUME NEW n \in 1 .. FreeSize, Arrive(n) PROVE Inv'
  <2>1. TypeOK'
    BY <1>4 DEF Arrive
  <2>2. Room'
    BY <1>4 DEF Arrive
  <2>3. Layout'
    <3>1. End' = writePos + n /\ End = writePos
      BY <1>4 DEF Arrive
    <3>2. ASSUME NEW c \in readPos .. writePos + n - 1
          PROVE  buffer'[c] = received' - (writePos + n - c)
      <4>1. c \in Cells
        BY DEF Cells
      <4>2. CASE c >= writePos
        BY <1>4, <4>1, <4>2 DEF Arrive
      <4>3. CASE c < writePos
        BY <1>4, <4>1, <4>3 DEF Arrive
      <4>4. QED
        BY <4>2, <4>3
    <3>3. QED
      BY <1>4, <3>1, <3>2 DEF Arrive
  <2>4. QED
    BY <2>1, <2>2, <2>3
<1>5. CASE ArriveNothing
  BY <1>5 DEF ArriveNothing
<1>6. CASE RecvZero
  <2>1. writePos' = writePos /\ writePos + 0 = writePos
    BY <1>6 DEF RecvZero
  <2>2. \A c \in readPos .. writePos - 1 : buffer[c] = received - (writePos - c)
    BY <1>6, <2>1 DEF RecvZero
  <2>3. TypeOK' /\ Room'
    BY <1>6 DEF RecvZero
  <2>4. Layout'
    BY <1>6, <2>2 DEF RecvZero
  <2>5. QED
    BY <2>3, <2>4
<1>7. CASE OnWrite
  BY <1>7 DEF OnWrite
<1>8. CASE LeaveLoop
  BY <1>8 DEF LeaveLoop, Incomplete, HeaderAt, TooShort
<1>9. CASE ParseFrame
  <2>1. PICK size \in HeaderAt :
          \/ Refuse(size)
          \/ \E next \in FrameSizes : Dispatch(size, next)
    BY <1>9 DEF ParseFrame
  <2>2. size = frameSize
    BY <1>9, Alignment DEF ParseFrame, HeaderAt, Refuse, Dispatch
  <2>3. CASE Refuse(size)
    BY <2>3 DEF Refuse
  <2>4. ASSUME NEW next \in FrameSizes, Dispatch(size, next) PROVE Inv'
    BY <2>2, <2>4 DEF Dispatch, Complete
  <2>5. QED
    BY <2>1, <2>3, <2>4
<1>10. CASE OnRead
  BY <1>10 DEF OnRead
<1>11. CASE Clean
  <2>1. CASE DataSize = 0
    BY <1>11, <2>1 DEF Clean, Moves
  <2>2. CASE Moves
    <3>1. TypeOK'
      BY <1>11, <2>2 DEF Clean, Moves, Cells
    <3>2. Room'
      BY <1>11, <2>2 DEF Clean, Moves
    <3>3. Layout'
      <4>1. ASSUME NEW c \in 0 .. DataSize - 1
            PROVE  buffer'[c] = received - (DataSize - c)
        <5>1. c \in Cells /\ c < DataSize
          BY DEF Cells
        <5>2. buffer'[c] = buffer[readPos + c]
          BY <1>11, <2>2, <5>1 DEF Clean, Moves
        <5>3. readPos + c \in readPos .. writePos - 1
          OBVIOUS
        <5>4. QED
          BY <1>11, <5>2, <5>3 DEF Clean
      <4>2. QED
        BY <1>11, <2>2, <4>1 DEF Clean, Moves
    <3>4. QED
      BY <3>1, <3>2, <3>3
  <2>3. CASE DataSize # 0 /\ ~Moves
    BY <1>11, <2>3 DEF Clean, Moves
  <2>4. QED
    BY <2>1, <2>2, <2>3
<1>12. CASE Disconnect
  BY <1>12 DEF Disconnect
<1>13. CASE UNCHANGED vars
  BY <1>13 DEF vars
<1>14. QED
  BY <1>1, <1>2, <1>3, <1>4, <1>5, <1>6, <1>7, <1>8, <1>9, <1>10, <1>11,
     <1>12, <1>13 DEF Next, Receive, ProcessRecv

LEMMA Invariance == Spec => []Inv
  BY InvInit, InvStep, PTL DEF Spec

-----------------------------------------------------------------------------
(* Type correctness of the receive path, cursors within bounds included. *)
THEOREM TypeCorrect == Spec => []TypeOK
<1>1. Inv => TypeOK
  BY DEF Inv
<1>2. QED
  BY <1>1, Invariance, PTL

(* Every recv has a whole BufferSize of room, whatever the client sends. *)
THEOREM AlwaysRoom == Spec => []RoomForNextRecv
<1>1. Inv => RoomForNextRecv
  BY DEF Inv, Room, RoomForNextRecv
<1>2. QED
  BY <1>1, Invariance, PTL

(* The unread bytes are the end of the stream, in order and complete. *)
THEOREM StreamIntact == Spec => []UnreadIntact
<1>1. Inv => UnreadIntact
  <2>1. SUFFICES ASSUME Inv, NEW i \in 0 .. DataSize - 1, pc # "completed"
                 PROVE  buffer[readPos + i] = received - DataSize + i
    BY DEF UnreadIntact
  <2>2. readPos + i \in readPos .. End - 1
    BY <2>1 DEF Inv, TypeOK, DataSize, End
  <2>3. QED
    BY <2>1, <2>2 DEF Inv, TypeOK, Layout, DataSize, End
<1>2. QED
  BY <1>1, Invariance, PTL

(* The memcpy of Clean never overlaps itself. *)
THEOREM CopyIsSafe == Spec => []MoveDisjoint
<1>1. Inv => MoveDisjoint
  BY CapacityBound, SizeAssumption
     DEF Inv, TypeOK, Room, MoveDisjoint, Moves, DataSize, FreeSize
<1>2. QED
  BY <1>1, Invariance, PTL

(* The parser never loses its place in the client's stream. *)
THEOREM FramingIsExact == Spec => []HeaderAtFrameStart
<1>1. Inv => HeaderAtFrameStart
  BY Alignment DEF HeaderAtFrameStart
<1>2. QED
  BY <1>1, Invariance, PTL

(* Neither overflow branch of ProcessRecv is ever taken. *)
THEOREM OverflowUnreachable == Spec => []NoOverflow
<1>1. Inv => NoOverflow
  BY DEF Inv, Room, NoOverflow
<1>2. QED
  BY <1>1, Invariance, PTL

=============================================================================
