----------------------------- MODULE RecvStream -----------------------------
(***************************************************************************)
(* The receive path of one Session: the overlapped WSARecv, the RecvBuffer *)
(* it fills and the loop of Session::ProcessRecv that cuts the TCP stream  *)
(* back into packets.                                                      *)
(*                                                                         *)
(* The client's stream is a row of frames.  A frame starts with a header   *)
(* that announces its size; the client may announce any 16-bit size.  The  *)
(* model does not store bytes: each cell of the buffer records which byte  *)
(* of the stream it holds, by its offset.  A header read from a cell that  *)
(* does not hold the start of a frame yields an arbitrary size.            *)
(*                                                                         *)
(* A session has at most one recv outstanding and its completion is        *)
(* handled by one thread, so this path is sequential; only Disconnect      *)
(* comes from other threads.                                               *)
(***************************************************************************)
EXTENDS Integers

CONSTANTS
  HeaderSize,   \* sizeof(PacketHeader): 4
  MaxFrame,     \* the largest value of PacketHeader::size: 2^16 - 1
  BufferSize,   \* Session::BUFFER_SIZE: 2^16
  BufferCount,  \* RecvBuffer::BUFFER_COUNT: 10
  StreamLength, \* bound on the bytes a client sends
  RecvErrors    \* how WSARecv may fail at once, as in SessionSend

ASSUME SizeAssumption ==
  /\ HeaderSize \in Nat \ {0}
  /\ MaxFrame \in Nat
  /\ BufferSize \in Nat
  /\ HeaderSize <= BufferSize
  /\ MaxFrame < BufferSize

ASSUME CountAssumption == BufferCount \in Nat /\ BufferCount >= 3

ASSUME StreamAssumption ==
  StreamLength \in Nat /\ RecvErrors \subseteq {"reset", "other"}

VARIABLES
  connected,   \* _connected
  readPos,     \* _recvBuffer._readPos
  writePos,    \* _recvBuffer._writePos
  buffer,      \* _recvBuffer._buffer: the stream offset held by each cell
  processLen,  \* the local of ProcessRecv
  numOfBytes,  \* the size in the completion packet
  pc,          \* where the receive path is
  received,    \* history: bytes of the stream the kernel has delivered
  frameStart,  \* stream offset of the first frame not yet dispatched
  frameSize    \* the size announced in the header of that frame

bufferVars == <<readPos, writePos, buffer>>
stream == <<frameStart, frameSize>>
vars == <<connected, bufferVars, processLen, numOfBytes, pc, received, stream>>

Capacity == BufferSize * BufferCount
Cells == 0 .. Capacity - 1
FrameSizes == 0 .. MaxFrame

Junk == -1

DataSize == writePos - readPos
FreeSize == Capacity - writePos

(* "register": about to run RegisterRecv; "posted": the kernel has the     *)
(* recv; "completed": ProcessRecv is next; "parse": in its loop; "read":   *)
(* after the loop; "clean": OnRead succeeded; "done": the thread left      *)
(* without posting another recv.                                           *)
PCs == {"register", "posted", "completed", "parse", "read", "clean", "done"}

Goto(from, to) == pc = from /\ pc' = to

Init ==
  /\ connected = TRUE
  /\ readPos = 0 /\ writePos = 0
  /\ buffer = [c \in Cells |-> Junk]
  /\ processLen = 0
  /\ numOfBytes = 0
  /\ pc = "register"
  /\ received = 0
  /\ frameStart = 0
  /\ frameSize \in FrameSizes

-----------------------------------------------------------------------------
(* Mutants: plausible slips in the helpers below, each of which must break *)
(* one of the properties.                                                  *)
CopiesPrefix(c) == c
RewindWrite == writePos' = 0 /\ UNCHANGED readPos
MovesWhenFull == DataSize # 0 /\ FreeSize = 0
MovesAlways == DataSize # 0
SkipHeader(size) == processLen + HeaderSize
WaitsForMore(dataSize, size) == dataSize <= size

-----------------------------------------------------------------------------
(* Helpers. *)

(* What the loop may find in the size field at ReadPos()[processLen]. *)
Aligned == buffer[readPos + processLen] = frameStart
HeaderAt == IF Aligned THEN {frameSize} ELSE FrameSizes

(* The tests of the loop: the data announced is there, or is not. *)
Complete(size) == DataSize - processLen >= size
TooShort(dataSize, size) == dataSize < size

(* processLen += header.size *)
Consumed(size) == processLen + size

(* The two cases of RecvBuffer::Clean. *)
Rewind == readPos' = 0 /\ writePos' = 0
Moves == DataSize # 0 /\ FreeSize < BufferSize
CopySource(c) == readPos + c

-----------------------------------------------------------------------------
(* RegisterRecv: WSARecv takes the free end of the buffer, or fails. *)
RegisterRecv ==
  /\ connected
  /\ Goto("register", "posted")
  /\ UNCHANGED <<connected, bufferVars, processLen, numOfBytes, received, stream>>

RegisterRecvGone ==
  /\ ~connected
  /\ Goto("register", "done")
  /\ UNCHANGED <<connected, bufferVars, processLen, numOfBytes, received, stream>>

(* HandleError disconnects for "reset" and only logs any other error. *)
RegisterRecvFails(e) ==
  /\ connected
  /\ Goto("register", "done")
  /\ connected' = (e # "reset")
  /\ UNCHANGED <<bufferVars, processLen, numOfBytes, received, stream>>

(* The kernel stores the next n bytes of the stream and completes. *)
Arrive(n) ==
  /\ received + n <= StreamLength
  /\ Goto("posted", "completed")
  /\ buffer' = [c \in Cells |-> IF c \in writePos .. writePos + n - 1
                                THEN received + (c - writePos) ELSE buffer[c]]
  /\ received' = received + n
  /\ numOfBytes' = n
  /\ UNCHANGED <<connected, readPos, writePos, processLen, stream>>

(* The peer closed, the recv was aborted, or there was no room to fill. *)
ArriveNothing ==
  /\ Goto("posted", "completed")
  /\ numOfBytes' = 0
  /\ UNCHANGED <<connected, bufferVars, processLen, received, stream>>

-----------------------------------------------------------------------------
(* ProcessRecv, "Recv 0". *)
RecvZero ==
  /\ numOfBytes = 0
  /\ Goto("completed", "done")
  /\ connected' = FALSE
  /\ UNCHANGED <<bufferVars, processLen, numOfBytes, received, stream>>

(* RecvBuffer::OnWrite; ProcessRecv disconnects and leaves when it fails. *)
OnWrite ==
  LET fits == numOfBytes <= FreeSize
  IN  /\ numOfBytes # 0
      /\ Goto("completed", IF fits THEN "parse" ELSE "done")
      /\ writePos' = IF fits THEN writePos + numOfBytes ELSE writePos
      /\ connected' = (connected /\ fits)
      /\ processLen' = 0
      /\ UNCHANGED <<readPos, buffer, numOfBytes, received, stream>>

(* The loop ends: no whole header, or less data than the header announces. *)
Incomplete ==
  LET dataSize == DataSize - processLen
  IN  \/ dataSize < HeaderSize
      \/ dataSize >= HeaderSize /\ \E size \in HeaderAt : TooShort(dataSize, size)

LeaveLoop ==
  /\ Incomplete
  /\ Goto("parse", "read")
  /\ UNCHANGED <<connected, bufferVars, processLen, numOfBytes, received, stream>>

(* HandlePacket returned true: on to the next frame of the stream, whose   *)
(* size the client is free to choose.  The parser of the packet body       *)
(* refuses a size smaller than the header.                                 *)
Dispatch(size, next) ==
  /\ Complete(size)
  /\ size >= HeaderSize
  /\ pc = "parse"
  /\ processLen' = Consumed(size)
  /\ frameStart' = frameStart + frameSize
  /\ frameSize' = next
  /\ UNCHANGED <<connected, bufferVars, numOfBytes, pc, received>>

(* HandlePacket returned false: unknown id, unparsable body, handler.      *)
(* ProcessRecv disconnects and returns at once.                            *)
Refuse(size) ==
  /\ Complete(size)
  /\ Goto("parse", "done")
  /\ connected' = FALSE
  /\ UNCHANGED <<bufferVars, processLen, numOfBytes, received, stream>>

(* RecvBuffer::OnRead; ProcessRecv disconnects and leaves when it fails. *)
OnRead ==
  LET fits == processLen <= DataSize
  IN  /\ Goto("read", IF fits THEN "clean" ELSE "done")
      /\ readPos' = IF fits THEN readPos + processLen ELSE readPos
      /\ connected' = (connected /\ fits)
      /\ processLen' = 0
      /\ UNCHANGED <<writePos, buffer, numOfBytes, received, stream>>

(* RecvBuffer::Clean: rewind an empty buffer; with less than one BufferSize *)
(* left, copy the unread bytes to the front.                                *)
Clean ==
  /\ Goto("clean", "register")
  /\ \/ /\ DataSize = 0
        /\ Rewind
        /\ UNCHANGED buffer
     \/ /\ Moves
        /\ buffer' = [c \in Cells |-> IF c < DataSize THEN buffer[CopySource(c)]
                                      ELSE buffer[c]]
        /\ readPos' = 0 /\ writePos' = DataSize
     \/ /\ DataSize # 0 /\ ~Moves
        /\ UNCHANGED bufferVars
  /\ UNCHANGED <<connected, processLen, numOfBytes, received, stream>>

(* Session::Disconnect on another thread. *)
Disconnect ==
  /\ connected
  /\ connected' = FALSE
  /\ UNCHANGED <<bufferVars, processLen, numOfBytes, pc, received, stream>>

Receive ==
  \/ RegisterRecv \/ RegisterRecvGone \/ \E e \in RecvErrors : RegisterRecvFails(e)

ParseFrame ==
  /\ DataSize - processLen >= HeaderSize
  /\ \E size \in HeaderAt :
       Refuse(size) \/ \E next \in FrameSizes : Dispatch(size, next)

ProcessRecv ==
  \/ RecvZero \/ OnWrite
  \/ LeaveLoop \/ ParseFrame
  \/ OnRead \/ Clean

Next ==
  \/ Receive \/ ProcessRecv
  \/ (\E n \in 1 .. FreeSize : Arrive(n)) \/ ArriveNothing
  \/ Disconnect

Spec == Init /\ [][Next]_vars

(* A worker that is in the receive path keeps running.  Nothing is assumed *)
(* about the client, the kernel or other threads.                          *)
FairSpec == Spec /\ WF_vars(Receive) /\ WF_vars(ProcessRecv)

-----------------------------------------------------------------------------
(* Properties. *)

TypeOK ==
  /\ connected \in BOOLEAN
  /\ readPos \in Nat /\ writePos \in Nat
  /\ readPos <= writePos /\ writePos <= Capacity
  /\ buffer \in [Cells -> Nat \union {Junk}]
  /\ processLen \in Nat
  /\ numOfBytes \in Nat
  /\ pc \in PCs
  /\ received \in Nat
  /\ frameStart \in Nat
  /\ frameSize \in FrameSizes

(* Whenever a recv is posted there is a whole BufferSize free behind       *)
(* WritePos.  With no room WSARecv would be given a zero length, complete  *)
(* with zero bytes, and ProcessRecv would drop a healthy client.           *)
RoomForNextRecv ==
  pc \in {"register", "posted"} => FreeSize >= BufferSize

(* The unread part of the buffer is exactly the last DataSize bytes of the *)
(* stream: no byte is lost, repeated or overwritten by Clean or by the     *)
(* kernel, wherever the frames and the completions cut the stream.         *)
UnreadIntact ==
  \A i \in 0 .. DataSize - 1 :
    pc # "completed" => buffer[readPos + i] = received - DataSize + i

(* Clean copies with memcpy, so the two areas must not overlap. *)
MoveDisjoint ==
  pc = "clean" /\ Moves => DataSize <= readPos

(* The parser is at the start of a frame of the client whenever it reads a *)
(* header, however many recvs the frame took and wherever it was moved.    *)
HeaderAtFrameStart ==
  pc = "parse" /\ DataSize - processLen >= HeaderSize => Aligned

(* The two overflow branches are only defensive: no stream reaches them. *)
NoOverflow ==
  /\ pc = "completed" => numOfBytes <= FreeSize
  /\ pc = "read" => processLen <= DataSize

(* A frame that has arrived whole is dispatched, or the session ends: it   *)
(* never waits in the buffer for bytes the client has no reason to send.   *)
WholeFrame(start) ==
  /\ frameStart = start
  /\ frameSize >= HeaderSize
  /\ start + frameSize <= received

FrameDispatched ==
  \A start \in 0 .. StreamLength :
    WholeFrame(start) ~> (frameStart # start \/ ~connected)

=============================================================================
