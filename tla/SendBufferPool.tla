---------------------------- MODULE SendBufferPool ----------------------------
(***************************************************************************)
(* The memory of outgoing packets: SendBuffer, SendBufferChunk and         *)
(* SendBufferManager (SendBuffer.cpp), and MakeSendBuffer of               *)
(* PacketHandler, which is their only user.                                *)
(*                                                                         *)
(* Every thread cuts SendBuffers from a chunk of its own.  A SendBuffer    *)
(* refers to its chunk and is let go by any thread (the last of the        *)
(* sessions that sent it).  A chunk nobody refers to is not deleted: its   *)
(* deleter puts it into the pool.  Reference counts are atomic; between    *)
(* the last decrement and the Push other threads go on, and here even the  *)
(* one that runs the deleter, which only adds behaviours.                  *)
(***************************************************************************)
EXTENDS Naturals, Sequences, FiniteSets

CONSTANTS
  Threads,     \* worker threads
  Chunks,      \* the SendBufferChunk objects that can be made (bound)
  Buffers,     \* the SendBuffers that can be alive at once (bound)
  ChunkSize,   \* SEND_BUFFER_CHUNK_SIZE, 0x2000
  HeaderSize,  \* sizeof(PacketHeader), 4
  Word,        \* 2^16: sizes are unsigned short
  BodySizes,   \* what ByteSizeLong may return
  NoChunk,     \* a null shared_ptr to a chunk
  NoBuffer     \* ... to a SendBuffer

ASSUME PoolAssumption ==
  /\ ChunkSize \in Nat
  /\ HeaderSize \in Nat
  /\ Word \in Nat \ {0}
  /\ BodySizes \subseteq Nat
  /\ NoChunk \notin Chunks
  /\ NoBuffer \notin Buffers

Free == [owner |-> NoChunk, from |-> 0, size |-> 0]

VARIABLES
  pc,        \* per thread: where in MakeSendBuffer it is
  body,      \* per thread: ByteSizeLong of the packet
  chunk,     \* per thread: LSendBufferChunk
  popped,    \* per thread: the result of Pop
  buffer,    \* per thread: the SendBuffer it fills
  made,      \* chunks that exist
  open,      \* per chunk: _open
  usedSize,  \* per chunk: _usedSize
  pool,      \* SendBufferManager::_sendBufferChunks
  returning, \* chunks whose deleter runs and has not pushed them yet
  buffers,   \* per SendBuffer: its chunk and place; Free if it is not alive
  crash      \* an ASSERT_CRASH fired

vars == <<pc, body, chunk, popped, buffer, made, open, usedSize, pool,
          returning, buffers, crash>>

PCs == {"idle", "pop", "check", "popMore", "alloc", "write"}

Init ==
  /\ pc = [t \in Threads |-> "idle"]
  /\ body = [t \in Threads |-> 0]
  /\ chunk = [t \in Threads |-> NoChunk]
  /\ popped = [t \in Threads |-> NoChunk]
  /\ buffer = [t \in Threads |-> NoBuffer]
  /\ made = {}
  /\ open = [c \in Chunks |-> FALSE]
  /\ usedSize = [c \in Chunks |-> 0]
  /\ pool = <<>>
  /\ returning = {}
  /\ buffers = [b \in Buffers |-> Free]
  /\ crash = FALSE

-----------------------------------------------------------------------------
(* Mutants: plausible slips in the helpers below. *)
BodyOnly(t) == body[t] % Word                \* no room for the header
SomeRoom(t) == usedSize[chunk[t]] < ChunkSize  \* size of the packet not tested
StillOpen(c) == UNCHANGED open               \* _open = false forgotten
NoneDropped == {}                            \* the deleter pushes nothing
DroppedByThread ==                           \* SendBuffers hold no reference
  {c \in made : /\ \E t \in Threads : chunk[t] = c
                /\ ~\E t \in Threads : chunk'[t] = c}

-----------------------------------------------------------------------------
(* Helpers. *)

Goto(t, from, to) == pc[t] = from /\ pc' = [pc EXCEPT ![t] = to]

(* packetSize of MakeSendBuffer, both sizes cut to 16 bits. *)
PacketSize(t) == ((body[t] % Word) + HeaderSize) % Word

(* FreeSize of the thread's chunk is not less than the packet. *)
Fits(t) == usedSize[chunk[t]] + PacketSize(t) <= ChunkSize

(* _sendBufferChunks after pop_back. *)
WithoutLast == SubSeq(pool, 1, Len(pool) - 1)

CloseChunk(c) == open' = [open EXCEPT ![c] = FALSE]
AddUsed(c, n) == usedSize' = [usedSize EXCEPT ![c] = @ + n]

(* Chunks with a shared_ptr to them: LSendBufferChunk, the result of Pop,  *)
(* or _owner of a SendBuffer.  The deleter of a chunk that loses its last  *)
(* one begins.                                                             *)
Referenced(c) ==
  \/ \E t \in Threads : chunk[t] = c \/ popped[t] = c
  \/ \E b \in Buffers : buffers[b].owner = c
Dropped == {c \in made : Referenced(c) /\ ~Referenced(c)'}

-----------------------------------------------------------------------------
(* MakeSendBuffer is called; SendBufferManager::Open looks for a chunk.    *)
MakeSendBuffer(t, n) ==
  /\ Goto(t, "idle", IF chunk[t] = NoChunk THEN "pop" ELSE "check")
  /\ body' = [body EXCEPT ![t] = n]
  /\ UNCHANGED <<chunk, popped, buffer, made, open, usedSize, pool, returning,
                 buffers, crash>>

(* Pop, under the manager's mutex: the last chunk of the pool, or a new    *)
(* one.                                                                    *)
Pop(t) ==
  /\ pc[t] \in {"pop", "popMore"} /\ popped[t] = NoChunk
  /\ \/ /\ pool # <<>>
        /\ popped' = [popped EXCEPT ![t] = pool[Len(pool)]]
        /\ pool' = WithoutLast
        /\ UNCHANGED made
     \/ /\ pool = <<>>
        /\ \E c \in Chunks \ made :
             /\ popped' = [popped EXCEPT ![t] = c]
             /\ made' = made \union {c}
        /\ UNCHANGED pool
  /\ UNCHANGED <<pc, body, chunk, buffer, open, usedSize, returning, buffers,
                 crash>>

(* LSendBufferChunk = Pop(), which lets the old chunk go, and Reset. *)
SetChunk(t) ==
  /\ popped[t] # NoChunk
  /\ pc' = [pc EXCEPT ![t] = IF @ = "pop" THEN "check" ELSE "alloc"]
  /\ chunk' = [chunk EXCEPT ![t] = popped[t]]
  /\ popped' = [popped EXCEPT ![t] = NoChunk]
  /\ open' = [open EXCEPT ![popped[t]] = FALSE]
  /\ usedSize' = [usedSize EXCEPT ![popped[t]] = 0]
  /\ UNCHANGED <<body, buffer, made, pool, buffers, crash>>
  /\ returning' = returning \union Dropped

(* The test for a chunk that is used up. *)
Check(t) ==
  /\ pc[t] = "check" /\ ~open[chunk[t]]
  /\ pc' = [pc EXCEPT ![t] = IF Fits(t) THEN "alloc" ELSE "popMore"]
  /\ UNCHANGED <<body, chunk, popped, buffer, made, open, usedSize, pool,
                 returning, buffers, crash>>

(* SendBufferChunk::Open and the construction of the SendBuffer. *)
Alloc(t) ==
  /\ Goto(t, "alloc", "write")
  /\ ~open[chunk[t]] /\ Fits(t)
  /\ open' = [open EXCEPT ![chunk[t]] = TRUE]
  /\ \E b \in Buffers :
       /\ buffers[b] = Free
       /\ buffers' = [buffers EXCEPT
                        ![b] = [owner |-> chunk[t], from |-> usedSize[chunk[t]],
                                size |-> PacketSize(t)]]
       /\ buffer' = [buffer EXCEPT ![t] = b]
  /\ UNCHANGED <<body, chunk, popped, made, usedSize, pool, returning, crash>>

(* Header and body are written; Close of the SendBuffer and of its chunk.  *)
Close(t) ==
  LET c == buffers[buffer[t]].owner
  IN  /\ Goto(t, "write", "idle")
      /\ open[c]
      /\ buffer' = [buffer EXCEPT ![t] = NoBuffer]
      /\ CloseChunk(c)
      /\ AddUsed(c, PacketSize(t))
      /\ body' = [body EXCEPT ![t] = 0]
      /\ UNCHANGED <<chunk, popped, made, pool, returning, buffers, crash>>

(* Where the thread is, an ASSERT_CRASH fails: the chunk is open when it   *)
(* should not be or the other way round, or the packet is larger than a    *)
(* chunk.  (With less room than the packet Open returns a null pointer,    *)
(* which MakeSendBuffer follows.)                                          *)
AssertFails(t) ==
  /\ pc[t] \in {"check", "alloc", "write"}
  /\ pc[t] = "check" => open[chunk[t]]
  /\ pc[t] = "alloc" => ~(Fits(t) /\ ~open[chunk[t]])
  /\ pc[t] = "write" => ~open[buffers[buffer[t]].owner]

Die(t) ==
  /\ AssertFails(t)
  /\ crash' = TRUE
  /\ UNCHANGED <<pc, body, chunk, popped, buffer, made, open, usedSize, pool,
                 returning, buffers>>

(* The last shared_ptr to a finished SendBuffer goes. *)
Release(b) ==
  /\ buffers[b] # Free
  /\ \A t \in Threads : buffer[t] # b
  /\ buffers' = [buffers EXCEPT ![b] = Free]
  /\ UNCHANGED <<pc, body, chunk, popped, buffer, made, open, usedSize, pool,
                 crash>>
  /\ returning' = returning \union Dropped

(* PushGlobal, on whichever thread dropped the last reference. *)
Push(c) ==
  /\ c \in returning
  /\ returning' = returning \ {c}
  /\ pool' = Append(pool, c)
  /\ UNCHANGED <<pc, body, chunk, popped, buffer, made, open, usedSize,
                 buffers, crash>>

Make(t) ==
  \/ \E n \in BodySizes : MakeSendBuffer(t, n)
  \/ Pop(t) \/ SetChunk(t) \/ Check(t) \/ Alloc(t) \/ Close(t) \/ Die(t)

Next ==
  /\ ~crash
  /\ \/ \E t \in Threads : Make(t)
     \/ \E b \in Buffers : Release(b)
     \/ \E c \in Chunks : Push(c)

Spec == Init /\ [][Next]_vars

-----------------------------------------------------------------------------
(* Properties. *)

BufferType == [owner : Chunks \union {NoChunk}, from : Nat, size : Nat]

TypeOK ==
  /\ pc \in [Threads -> PCs]
  /\ body \in [Threads -> Nat]
  /\ chunk \in [Threads -> Chunks \union {NoChunk}]
  /\ popped \in [Threads -> Chunks \union {NoChunk}]
  /\ buffer \in [Threads -> Buffers \union {NoBuffer}]
  /\ made \subseteq Chunks
  /\ open \in [Chunks -> BOOLEAN]
  /\ usedSize \in [Chunks -> 0 .. ChunkSize]
  /\ pool \in Seq(Chunks)
  /\ returning \subseteq Chunks
  /\ buffers \in [Buffers -> BufferType]
  /\ crash \in BOOLEAN

Live == {b \in Buffers : buffers[b] # Free}
Disjoint(x, y) == x.from + x.size <= y.from \/ y.from + y.size <= x.from

(* Two SendBuffers never share a byte: what one packet is written to is    *)
(* not part of another that still waits to be sent, whichever threads made *)
(* them and however often their chunk has been through the pool.           *)
LiveDisjoint ==
  \A a, b \in Live :
    a # b /\ buffers[a].owner = buffers[b].owner =>
      Disjoint(buffers[a], buffers[b])

(* A chunk in the pool, or on its way there, is nobody's: no thread cuts   *)
(* from it, no SendBuffer lies in it, and it is in the pool once.          *)
PooledIdle ==
  /\ \A i \in DOMAIN pool, j \in DOMAIN pool : pool[i] = pool[j] => i = j
  /\ \A i \in DOMAIN pool : pool[i] \notin returning /\ ~Referenced(pool[i])
  /\ \A c \in returning : ~Referenced(c)

(* No two threads cut from one chunk: _open and _usedSize have no lock.    *)
ChunkHasOneThread ==
  \A t, u \in Threads :
    t # u => {chunk[t], popped[t]} \intersect {chunk[u], popped[u]}
               \subseteq {NoChunk}

(* No chunk is lost: each one that was made is somewhere.                  *)
NoChunkLost ==
  \A c \in made :
    Referenced(c) \/ c \in returning \/ \E i \in DOMAIN pool : pool[i] = c

(* MakeSendBuffer promises a buffer that holds the serialized packet       *)
(* (PacketHandler.h:159): the SendBuffer being filled has room for the     *)
(* header and for the whole body.  Both sizes are unsigned short, so this  *)
(* is not so for every message.                                            *)
Needed(t) == HeaderSize + body[t]
HoldsPacket ==
  \A t \in Threads : pc[t] = "write" => Needed(t) <= buffers[buffer[t]].size

(* What is so for every message: the SendBuffer ends inside its chunk, and *)
(* has exactly the bytes of the packet unless header and body overflow     *)
(* Word.  So a packet larger than a chunk kills the process instead of     *)
(* being sent in part, and none is short for any other reason, whatever    *)
(* was left of the chunk and whichever chunk the thread went on to.        *)
ShortOnlyByOverflow ==
  \A t \in Threads :
    pc[t] = "write" =>
      LET x == buffers[buffer[t]]
      IN  /\ x.from + x.size <= ChunkSize
          /\ IF Needed(t) < Word THEN x.size = Needed(t)
             ELSE x.size < Needed(t)

(* The process dies only of a packet that no chunk could hold: the asserts *)
(* on _open never fire, and Open never returns the null pointer that       *)
(* MakeSendBuffer does not test for.                                       *)
OnlyOversizeKills ==
  crash => \E t \in Threads : pc[t] = "alloc" /\ PacketSize(t) > ChunkSize

=============================================================================
