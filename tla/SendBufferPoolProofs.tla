------------------------ MODULE SendBufferPoolProofs ------------------------
(***************************************************************************)
(* Proofs about SendBufferPool for any threads, chunks, buffers and sizes. *)
(*                                                                         *)
(* A chunk has three kinds of owner: the pool (or the deleter that puts it *)
(* back), one thread, and the SendBuffers cut from it.  The pool excludes  *)
(* the others (PooledIdle), a thread excludes other threads                *)
(* (ChunkHasOneThread), and the SendBuffers of a chunk lie below its       *)
(* _usedSize (Below), except the one its thread is filling, which begins   *)
(* there (Filling).  So what a thread cuts next is disjoint from all that  *)
(* is alive, and a chunk whose _usedSize is reset has no SendBuffer left.  *)
(***************************************************************************)
EXTENDS SendBufferPool, SequenceTheorems, TLAPS

(* What a thread has in hand at each step of MakeSendBuffer. *)
ThreadShape ==
  \A t \in Threads :
    /\ popped[t] # NoChunk => pc[t] \in {"pop", "popMore"}
    /\ chunk[t] = NoChunk => pc[t] \in {"idle", "pop"}
    /\ buffer[t] # NoBuffer <=> pc[t] = "write"
    /\ pc[t] = "alloc" => Fits(t) \/ PacketSize(t) > ChunkSize

(* A thread's chunk is open exactly while the thread fills a SendBuffer. *)
OpenWhileFilling ==
  \A t \in Threads : chunk[t] # NoChunk => (open[chunk[t]] <=> pc[t] = "write")

(* The SendBuffer a thread fills begins where its chunk is used up to. *)
Filling ==
  \A t \in Threads :
    pc[t] = "write" =>
      /\ buffers[buffer[t]] =
           [owner |-> chunk[t], from |-> usedSize[chunk[t]], size |-> PacketSize(t)]
      /\ Fits(t)

(* The others end there or before. *)
Below ==
  \A b \in Live :
    (\A t \in Threads : buffer[t] # b) =>
      buffers[b].from + buffers[b].size <= usedSize[buffers[b].owner]

(* References are to chunks that exist; a chunk just popped holds nothing. *)
References ==
  /\ \A c \in Chunks : Referenced(c) => c \in made
  /\ returning \subseteq made
  /\ \A i \in DOMAIN pool : pool[i] \in made
  /\ \A b \in Live : buffers[b].owner # NoChunk
  /\ \A t \in Threads :
       popped[t] # NoChunk =>
         /\ popped[t] # chunk[t]
         /\ \A b \in Buffers : buffers[b].owner # popped[t]

Inv ==
  /\ TypeOK
  /\ ThreadShape /\ OpenWhileFilling /\ Filling /\ Below /\ References
  /\ PooledIdle /\ ChunkHasOneThread /\ LiveDisjoint /\ NoChunkLost
  /\ OnlyOversizeKills

-----------------------------------------------------------------------------
(* SendBufferManager::Pop takes exactly the last chunk out of the pool. *)
LEMMA PopLast ==
  ASSUME pool \in Seq(Chunks), pool # <<>>
  PROVE  /\ Len(pool) \in Nat \ {0}
         /\ DOMAIN pool = 1 .. Len(pool)
         /\ pool[Len(pool)] \in Chunks
         /\ WithoutLast \in Seq(Chunks)
         /\ DOMAIN WithoutLast = 1 .. Len(pool) - 1
         /\ \A i \in 1 .. Len(pool) - 1 : WithoutLast[i] = pool[i]
<1>1. Len(pool) \in Nat \ {0} /\ DOMAIN pool = 1 .. Len(pool)
  BY EmptySeq, LenProperties
<1>2. pool[Len(pool)] \in Chunks
  BY <1>1, ElementOfSeq
<1>3. \A i \in 1 .. Len(pool) - 1 : pool[i] \in Chunks
  BY <1>1, ElementOfSeq
<1>4. QED
  BY <1>1, <1>2, <1>3, SubSeqProperties DEF WithoutLast

(* PushGlobal adds exactly one chunk, at the end. *)
LEMMA PushLast ==
  ASSUME pool \in Seq(Chunks), NEW c \in Chunks
  PROVE  /\ Append(pool, c) \in Seq(Chunks)
         /\ Len(pool) \in Nat
         /\ DOMAIN pool = 1 .. Len(pool)
         /\ DOMAIN Append(pool, c) = 1 .. Len(pool) + 1
         /\ \A i \in 1 .. Len(pool) : Append(pool, c)[i] = pool[i]
         /\ Append(pool, c)[Len(pool) + 1] = c
  BY AppendProperties, LenProperties

(* What one thread has in hand no other thread has. *)
LEMMA OwnChunk ==
  ASSUME Inv, NEW t \in Threads, NEW u \in Threads, t # u,
         NEW c \in {chunk[t], popped[t]}, c # NoChunk
  PROVE  chunk[u] # c /\ popped[u] # c
<1>1. {chunk[t], popped[t]} \intersect {chunk[u], popped[u]} \subseteq {NoChunk}
  BY DEF Inv, ChunkHasOneThread
<1>2. ASSUME c \in {chunk[u], popped[u]} PROVE FALSE
  <2>1. c \in {chunk[t], popped[t]} \intersect {chunk[u], popped[u]}
    BY <1>2
  <2>2. c \in {NoChunk}
    BY <1>1, <2>1
  <2>3. QED
    BY <2>2
<1>3. QED
  BY <1>2

LEMMA PacketSizeType ==
  ASSUME TypeOK, NEW t \in Threads
  PROVE  PacketSize(t) \in Nat
<1>1. body[t] \in Nat
  BY DEF TypeOK
<1>2. body[t] % Word \in Nat
  BY <1>1, PoolAssumption
<1>3. (body[t] % Word) + HeaderSize \in Nat
  BY <1>2, PoolAssumption
<1>4. QED
  BY <1>3, PoolAssumption DEF PacketSize

LEMMA InvInit == Init => Inv
<1>1. SUFFICES ASSUME Init PROVE Inv
  OBVIOUS
<1>2. TypeOK
  <2>1. pool \in Seq(Chunks)
    BY <1>1, EmptySeq DEF Init
  <2>2. Free \in BufferType
    BY DEF Free, BufferType
  <2>3. usedSize \in [Chunks -> 0 .. ChunkSize]
    BY <1>1, PoolAssumption DEF Init
  <2>4. buffers \in [Buffers -> BufferType]
    BY <1>1, <2>2 DEF Init
  <2>5. QED
    BY <1>1, <2>1, <2>3, <2>4, PoolAssumption DEF Init, TypeOK, PCs
<1>3. Live = {} /\ \A c \in Chunks : ~Referenced(c)
  BY <1>1, PoolAssumption DEF Init, Live, Referenced, Free
<1>4. ThreadShape /\ OpenWhileFilling /\ Filling /\ Below
  BY <1>1, <1>3 DEF Init, ThreadShape, OpenWhileFilling, Filling, Below
<1>5. References /\ PooledIdle /\ ChunkHasOneThread
  BY <1>1, <1>3 DEF Init, References, PooledIdle, ChunkHasOneThread
<1>6. LiveDisjoint /\ NoChunkLost /\ OnlyOversizeKills
  BY <1>1, <1>3 DEF Init, LiveDisjoint, NoChunkLost, OnlyOversizeKills
<1>7. QED
  BY <1>2, <1>4, <1>5, <1>6 DEF Inv

-----------------------------------------------------------------------------
(* One lemma per action. *)
LEMMA MakeSendBufferInv ==
  ASSUME Inv, NEW t \in Threads, NEW n \in BodySizes, MakeSendBuffer(t, n), ~crash
  PROVE  Inv'
<1> USE DEF MakeSendBuffer, Goto
<1>1. TypeOK'
  BY PoolAssumption DEF Inv, TypeOK, PCs
<1>2. /\ \A u \in Threads : u # t => pc'[u] = pc[u] /\ body'[u] = body[u]
      /\ pc'[t] \in {"pop", "check"} /\ pc[t] = "idle"
      /\ pc'[t] = "pop" <=> chunk[t] = NoChunk
  BY DEF Inv, TypeOK
<1>3. \A u \in Threads : u # t => PacketSize(u)' = PacketSize(u) /\ Fits(u)' = Fits(u)
  BY <1>2 DEF PacketSize, Fits
<1>4. ThreadShape' /\ OpenWhileFilling' /\ Filling'
  BY <1>2, <1>3 DEF Inv, ThreadShape, OpenWhileFilling, Filling
<1>5. Below' /\ LiveDisjoint'
  BY DEF Inv, Below, Live, LiveDisjoint, Disjoint
<1>6. References' /\ PooledIdle' /\ ChunkHasOneThread' /\ NoChunkLost'
  BY DEF Inv, References, Live, PooledIdle, ChunkHasOneThread, NoChunkLost, Referenced
<1>7. QED
  BY <1>1, <1>4, <1>5, <1>6 DEF Inv, OnlyOversizeKills

LEMMA PopInv ==
  ASSUME Inv, NEW t \in Threads, Pop(t), ~crash
  PROVE  Inv'
<1>1. PICK c \in Chunks :
        /\ popped' = [popped EXCEPT ![t] = c]
        /\ ~Referenced(c) /\ c \notin returning
        /\ made' = made \union {c}
        /\ pool' \in Seq(Chunks)
        /\ \A i \in DOMAIN pool' : i \in DOMAIN pool /\ pool'[i] = pool[i] /\ pool[i] # c
        /\ \A i \in DOMAIN pool : pool[i] = c \/ i \in DOMAIN pool'
  <2>1. CASE pool # <<>>
    <3> DEFINE c == pool[Len(pool)]
    <3>1. pool \in Seq(Chunks)
      BY DEF Inv, TypeOK
    <3>2. /\ Len(pool) \in Nat \ {0}
          /\ DOMAIN pool = 1 .. Len(pool)
          /\ WithoutLast \in Seq(Chunks)
          /\ DOMAIN WithoutLast = 1 .. Len(pool) - 1
          /\ \A i \in 1 .. Len(pool) - 1 : WithoutLast[i] = pool[i]
      BY <2>1, <3>1, PopLast
    <3>3. popped' = [popped EXCEPT ![t] = c] /\ pool' = WithoutLast /\ made' = made
      BY <2>1 DEF Pop
    <3>4. c \in Chunks /\ Len(pool) \in DOMAIN pool /\ c \in made
      BY <2>1, PopLast DEF Inv, TypeOK, References
    <3> HIDE DEF c
    <3>5. ~Referenced(c) /\ c \notin returning
      <4>1. \A i \in DOMAIN pool : pool[i] \notin returning /\ ~Referenced(pool[i])
        BY DEF Inv, PooledIdle
      <4>2. QED
        BY <3>4, <4>1 DEF c
    <3>6. \A i \in 1 .. Len(pool) - 1 : pool[i] # c
      <4>1. \A i \in DOMAIN pool, j \in DOMAIN pool : pool[i] = pool[j] => i = j
        BY DEF Inv, PooledIdle
      <4>2. \A i \in 1 .. Len(pool) - 1 : i \in DOMAIN pool /\ i # Len(pool)
        <5>1. ASSUME NEW n \in Nat \ {0}, NEW i \in 1 .. n - 1
              PROVE  i \in 1 .. n /\ i # n
          OBVIOUS
        <5>2. QED
          BY <3>2, <5>1
      <4>3. QED
        BY <3>4, <4>1, <4>2 DEF c
    <3>7. QED
      <4>1. made' = made \union {c}
        BY <3>3, <3>4
      <4>2. \A i \in DOMAIN pool' : i \in DOMAIN pool /\ pool'[i] = pool[i] /\ pool[i] # c
        BY <3>3, <3>2, <3>6
      <4>3. \A i \in DOMAIN pool : pool[i] = c \/ i \in DOMAIN pool'
        BY <3>3, <3>2 DEF c
      <4>4. QED
        BY <3>3, <3>4, <3>5, <3>2, <4>1, <4>2, <4>3
  <2>2. CASE pool = <<>>
    <3>1. PICK c \in Chunks \ made : popped' = [popped EXCEPT ![t] = c] /\ made' = made \union {c}
      BY <2>2 DEF Pop
    <3>2. ~Referenced(c) /\ c \notin returning
      BY <3>1 DEF Inv, References
    <3>3. pool' = pool
      BY <2>2 DEF Pop
    <3>4. DOMAIN pool = {}
      BY <2>2
    <3>5. QED
      BY <3>1, <3>2, <3>3, <3>4 DEF Inv, TypeOK
  <2>3. QED
    BY <2>1, <2>2
<1>2. /\ pc[t] \in {"pop", "popMore"} /\ popped[t] = NoChunk
      /\ UNCHANGED <<pc, body, chunk, buffer, open, usedSize, returning, buffers, crash>>
  BY DEF Pop
<1>3. TypeOK'
  BY <1>1, <1>2 DEF Inv, TypeOK
<1>4. /\ popped'[t] = c /\ c # NoChunk
      /\ \A u \in Threads : u # t => popped'[u] = popped[u]
  BY <1>1, PoolAssumption DEF Inv, TypeOK
<1>5. \A u \in Threads : chunk[u] # c /\ popped[u] # c
  BY <1>1 DEF Referenced
<1>6. \A b \in Buffers : buffers[b].owner # c
  BY <1>1 DEF Referenced
<1>7. \A u \in Threads : PacketSize(u)' = PacketSize(u) /\ Fits(u)' = Fits(u)
  BY <1>2 DEF PacketSize, Fits
<1>8. ThreadShape' /\ OpenWhileFilling' /\ Filling'
  BY <1>2, <1>4, <1>7 DEF Inv, ThreadShape, OpenWhileFilling, Filling
<1>9. Below' /\ LiveDisjoint'
  BY <1>2 DEF Inv, Below, Live, LiveDisjoint, Disjoint
<1>10. \A d \in Chunks : Referenced(d)' <=> Referenced(d) \/ d = c
  BY <1>2, <1>4, PoolAssumption DEF Referenced
<1>11. References'
  <2>1. \A u \in Threads :
          popped'[u] # NoChunk =>
            /\ popped'[u] # chunk'[u]
            /\ \A b \in Buffers : buffers'[b].owner # popped'[u]
    BY <1>2, <1>4, <1>5, <1>6 DEF Inv, References
  <2>2. QED
    BY <1>1, <1>2, <1>10, <2>1 DEF Inv, References, Live
<1>12. PooledIdle'
  <2>1. \A i \in DOMAIN pool' : pool'[i] \in Chunks /\ pool'[i] # c
    BY <1>1, ElementOfSeq, LenProperties
  <2>2. \A i \in DOMAIN pool' :
          \A d \in Chunks : d = pool'[i] => d \notin returning' /\ ~Referenced(d)'
    BY <1>1, <1>2, <1>10, <2>1 DEF Inv, PooledIdle
  <2>3. \A d \in returning' : ~Referenced(d)'
    BY <1>1, <1>2, <1>10 DEF Inv, PooledIdle, TypeOK
  <2>4. \A i \in DOMAIN pool', j \in DOMAIN pool' : pool'[i] = pool'[j] => i = j
    BY <1>1 DEF Inv, PooledIdle
  <2>5. QED
    BY <2>1, <2>2, <2>3, <2>4 DEF PooledIdle
<1>13. ChunkHasOneThread'
  BY <1>2, <1>4, <1>5 DEF Inv, ChunkHasOneThread
<1>14. NoChunkLost'
  BY <1>1, <1>2, <1>10 DEF Inv, NoChunkLost, TypeOK
<1>15. QED
  BY <1>2, <1>3, <1>8, <1>9, <1>11, <1>12, <1>13, <1>14 DEF Inv, OnlyOversizeKills

LEMMA CheckInv ==
  ASSUME Inv, NEW t \in Threads, Check(t), ~crash
  PROVE  Inv'
<1> USE DEF Check
<1>1. TypeOK'
  BY DEF Inv, TypeOK, PCs
<1>2. /\ \A u \in Threads : u # t => pc'[u] = pc[u]
      /\ pc[t] = "check" /\ pc'[t] \in {"alloc", "popMore"}
      /\ pc'[t] = "alloc" => Fits(t)
  BY DEF Inv, TypeOK
<1>3. \A u \in Threads : PacketSize(u)' = PacketSize(u) /\ Fits(u)' = Fits(u)
  BY DEF PacketSize, Fits
<1>4. ThreadShape' /\ OpenWhileFilling' /\ Filling'
  BY <1>2, <1>3 DEF Inv, ThreadShape, OpenWhileFilling, Filling
<1>5. Below' /\ LiveDisjoint'
  BY DEF Inv, Below, Live, LiveDisjoint, Disjoint
<1>6. References' /\ PooledIdle' /\ ChunkHasOneThread' /\ NoChunkLost'
  BY DEF Inv, References, Live, PooledIdle, ChunkHasOneThread, NoChunkLost, Referenced
<1>7. QED
  BY <1>1, <1>4, <1>5, <1>6 DEF Inv, OnlyOversizeKills

LEMMA DieInv ==
  ASSUME Inv, NEW t \in Threads, Die(t)
  PROVE  Inv'
<1> USE DEF Die
<1>1. TypeOK'
  BY DEF Inv, TypeOK
<1>2. \A u \in Threads : PacketSize(u)' = PacketSize(u) /\ Fits(u)' = Fits(u)
  BY DEF PacketSize, Fits
<1>3. ThreadShape' /\ OpenWhileFilling' /\ Filling'
  BY <1>2 DEF Inv, ThreadShape, OpenWhileFilling, Filling
<1>4. Below' /\ LiveDisjoint'
  BY DEF Inv, Below, Live, LiveDisjoint, Disjoint
<1>5. References' /\ PooledIdle' /\ ChunkHasOneThread' /\ NoChunkLost'
  BY DEF Inv, References, Live, PooledIdle, ChunkHasOneThread, NoChunkLost, Referenced
<1>6. pc[t] = "alloc" /\ PacketSize(t) > ChunkSize
  <2>1. chunk[t] # NoChunk
    BY DEF AssertFails, Inv, ThreadShape
  <2>2. CASE pc[t] = "check"
    BY <2>1, <2>2 DEF AssertFails, Inv, OpenWhileFilling
  <2>3. CASE pc[t] = "write"
    <3> DEFINE x == [owner |-> chunk[t], from |-> usedSize[chunk[t]],
                     size |-> PacketSize(t)]
    <3>1. buffers[buffer[t]].owner = chunk[t]
      <4>1. buffers[buffer[t]] = x
        BY <2>3 DEF Inv, Filling
      <4>2. x.owner = chunk[t]
        OBVIOUS
      <4>3. QED
        BY <4>1, <4>2
    <3>2. open[chunk[t]]
      BY <2>1, <2>3 DEF Inv, OpenWhileFilling
    <3>3. QED
      BY <2>3, <3>1, <3>2 DEF AssertFails
  <2>4. CASE pc[t] = "alloc"
    BY <2>1, <2>4 DEF AssertFails, Inv, OpenWhileFilling, ThreadShape
  <2>5. QED
    BY <2>2, <2>3, <2>4 DEF AssertFails
<1>7. OnlyOversizeKills'
  BY <1>2, <1>6 DEF OnlyOversizeKills
<1>8. QED
  BY <1>1, <1>3, <1>4, <1>5, <1>7 DEF Inv

LEMMA SetChunkInv ==
  ASSUME Inv, NEW t \in Threads, SetChunk(t), ~crash
  PROVE  Inv'
<1> DEFINE c == popped[t]
<1>1. /\ c \in Chunks /\ c # NoChunk /\ c # chunk[t]
      /\ Referenced(c)
      /\ \A b \in Buffers : buffers[b].owner # c
  <2>1. c \in Chunks /\ c # NoChunk
    BY DEF SetChunk, Inv, TypeOK
  <2>2. QED
    BY <2>1 DEF Inv, References, Referenced
<1> HIDE DEF c
<1>2. /\ pc' = [pc EXCEPT ![t] = IF @ = "pop" THEN "check" ELSE "alloc"]
      /\ chunk' = [chunk EXCEPT ![t] = c]
      /\ popped' = [popped EXCEPT ![t] = NoChunk]
      /\ open' = [open EXCEPT ![c] = FALSE]
      /\ usedSize' = [usedSize EXCEPT ![c] = 0]
      /\ UNCHANGED <<body, buffer, made, pool, buffers, crash>>
      /\ returning' = returning \union Dropped
  BY DEF SetChunk, c
<1>3. pc[t] \in {"pop", "popMore"}
  BY <1>1 DEF Inv, ThreadShape, c
<1>4. \A u \in Threads : u # t => chunk[u] # c /\ popped[u] # c
  <2>1. c \in {chunk[t], popped[t]} /\ c # NoChunk
    BY <1>1 DEF c
  <2>2. QED
    BY <2>1, OwnChunk
<1>5. TypeOK'
  <2>1. pc' \in [Threads -> PCs]
    BY <1>2 DEF Inv, TypeOK, PCs
  <2>2. usedSize' \in [Chunks -> 0 .. ChunkSize]
    BY <1>1, <1>2, PoolAssumption DEF Inv, TypeOK
  <2>3. returning' \subseteq Chunks
    BY <1>2 DEF Inv, TypeOK, Dropped
  <2>4. QED
    BY <1>1, <1>2, <2>1, <2>2, <2>3 DEF Inv, TypeOK
<1>6. /\ chunk'[t] = c /\ popped'[t] = NoChunk /\ pc'[t] \in {"check", "alloc"}
      /\ open'[c] = FALSE /\ usedSize'[c] = 0
      /\ \A u \in Threads : u # t => /\ chunk'[u] = chunk[u] /\ popped'[u] = popped[u]
                                     /\ pc'[u] = pc[u]
      /\ \A d \in Chunks : d # c => open'[d] = open[d] /\ usedSize'[d] = usedSize[d]
  <2>1. pc'[t] \in {"check", "alloc"}
    BY <1>2, <1>3 DEF Inv, TypeOK
  <2>2. chunk'[t] = c /\ popped'[t] = NoChunk
    BY <1>2 DEF Inv, TypeOK
  <2>3. open'[c] = FALSE /\ usedSize'[c] = 0
    BY <1>1, <1>2 DEF Inv, TypeOK
  <2>4. \A u \in Threads : u # t => /\ chunk'[u] = chunk[u] /\ popped'[u] = popped[u]
                                  /\ pc'[u] = pc[u]
    BY <1>2 DEF Inv, TypeOK
  <2>5. \A d \in Chunks : d # c => open'[d] = open[d] /\ usedSize'[d] = usedSize[d]
    BY <1>1, <1>2 DEF Inv, TypeOK
  <2>6. QED
    BY <2>1, <2>2, <2>3, <2>4, <2>5
<1>7. \A u \in Threads : PacketSize(u)' = PacketSize(u) /\ PacketSize(u) \in Nat
  BY <1>2, PacketSizeType DEF PacketSize, Inv
<1>8. \A u \in Threads :
        u # t /\ chunk[u] # NoChunk => /\ usedSize'[chunk'[u]] = usedSize[chunk[u]]
                                       /\ open'[chunk'[u]] = open[chunk[u]]
                                       /\ Fits(u)' = Fits(u)
  BY <1>4, <1>6, <1>7 DEF Inv, TypeOK, Fits
<1>9. Fits(t)' \/ PacketSize(t)' > ChunkSize
  BY <1>6, <1>7, PoolAssumption DEF Fits
<1>10. ThreadShape'
  BY <1>1, <1>2, <1>3, <1>6, <1>7, <1>8, <1>9 DEF Inv, ThreadShape
<1>11. OpenWhileFilling'
  BY <1>6, <1>8 DEF Inv, OpenWhileFilling
<1>12. Filling'
  BY <1>2, <1>6, <1>7, <1>8 DEF Inv, Filling, ThreadShape
<1>13. Below'
  <2>1. ASSUME NEW b \in Live PROVE buffers[b].owner \in Chunks \ {c}
    <3>1. buffers[b] \in BufferType /\ b \in Buffers
      BY DEF Inv, TypeOK, Live
    <3>2. buffers[b].owner \in Chunks \union {NoChunk}
      BY <3>1 DEF BufferType
    <3>3. QED
      BY <1>1, <3>1, <3>2 DEF Inv, References
  <2>2. Live' = Live
    BY <1>2 DEF Live
  <2>3. QED
    BY <1>2, <1>6, <2>1, <2>2 DEF Inv, Below
<1>14. \A d \in Chunks : Referenced(d)' => Referenced(d)
  BY <1>1, <1>2, <1>6, PoolAssumption DEF Referenced
<1>15. References'
  BY <1>1, <1>2, <1>6, <1>14 DEF Inv, References, Live, Dropped
<1>16. PooledIdle'
  <2>1. \A d \in Chunks : d \in Dropped => Referenced(d) /\ ~Referenced(d)'
    BY DEF Dropped
  <2>2. \A i \in DOMAIN pool : pool[i] \in Chunks
    BY ElementOfSeq, LenProperties DEF Inv, TypeOK
  <2>3. \A d \in returning' : d \in Chunks /\ ~Referenced(d)'
    BY <1>2, <1>5, <1>14, <2>1 DEF Inv, PooledIdle, TypeOK
  <2>4. \A i \in DOMAIN pool' :
          \A d \in Chunks : d = pool'[i] => d \notin returning' /\ ~Referenced(d)'
    BY <1>2, <1>14, <2>1, <2>2 DEF Inv, PooledIdle
  <2>5. QED
    BY <1>2, <2>2, <2>3, <2>4 DEF Inv, PooledIdle
<1>17. ChunkHasOneThread'
  BY <1>4, <1>6 DEF Inv, ChunkHasOneThread
<1>18. LiveDisjoint'
  BY <1>2 DEF Inv, LiveDisjoint, Live, Disjoint
<1>19. NoChunkLost'
  BY <1>2 DEF Inv, NoChunkLost, Dropped
<1>20. QED
  BY <1>2, <1>5, <1>10, <1>11, <1>12, <1>13, <1>15, <1>16, <1>17, <1>18, <1>19
     DEF Inv, OnlyOversizeKills

LEMMA ReleaseInv ==
  ASSUME Inv, NEW b \in Buffers, Release(b), ~crash
  PROVE  Inv'
<1>1. /\ buffers[b] # Free /\ \A t \in Threads : buffer[t] # b
      /\ buffers' = [buffers EXCEPT ![b] = Free]
      /\ UNCHANGED <<pc, body, chunk, popped, buffer, made, open, usedSize, pool, crash>>
      /\ returning' = returning \union Dropped
  BY DEF Release
<1>2. TypeOK'
  <2>1. Free \in BufferType
    BY DEF Free, BufferType
  <2>2. returning' \subseteq Chunks
    BY <1>1 DEF Inv, TypeOK, Dropped
  <2>3. buffers' \in [Buffers -> BufferType]
    BY <1>1, <2>1 DEF Inv, TypeOK
  <2>4. QED
    BY <1>1, <2>2, <2>3 DEF Inv, TypeOK
<1>3. /\ buffers'[b] = Free /\ Free.owner = NoChunk
      /\ \A a \in Buffers : a # b => buffers'[a] = buffers[a]
  BY <1>1 DEF Inv, TypeOK, Free
<1>4. \A a \in Live' : a \in Live /\ a # b /\ buffers'[a] = buffers[a]
  BY <1>3 DEF Live
<1>5. \A u \in Threads : PacketSize(u)' = PacketSize(u) /\ Fits(u)' = Fits(u)
  BY <1>1 DEF PacketSize, Fits
<1>6. ThreadShape' /\ OpenWhileFilling'
  BY <1>1, <1>5 DEF Inv, ThreadShape, OpenWhileFilling
<1>7. Filling'
  BY <1>1, <1>3, <1>5 DEF Inv, Filling, ThreadShape, TypeOK
<1>8. Below' /\ LiveDisjoint'
  BY <1>1, <1>4 DEF Inv, Below, LiveDisjoint, Disjoint
<1>9. \A d \in Chunks : Referenced(d)' => Referenced(d)
  BY <1>1, <1>3, PoolAssumption DEF Referenced
<1>10. References'
  BY <1>1, <1>3, <1>4, <1>9 DEF Inv, References, Dropped
<1>11. PooledIdle'
  <2>1. \A d \in Chunks : d \in Dropped => Referenced(d) /\ ~Referenced(d)'
    BY DEF Dropped
  <2>2. \A i \in DOMAIN pool : pool[i] \in Chunks
    BY ElementOfSeq, LenProperties DEF Inv, TypeOK
  <2>3. \A d \in returning' : d \in Chunks /\ ~Referenced(d)'
    BY <1>1, <1>2, <1>9, <2>1 DEF Inv, PooledIdle, TypeOK
  <2>4. \A i \in DOMAIN pool' :
          \A d \in Chunks : d = pool'[i] => d \notin returning' /\ ~Referenced(d)'
    BY <1>1, <1>9, <2>1, <2>2 DEF Inv, PooledIdle
  <2>5. QED
    BY <1>1, <2>2, <2>3, <2>4 DEF Inv, PooledIdle
<1>12. ChunkHasOneThread'
  BY <1>1 DEF Inv, ChunkHasOneThread
<1>13. NoChunkLost'
  BY <1>1 DEF Inv, NoChunkLost, Dropped
<1>14. QED
  BY <1>1, <1>2, <1>6, <1>7, <1>8, <1>10, <1>11, <1>12, <1>13
     DEF Inv, OnlyOversizeKills

LEMMA PushInv ==
  ASSUME Inv, NEW c \in Chunks, Push(c), ~crash
  PROVE  Inv'
<1>1. /\ c \in returning /\ returning' = returning \ {c} /\ pool' = Append(pool, c)
      /\ UNCHANGED <<pc, body, chunk, popped, buffer, made, open, usedSize, buffers, crash>>
  BY DEF Push
<1>2. pool \in Seq(Chunks)
  BY DEF Inv, TypeOK
<1>3. /\ pool' \in Seq(Chunks)
      /\ \A i \in DOMAIN pool : i \in DOMAIN pool' /\ pool'[i] = pool[i]
      /\ Len(pool) + 1 \in DOMAIN pool' /\ pool'[Len(pool) + 1] = c
      /\ \A i \in DOMAIN pool' : i \in DOMAIN pool \/ i = Len(pool) + 1
  BY <1>1, <1>2, PushLast
<1>4. TypeOK'
  BY <1>1, <1>3 DEF Inv, TypeOK
<1>5. \A u \in Threads : PacketSize(u)' = PacketSize(u) /\ Fits(u)' = Fits(u)
  BY <1>1 DEF PacketSize, Fits
<1>6. ThreadShape' /\ OpenWhileFilling' /\ Filling'
  BY <1>1, <1>5 DEF Inv, ThreadShape, OpenWhileFilling, Filling
<1>7. Below' /\ LiveDisjoint'
  BY <1>1 DEF Inv, Below, Live, LiveDisjoint, Disjoint
<1>8. \A d \in Chunks : Referenced(d)' <=> Referenced(d)
  BY <1>1 DEF Referenced
<1>9. References'
  BY <1>1, <1>3, <1>8 DEF Inv, References, Live
<1>10. PooledIdle'
  <2>1. \A i \in DOMAIN pool : pool[i] \in Chunks /\ pool[i] # c
    BY <1>1, <1>2, ElementOfSeq, LenProperties DEF Inv, PooledIdle
  <2>2. \A i \in DOMAIN pool', j \in DOMAIN pool' : pool'[i] = pool'[j] => i = j
    BY <1>3, <2>1 DEF Inv, PooledIdle
  <2>3. ~Referenced(c)
    BY <1>1 DEF Inv, PooledIdle
  <2>4. \A i \in DOMAIN pool' :
          \A d \in Chunks : d = pool'[i] => d \notin returning' /\ ~Referenced(d)'
    BY <1>1, <1>3, <1>8, <2>1, <2>3 DEF Inv, PooledIdle
  <2>5. \A d \in returning' : ~Referenced(d)'
    BY <1>1, <1>8 DEF Inv, PooledIdle, TypeOK
  <2>6. \A i \in DOMAIN pool' : pool'[i] \in Chunks
    BY <1>3, <2>1
  <2>7. QED
    BY <2>2, <2>4, <2>5, <2>6 DEF PooledIdle
<1>11. ChunkHasOneThread'
  BY <1>1 DEF Inv, ChunkHasOneThread
<1>12. NoChunkLost'
  BY <1>1, <1>3, <1>8 DEF Inv, NoChunkLost, TypeOK
<1>13. QED
  BY <1>1, <1>4, <1>6, <1>7, <1>9, <1>10, <1>11, <1>12 DEF Inv, OnlyOversizeKills

LEMMA AllocInv ==
  ASSUME Inv, NEW t \in Threads, Alloc(t), ~crash
  PROVE  Inv'
<1> DEFINE c == chunk[t]
           new == [owner |-> c, from |-> usedSize[c], size |-> PacketSize(t)]
<1>1. /\ pc[t] = "alloc" /\ pc' = [pc EXCEPT ![t] = "write"]
      /\ ~open[c] /\ Fits(t)
      /\ open' = [open EXCEPT ![c] = TRUE]
      /\ UNCHANGED <<body, chunk, popped, made, usedSize, pool, returning, crash>>
  BY DEF Alloc, Goto
<1>2. PICK b \in Buffers :
        /\ buffers[b] = Free
        /\ buffers' = [buffers EXCEPT ![b] = new]
        /\ buffer' = [buffer EXCEPT ![t] = b]
  BY DEF Alloc
<1>3. c \in Chunks /\ c # NoChunk
  BY <1>1, PoolAssumption DEF Inv, TypeOK, ThreadShape
<1>4. /\ new \in BufferType /\ new.owner = c /\ new.from = usedSize[c]
      /\ usedSize[c] \in Nat /\ new # Free
  <2>1. usedSize[c] \in Nat
    BY <1>3, PoolAssumption DEF Inv, TypeOK
  <2>2. PacketSize(t) \in Nat
    BY PacketSizeType DEF Inv
  <2>3. QED
    BY <1>3, <2>1, <2>2 DEF BufferType, Free
<1> HIDE DEF new
<1>5. TypeOK'
  <2>1. pc' \in [Threads -> PCs]
    BY <1>1 DEF Inv, TypeOK, PCs
  <2>2. buffers' \in [Buffers -> BufferType]
    BY <1>2, <1>4 DEF Inv, TypeOK
  <2>3. open' \in [Chunks -> BOOLEAN]
    BY <1>1 DEF Inv, TypeOK
  <2>4. buffer' \in [Threads -> Buffers \union {NoBuffer}]
    BY <1>2 DEF Inv, TypeOK
  <2>5. QED
    BY <1>1, <2>1, <2>2, <2>3, <2>4 DEF Inv, TypeOK
<1>6. /\ pc'[t] = "write" /\ buffer'[t] = b /\ b # NoBuffer /\ buffers'[b] = new
      /\ open'[c] = TRUE
      /\ \A u \in Threads : u # t => pc'[u] = pc[u] /\ buffer'[u] = buffer[u]
      /\ \A a \in Buffers : a # b => buffers'[a] = buffers[a]
      /\ \A d \in Chunks : d # c => open'[d] = open[d]
  <2>1. pc'[t] = "write" /\ buffer'[t] = b /\ b # NoBuffer
    BY <1>1, <1>2, PoolAssumption DEF Inv, TypeOK
  <2>2. buffers'[b] = new /\ \A a \in Buffers : a # b => buffers'[a] = buffers[a]
    BY <1>2 DEF Inv, TypeOK
  <2>3. open'[c] = TRUE /\ \A d \in Chunks : d # c => open'[d] = open[d]
    BY <1>1, <1>3 DEF Inv, TypeOK
  <2>4. \A u \in Threads : u # t => pc'[u] = pc[u] /\ buffer'[u] = buffer[u]
    BY <1>1, <1>2 DEF Inv, TypeOK
  <2>5. QED
    BY <2>1, <2>2, <2>3, <2>4
<1>7. \A u \in Threads : /\ PacketSize(u)' = PacketSize(u) /\ Fits(u)' = Fits(u)
  BY <1>1 DEF PacketSize, Fits
<1>8. \A u \in Threads : u # t => chunk[u] # c
  BY <1>3, OwnChunk
<1>9. \A u \in Threads : buffer[u] # b
  <2>1. ASSUME NEW u \in Threads, buffer[u] = b PROVE FALSE
    <3>1. pc[u] = "write"
      BY <2>1, <1>6 DEF Inv, ThreadShape
    <3> DEFINE x == [owner |-> chunk[u], from |-> usedSize[chunk[u]],
                     size |-> PacketSize(u)]
    <3>2. buffers[b] = x /\ chunk[u] # NoChunk
      BY <2>1, <3>1 DEF Inv, Filling, ThreadShape
    <3>3. x.owner = chunk[u] /\ Free.owner = NoChunk
      BY DEF Free
    <3>4. QED
      BY <1>2, <3>2, <3>3
  <2>2. QED
    BY <2>1
<1>10. ThreadShape'
  BY <1>1, <1>6, <1>7 DEF Inv, ThreadShape
<1>11. OpenWhileFilling'
  BY <1>1, <1>3, <1>6, <1>8 DEF Inv, OpenWhileFilling, TypeOK
<1>12. Filling'
  <2>1. ASSUME NEW u \in Threads, pc'[u] = "write", u # t
        PROVE  buffers'[buffer'[u]] = buffers[buffer[u]] /\ pc[u] = "write"
    <3>1. pc[u] = "write" /\ buffer'[u] = buffer[u]
      BY <1>6, <2>1
    <3>2. buffer[u] \in Buffers
      BY <3>1 DEF Inv, ThreadShape, TypeOK
    <3>3. QED
      BY <1>6, <1>9, <3>1, <3>2
  <2>2. ASSUME NEW u \in Threads, pc'[u] = "write", u # t
        PROVE  /\ buffers'[buffer'[u]] = [owner |-> chunk'[u], from |-> usedSize'[chunk'[u]],
                                          size |-> PacketSize(u)']
               /\ Fits(u)'
    BY <1>1, <1>7, <2>1, <2>2 DEF Inv, Filling
  <2>3. /\ buffers'[buffer'[t]] = [owner |-> chunk'[t], from |-> usedSize'[chunk'[t]],
                                   size |-> PacketSize(t)']
        /\ Fits(t)'
    BY <1>1, <1>6, <1>7 DEF new
  <2>4. QED
    BY <2>2, <2>3 DEF Filling
<1>13. Live' = Live \union {b} /\ b \notin Live
  BY <1>2, <1>4, <1>6 DEF Live
<1>14. Below'
  <2>1. ASSUME NEW a \in Live', \A u \in Threads : buffer'[u] # a
        PROVE  /\ a \in Live /\ buffers'[a] = buffers[a]
               /\ \A u \in Threads : buffer[u] # a
    <3>1. a # b /\ a \in Live /\ a \in Buffers
      BY <1>6, <1>13, <2>1 DEF Live
    <3>2. buffer[t] = NoBuffer /\ NoBuffer \notin Buffers
      BY <1>1, PoolAssumption DEF Inv, ThreadShape
    <3>3. QED
      BY <1>6, <2>1, <3>1, <3>2
  <2>2. QED
    BY <1>1, <2>1 DEF Inv, Below
<1>15. \A d \in Chunks : Referenced(d)' <=> Referenced(d)
  <2>1. Free.owner = NoChunk
    BY DEF Free
  <2>2. QED
    BY <1>1, <1>2, <1>3, <1>4, <1>6, <2>1, PoolAssumption DEF Referenced
<1>16. References'
  <2>1. \A a \in Live' : buffers'[a].owner # NoChunk
    BY <1>3, <1>4, <1>6, <1>13 DEF Inv, References, Live
  <2>2. \A u \in Threads : popped[u] # NoChunk => popped[u] # c
    <3>1. \A u \in Threads : u # t => popped[u] # c
      BY <1>3, OwnChunk
    <3>2. popped[t] = NoChunk
      BY <1>1 DEF Inv, ThreadShape
    <3>3. QED
      BY <1>3, <3>1, <3>2
  <2>3. \A u \in Threads :
          popped'[u] # NoChunk =>
            /\ popped'[u] # chunk'[u]
            /\ \A a \in Buffers : buffers'[a].owner # popped'[u]
    BY <1>1, <1>4, <1>6, <2>2 DEF Inv, References
  <2>4. QED
    BY <1>1, <1>15, <2>1, <2>3 DEF Inv, References
<1>17. PooledIdle'
  <2>1. \A i \in DOMAIN pool : pool[i] \in Chunks
    BY ElementOfSeq, LenProperties DEF Inv, TypeOK
  <2>2. \A i \in DOMAIN pool' :
          \A d \in Chunks : d = pool'[i] => d \notin returning' /\ ~Referenced(d)'
    BY <1>1, <1>15 DEF Inv, PooledIdle
  <2>3. \A d \in returning' : ~Referenced(d)'
    BY <1>1, <1>15 DEF Inv, PooledIdle, TypeOK
  <2>4. QED
    BY <1>1, <2>1, <2>2, <2>3 DEF Inv, PooledIdle
<1>18. ChunkHasOneThread'
  BY <1>1 DEF Inv, ChunkHasOneThread
<1>19. LiveDisjoint'
  <2>1. ASSUME NEW a \in Live, buffers[a].owner = c
        PROVE  buffers[a].from + buffers[a].size <= usedSize[c]
    <3>1. \A u \in Threads : buffer[u] # a
      <4>1. ASSUME NEW u \in Threads, buffer[u] = a PROVE FALSE
        <5>1. a # NoBuffer
          BY PoolAssumption DEF Live
        <5>2. pc[u] = "write"
          BY <4>1, <5>1 DEF Inv, ThreadShape
        <5> DEFINE x == [owner |-> chunk[u], from |-> usedSize[chunk[u]],
                         size |-> PacketSize(u)]
        <5>3. buffers[a] = x /\ x.owner = chunk[u]
          BY <4>1, <5>2 DEF Inv, Filling
        <5>4. chunk[u] = c
          BY <2>1, <5>3
        <5>5. QED
          BY <1>1, <1>8, <5>2, <5>4
      <4>2. QED
        BY <4>1
    <3>2. QED
      BY <2>1, <3>1 DEF Inv, Below
  <2>2. ASSUME NEW a \in Live', NEW e \in Live', a # e,
               buffers'[a].owner = buffers'[e].owner
        PROVE  Disjoint(buffers'[a], buffers'[e])
    <3>1. CASE a \in Live /\ e \in Live
      <4>1. buffers'[a] = buffers[a] /\ buffers'[e] = buffers[e]
        BY <1>6, <1>13, <3>1 DEF Live
      <4>2. QED
        BY <2>2, <3>1, <4>1 DEF Inv, LiveDisjoint
    <3>2. CASE a = b
      <4>1. e \in Live /\ buffers'[e] = buffers[e] /\ buffers'[a] = new
        BY <1>6, <1>13, <2>2, <3>2 DEF Live
      <4>2. QED
        BY <1>4, <2>1, <2>2, <4>1 DEF Disjoint
    <3>3. CASE e = b
      <4>1. a \in Live /\ buffers'[a] = buffers[a] /\ buffers'[e] = new
        BY <1>6, <1>13, <2>2, <3>3 DEF Live
      <4>2. QED
        BY <1>4, <2>1, <2>2, <4>1 DEF Disjoint
    <3>4. QED
      BY <1>13, <3>1, <3>2, <3>3
  <2>3. QED
    BY <2>2 DEF LiveDisjoint
<1>20. NoChunkLost'
  BY <1>1, <1>15 DEF Inv, NoChunkLost, TypeOK
<1>21. QED
  BY <1>1, <1>5, <1>10, <1>11, <1>12, <1>14, <1>16, <1>17, <1>18, <1>19, <1>20
     DEF Inv, OnlyOversizeKills

LEMMA CloseInv ==
  ASSUME Inv, NEW t \in Threads, Close(t), ~crash
  PROVE  Inv'
<1> DEFINE c == chunk[t]
           b == buffer[t]
           x == [owner |-> c, from |-> usedSize[c], size |-> PacketSize(t)]
<1>1. /\ pc[t] = "write" /\ pc' = [pc EXCEPT ![t] = "idle"]
      /\ buffer' = [buffer EXCEPT ![t] = NoBuffer]
      /\ body' = [body EXCEPT ![t] = 0]
      /\ UNCHANGED <<chunk, popped, made, pool, returning, buffers, crash>>
  BY DEF Close, Goto
<1>2. /\ buffers[b] = x /\ Fits(t)
      /\ x.owner = c /\ x.from = usedSize[c] /\ x.size = PacketSize(t)
  BY <1>1 DEF Inv, Filling
<1>3. c \in Chunks /\ c # NoChunk /\ b \in Buffers
  BY <1>1, PoolAssumption DEF Inv, TypeOK, ThreadShape
<1>4. /\ open' = [open EXCEPT ![c] = FALSE]
      /\ usedSize' = [usedSize EXCEPT ![c] = @ + PacketSize(t)]
  <2>1. buffers[buffer[t]].owner = c
    BY <1>2
  <2>2. QED
    BY <2>1 DEF Close, CloseChunk, AddUsed
<1>5. /\ PacketSize(t) \in Nat /\ usedSize[c] \in Nat
      /\ usedSize[c] + PacketSize(t) <= ChunkSize
  BY <1>2, <1>3, PacketSizeType, PoolAssumption DEF Inv, TypeOK, Fits
<1> HIDE DEF x
<1>6. TypeOK'
  <2>1. pc' \in [Threads -> PCs]
    BY <1>1 DEF Inv, TypeOK, PCs
  <2>2. usedSize' \in [Chunks -> 0 .. ChunkSize]
    BY <1>3, <1>4, <1>5, PoolAssumption DEF Inv, TypeOK
  <2>3. open' \in [Chunks -> BOOLEAN] /\ body' \in [Threads -> Nat]
    BY <1>1, <1>4 DEF Inv, TypeOK
  <2>4. QED
    BY <1>1, <2>1, <2>2, <2>3 DEF Inv, TypeOK
<1>7. /\ pc'[t] = "idle" /\ buffer'[t] = NoBuffer
      /\ open'[c] = FALSE /\ usedSize'[c] = usedSize[c] + PacketSize(t)
      /\ \A u \in Threads : u # t => /\ pc'[u] = pc[u] /\ buffer'[u] = buffer[u]
                                     /\ body'[u] = body[u]
      /\ \A d \in Chunks : d # c => open'[d] = open[d] /\ usedSize'[d] = usedSize[d]
  <2>1. pc'[t] = "idle" /\ buffer'[t] = NoBuffer
    BY <1>1 DEF Inv, TypeOK
  <2>2. open'[c] = FALSE /\ usedSize'[c] = usedSize[c] + PacketSize(t)
    BY <1>3, <1>4 DEF Inv, TypeOK
  <2>3. \A u \in Threads : u # t => /\ pc'[u] = pc[u] /\ buffer'[u] = buffer[u]
                                  /\ body'[u] = body[u]
    BY <1>1 DEF Inv, TypeOK
  <2>4. \A d \in Chunks : d # c => open'[d] = open[d] /\ usedSize'[d] = usedSize[d]
    BY <1>3, <1>4 DEF Inv, TypeOK
  <2>5. QED
    BY <2>1, <2>2, <2>3, <2>4
<1>8. \A u \in Threads : u # t => chunk[u] # c
  BY <1>3, OwnChunk
<1>9. \A u \in Threads :
        u # t => /\ PacketSize(u)' = PacketSize(u)
                 /\ chunk[u] # NoChunk => /\ usedSize'[chunk'[u]] = usedSize[chunk[u]]
                                          /\ open'[chunk'[u]] = open[chunk[u]]
                                          /\ Fits(u)' = Fits(u)
  BY <1>1, <1>7, <1>8 DEF Inv, TypeOK, PacketSize, Fits
<1>10. ThreadShape'
  BY <1>1, <1>7, <1>9 DEF Inv, ThreadShape
<1>11. OpenWhileFilling'
  BY <1>1, <1>3, <1>7, <1>9 DEF Inv, OpenWhileFilling
<1>12. Filling'
  BY <1>1, <1>7, <1>9 DEF Inv, Filling, ThreadShape
<1>13. Live' = Live
  BY <1>1 DEF Live
<1>14. Below'
  <2>1. ASSUME NEW a \in Live, \A u \in Threads : buffer'[u] # a
        PROVE  buffers[a].from + buffers[a].size <= usedSize'[buffers[a].owner]
    <3>1. CASE a = b
      BY <1>2, <1>5, <1>7, <3>1
    <3>2. CASE a # b
      <4>1. \A u \in Threads : buffer[u] # a
        BY <1>7, <2>1, <3>2
      <4>2. buffers[a].from + buffers[a].size <= usedSize[buffers[a].owner]
        BY <4>1 DEF Inv, Below
      <4>3. /\ buffers[a].from \in Nat /\ buffers[a].size \in Nat
            /\ buffers[a].owner \in Chunks
        <5>1. buffers[a] \in BufferType /\ buffers[a].owner # NoChunk
          BY DEF Inv, TypeOK, Live, References
        <5>2. QED
          BY <5>1 DEF BufferType
      <4>4. usedSize[buffers[a].owner] <= usedSize'[buffers[a].owner]
        <5>1. CASE buffers[a].owner = c
          BY <1>5, <1>7, <5>1
        <5>2. CASE buffers[a].owner # c
          <6>1. usedSize[buffers[a].owner] \in Nat
            BY <4>3, PoolAssumption DEF Inv, TypeOK
          <6>2. QED
            BY <1>7, <4>3, <5>2, <6>1
        <5>3. QED
          BY <5>1, <5>2
      <4>5. usedSize[buffers[a].owner] \in Nat /\ usedSize'[buffers[a].owner] \in Nat
        BY <1>6, <4>3, PoolAssumption DEF Inv, TypeOK
      <4>6. QED
        BY <4>2, <4>3, <4>4, <4>5
    <3>3. QED
      BY <3>1, <3>2
  <2>2. QED
    BY <1>1, <1>13, <2>1 DEF Below
<1>15. LiveDisjoint'
  BY <1>1, <1>13 DEF Inv, LiveDisjoint
<1>16. References' /\ PooledIdle' /\ ChunkHasOneThread' /\ NoChunkLost'
  BY <1>1 DEF Inv, References, Live, PooledIdle, ChunkHasOneThread, NoChunkLost, Referenced
<1>17. QED
  BY <1>1, <1>6, <1>10, <1>11, <1>12, <1>14, <1>15, <1>16 DEF Inv, OnlyOversizeKills

-----------------------------------------------------------------------------
LEMMA InvStep == Inv /\ [Next]_vars => Inv'
<1>1. SUFFICES ASSUME Inv, [Next]_vars PROVE Inv'
  OBVIOUS
<1>2. CASE UNCHANGED vars
  <2>1. \A t \in Threads : PacketSize(t)' = PacketSize(t) /\ Fits(t)' = Fits(t)
    BY <1>2 DEF vars, PacketSize, Fits
  <2>2. TypeOK' /\ ThreadShape' /\ OpenWhileFilling' /\ Filling'
    BY <1>1, <1>2, <2>1
       DEF vars, Inv, TypeOK, ThreadShape, OpenWhileFilling, Filling
  <2>3. Below' /\ LiveDisjoint' /\ References'
    BY <1>1, <1>2
       DEF vars, Inv, Below, Live, LiveDisjoint, Disjoint, References, Referenced
  <2>4. PooledIdle' /\ ChunkHasOneThread' /\ NoChunkLost'
    BY <1>1, <1>2
       DEF vars, Inv, PooledIdle, ChunkHasOneThread, NoChunkLost, Referenced
  <2>5. OnlyOversizeKills'
    BY <1>1, <1>2, <2>1 DEF vars, Inv, OnlyOversizeKills
  <2>6. QED
    BY <2>2, <2>3, <2>4, <2>5 DEF Inv
<1>3. ASSUME ~crash, NEW t \in Threads, Make(t) PROVE Inv'
  <2>1. CASE \E n \in BodySizes : MakeSendBuffer(t, n)
    BY <1>1, <1>3, <2>1, MakeSendBufferInv
  <2>2. CASE Pop(t)
    BY <1>1, <1>3, <2>2, PopInv
  <2>3. CASE SetChunk(t)
    BY <1>1, <1>3, <2>3, SetChunkInv
  <2>4. CASE Check(t)
    BY <1>1, <1>3, <2>4, CheckInv
  <2>5. CASE Alloc(t)
    BY <1>1, <1>3, <2>5, AllocInv
  <2>6. CASE Close(t)
    BY <1>1, <1>3, <2>6, CloseInv
  <2>7. CASE Die(t)
    BY <1>1, <1>3, <2>7, DieInv
  <2>8. QED
    BY <1>3, <2>1, <2>2, <2>3, <2>4, <2>5, <2>6, <2>7 DEF Make
<1>4. ASSUME ~crash, NEW b \in Buffers, Release(b) PROVE Inv'
  BY <1>1, <1>4, ReleaseInv
<1>5. ASSUME ~crash, NEW c \in Chunks, Push(c) PROVE Inv'
  BY <1>1, <1>5, PushInv
<1>6. QED
  BY <1>1, <1>2, <1>3, <1>4, <1>5 DEF Next

LEMMA InvAlways == Spec => []Inv
  BY InvInit, InvStep, PTL DEF Spec

(* Type correctness; a chunk never counts more than its size as used. *)
THEOREM TypeCorrect == Spec => []TypeOK
<1>1. Inv => TypeOK
  BY DEF Inv
<1>2. QED
  BY <1>1, InvAlways, PTL

(* No two SendBuffers alive share a byte. *)
THEOREM BuffersAreDisjoint == Spec => []LiveDisjoint
<1>1. Inv => LiveDisjoint
  BY DEF Inv
<1>2. QED
  BY <1>1, InvAlways, PTL

(* A chunk in the pool or on its way there is nobody's. *)
THEOREM PooledChunksAreIdle == Spec => []PooledIdle
<1>1. Inv => PooledIdle
  BY DEF Inv
<1>2. QED
  BY <1>1, InvAlways, PTL

(* A chunk is cut by one thread at a time. *)
THEOREM ChunksAreThreadLocal == Spec => []ChunkHasOneThread
<1>1. Inv => ChunkHasOneThread
  BY DEF Inv
<1>2. QED
  BY <1>1, InvAlways, PTL

(* Every chunk that was made is referenced, pooled or being returned. *)
THEOREM ChunksAreKept == Spec => []NoChunkLost
<1>1. Inv => NoChunkLost
  BY DEF Inv
<1>2. QED
  BY <1>1, InvAlways, PTL

(* No assert fires but for a packet larger than a chunk. *)
THEOREM OnlyOversizeIsFatal == Spec => []OnlyOversizeKills
<1>1. Inv => OnlyOversizeKills
  BY DEF Inv
<1>2. QED
  BY <1>1, InvAlways, PTL

-----------------------------------------------------------------------------
(* A number that fits a word is not changed by the cast ...                *)
LEMMA FitsWord ==
  ASSUME NEW k \in Nat, k < Word
  PROVE  k % Word = k
<1>1. PICK w \in Nat : w = Word /\ w > 0
  BY PoolAssumption
<1> DEFINE d == k \div w
           m == k % w
<1>2. d \in Int /\ m \in Nat /\ m < w /\ k = w * d + m
  BY <1>1
<1> HIDE DEF d, m
<1>3. ASSUME d >= 1 PROVE FALSE
  <2>1. PICK j \in Nat : d = j + 1
    <3>1. d - 1 \in Nat /\ d = (d - 1) + 1
      BY <1>2, <1>3
    <3>2. QED
      BY <3>1
  <2>2. w * d = w * j + w /\ w * j \in Nat
    BY <1>1, <2>1
  <2>3. QED
    BY <1>1, <1>2, <2>2
<1>4. ASSUME d <= -1 PROVE FALSE
  <2>1. PICK j \in Nat : d = -1 - j
    <3>1. -1 - d \in Nat /\ d = -1 - (-1 - d)
      BY <1>2, <1>4
    <3>2. QED
      BY <3>1
  <2>2. w * d = -w - w * j /\ w * j \in Nat
    BY <1>1, <2>1
  <2>3. QED
    BY <1>1, <1>2, <2>2
<1>5. d = 0
  BY <1>2, <1>3, <1>4
<1>6. QED
  BY <1>1, <1>2, <1>5 DEF m

(* ... and whatever is cast fits one.                                      *)
LEMMA BelowWord ==
  ASSUME NEW k \in Nat
  PROVE  k % Word \in Nat /\ k % Word < Word
<1>1. PICK w \in Nat : w = Word /\ w > 0
  BY PoolAssumption
<1>2. k % w \in Nat /\ k % w < w
  BY <1>1
<1>3. QED
  BY <1>1, <1>2

(* The SendBuffer that is filled ends inside its chunk; it has exactly the *)
(* bytes of the packet unless the packet's size overflows its type, for    *)
(* messages of any size.                                                   *)
THEOREM PacketsShortOnlyByOverflow == Spec => []ShortOnlyByOverflow
<1>1. ASSUME Inv, NEW t \in Threads, pc[t] = "write"
      PROVE  LET x == buffers[buffer[t]]
             IN  /\ x.from + x.size <= ChunkSize
                 /\ IF Needed(t) < Word THEN x.size = Needed(t)
                    ELSE x.size < Needed(t)
  <2> DEFINE x == [owner |-> chunk[t], from |-> usedSize[chunk[t]],
                   size |-> PacketSize(t)]
  <2>1. buffers[buffer[t]] = x /\ x.from + x.size <= ChunkSize
    BY <1>1 DEF Inv, Filling, Fits
  <2>2. body[t] \in Nat /\ HeaderSize \in Nat /\ Word \in Nat
    BY <1>1, PoolAssumption DEF Inv, TypeOK
  <2>3. CASE Needed(t) < Word
    <3>1. body[t] < Word
      BY <2>2, <2>3 DEF Needed
    <3>2. body[t] % Word = body[t]
      BY <2>2, <3>1, FitsWord
    <3>3. HeaderSize + body[t] \in Nat /\ HeaderSize + body[t] < Word
      BY <2>2, <2>3 DEF Needed
    <3>4. PacketSize(t) = (HeaderSize + body[t]) % Word
      <4>1. body[t] + HeaderSize = HeaderSize + body[t]
        BY <2>2
      <4>2. QED
        BY <3>2, <4>1 DEF PacketSize
    <3>5. PacketSize(t) = Needed(t)
      BY <3>3, <3>4, FitsWord DEF Needed
    <3>6. QED
      BY <2>1, <2>3, <3>5
  <2>4. CASE ~(Needed(t) < Word)
    <3>1. body[t] % Word \in Nat
      BY <2>2, BelowWord
    <3>2. (body[t] % Word) + HeaderSize \in Nat
      BY <2>2, <3>1
    <3>3. PacketSize(t) \in Nat /\ PacketSize(t) < Word
      BY <3>2, BelowWord DEF PacketSize
    <3>4. Needed(t) \in Nat
      BY <2>2 DEF Needed
    <3>5. PacketSize(t) < Needed(t)
      BY <2>2, <2>4, <3>3, <3>4
    <3>6. QED
      BY <2>1, <2>4, <3>5
  <2>5. QED
    BY <2>3, <2>4
<1>2. Inv => ShortOnlyByOverflow
  BY <1>1 DEF ShortOnlyByOverflow
<1>3. QED
  BY <1>2, InvAlways, PTL
=============================================================================
