------------------------- MODULE MediaDeliveryProofs -------------------------
(***************************************************************************)
(* Proofs about MediaDelivery: what reaches the Kafka topics of a          *)
(* candidate before a meta message claims it (for any overlap of handlers, *)
(* failures and restarts), and what the consumer puts together (when       *)
(* handlers of one kind do not overlap); and, at the end, about the        *)
(* chunked upload that an assembled video comes from.  Sizes, chunk size   *)
(* and the numbers of requests, interviews and uploads are arbitrary.      *)
(*                                                                         *)
(* Messages are never taken off a topic, so the invariant speaks of the    *)
(* log's positions.  What a step does to it is said once, for a step that  *)
(* gives request r the state v (Step, Keeps, Steps); one lemma per action  *)
(* shows which topics and claims the action can disturb.                   *)
(***************************************************************************)
EXTENDS MediaDelivery, VideoUpload, SequenceTheorems, FiniteSetTheorems, TLAPS

-----------------------------------------------------------------------------
(***************************************************************************)
(* Chunks.                                                                 *)
(***************************************************************************)
LEMMA LeastNumber ==
    ASSUME NEW T, T \subseteq Nat, T # {}
    PROVE  \E n \in T : \A m \in T : n <= m
<1> DEFINE Upto == {0..n : n \in T}
<1>1. Upto \subseteq FiniteSubsetsOf(Nat) /\ Upto # {}
  <2>1. \A n \in T : IsFiniteSet(0..n) /\ 0..n \in SUBSET Nat
    BY FS_Interval
  <2> QED BY <2>1 DEF FiniteSubsetsOf
<1>2. PICK s \in Upto : \A t \in Upto : <<t, s>> \notin StrictSubsetOrdering(Nat)
  <2> HIDE DEF Upto
  <2>1. IsWellFoundedOn(StrictSubsetOrdering(Nat), FiniteSubsetsOf(Nat))
    BY FS_StrictSubsetOrderingWellFounded
  <2> QED BY ONLY <1>1, <2>1, WFMin
<1>3. PICK n \in T : s = 0..n
  BY <1>2
<1>4. ASSUME NEW m \in T, ~(n <= m)
      PROVE  FALSE
  <2>1. n \in Nat /\ m \in Nat /\ m < n
    BY <1>4
  <2>2. 0..m \subseteq 0..n /\ 0..m # 0..n
    <3>1. n \in 0..n /\ n \notin 0..m
      BY <2>1
    <3> QED BY <2>1, <3>1
  <2>3. 0..m \in SUBSET Nat /\ 0..n \in SUBSET Nat
    BY <2>1
  <2>4. <<0..m, s>> \in StrictSubsetOrdering(Nat)
    BY <1>3, <2>2, <2>3 DEF StrictSubsetOrdering
  <2> QED BY <1>2, <2>4
<1> QED BY <1>4

LEMMA Products ==
    ASSUME NEW k \in Int, NEW n \in Int, NEW size \in Nat \ {0}
    PROVE  /\ k * size \in Int /\ (k + 1) * size = k * size + size
           /\ (k - 1) * size = k * size - size
           /\ k <= n => k * size <= n * size
           /\ k * size < n * size => k < n
OBVIOUS

LEMMA DivisionRounds ==
    ASSUME NEW n \in Nat, NEW size \in Nat \ {0}
    PROVE  LET count == (n + size - 1) \div size
           IN  count \in Nat /\ n <= count * size /\ (count - 1) * size < n
OBVIOUS

\* The end of the k-th chunk.
EndOf(k, size, n) == IF k * size < n THEN k * size ELSE n

\* _chunk_bytes cuts the data into adjacent pieces, none of them empty.
LEMMA ChunkShape ==
    ASSUME NEW S, NEW data \in Seq(S), NEW size \in Nat \ {0}
    PROVE  LET chunks == _chunk_bytes(data, size)
           IN  /\ chunks \in Seq(Seq(S))
               /\ Len(data) <= Len(chunks) * size
               /\ (Len(chunks) - 1) * size < Len(data)
               /\ \A k \in 1..Len(chunks) :
                     /\ (k - 1) * size \in Nat /\ (k - 1) * size < EndOf(k, size, Len(data))
                     /\ EndOf(k, size, Len(data)) \in 1..Len(data)
                     /\ chunks[k] = SubSeq(data, (k - 1) * size + 1, EndOf(k, size, Len(data)))
<1> DEFINE n == Len(data)
           count == (n + size - 1) \div size
           chunks == _chunk_bytes(data, size)
<1>1. n \in Nat
  OBVIOUS
<1>2. count \in Nat /\ n <= count * size /\ (count - 1) * size < n
  BY <1>1, DivisionRounds
<1>3. chunks = [k \in 1..count |-> SubSeq(data, (k - 1) * size + 1, EndOf(k, size, n))]
  BY DEF _chunk_bytes, EndOf
<1> HIDE DEF count, chunks
<1>4. ASSUME NEW k \in 1..count
      PROVE  /\ (k - 1) * size \in Nat /\ (k - 1) * size < EndOf(k, size, n)
             /\ EndOf(k, size, n) \in 1..n
  <2>1. /\ (k - 1) * size \in Int /\ k * size \in Int /\ (k - 1) * size = k * size - size
        /\ (k - 1) * size <= (count - 1) * size /\ 0 * size <= (k - 1) * size
    BY <1>2, Products
  <2> QED BY <1>1, <1>2, <2>1 DEF EndOf
<1>5. \A k \in 1..count : SubSeq(data, (k - 1) * size + 1, EndOf(k, size, n)) \in Seq(S)
  BY <1>1, <1>4
<1>6. chunks \in Seq(Seq(S)) /\ Len(chunks) = count
  BY <1>2, <1>3, <1>5
<1> QED BY <1>2, <1>3, <1>4, <1>6 DEF chunks

\* Each byte is in the chunk of its position.
LEMMA ChunkHolds ==
    ASSUME NEW S, NEW data \in Seq(S), NEW size \in Nat \ {0},
           NEW k \in 1..Len(_chunk_bytes(data, size)), NEW i \in 1..Len(data),
           (k - 1) * size < i, i <= k * size
    PROVE  data[i] \in ToSet(_chunk_bytes(data, size)[k])
<1> DEFINE from == (k - 1) * size
           end == EndOf(k, size, Len(data))
<1>1. /\ from \in Nat /\ end \in 1..Len(data)
      /\ _chunk_bytes(data, size)[k] = SubSeq(data, from + 1, end)
  BY ChunkShape
<1>2. i \in from + 1..end
  BY <1>1, Products DEF EndOf
<1> HIDE DEF from, end
<1>3. \A j \in from + 1..end : data[j] \in S
  BY <1>1
<1>4. /\ Len(SubSeq(data, from + 1, end)) = end - from
      /\ SubSeq(data, from + 1, end) \in Seq(S)
      /\ i - from \in 1..end - from
      /\ SubSeq(data, from + 1, end)[i - from] = data[i]
  <2> DEFINE first == from + 1
  <2>1. /\ first \in Int /\ end \in Int /\ first <= end
        /\ i - from \in 1..end - first + 1 /\ i - from \in 1..end - from
        /\ end - first + 1 = end - from
        /\ first + (i - from) - 1 = i
    BY <1>1, <1>2
  <2>2. \A j \in first..end : data[j] \in S
    BY <1>3
  <2> HIDE DEF from, end, first
  <2>3. /\ SubSeq(data, first, end) \in Seq(S)
        /\ Len(SubSeq(data, first, end)) = IF first <= end THEN end - first + 1 ELSE 0
        /\ \A j \in 1..end - first + 1 : SubSeq(data, first, end)[j] = data[first + j - 1]
    BY ONLY <2>1, <2>2, SubSeqProperties
  <2>4. SubSeq(data, first, end)[i - from] = data[i]
    BY ONLY <2>1, <2>3
  <2>5. Len(SubSeq(data, first, end)) = end - from
    BY ONLY <2>1, <2>3
  <2> QED BY <2>1, <2>3, <2>4, <2>5 DEF first
<1>5. i - from \in DOMAIN SubSeq(data, from + 1, end)
  BY <1>4
<1> QED BY <1>1, <1>4, <1>5 DEF ToSet

\* The pieces are adjacent parts of the data, the k-th one ending at end[k].
Tiles(S, data, end, pieces) ==
    /\ data \in Seq(S) /\ pieces \in Seq(Seq(S)) /\ Len(pieces) \in Nat \ {0}
    /\ end \in [0..Len(pieces) -> 0..Len(data)] /\ end[0] = 0 /\ end[Len(pieces)] = Len(data)
    /\ \A k \in 1..Len(pieces) :
          end[k - 1] <= end[k] /\ pieces[k] = SubSeq(data, end[k - 1] + 1, end[k])

\* Such pieces, joined in their order, are the data.
LEMMA PiecesJoin ==
    ASSUME NEW S, NEW data, NEW end, NEW pieces, Tiles(S, data, end, pieces)
    PROVE  FlattenSeq(pieces) = data
<1> DEFINE count == Len(pieces)
<1>0. /\ data \in Seq(S) /\ pieces \in Seq(Seq(S)) /\ count \in Nat \ {0}
      /\ end \in [0..count -> 0..Len(data)] /\ end[0] = 0 /\ end[count] = Len(data)
      /\ \A k \in 1..count :
            end[k - 1] <= end[k] /\ pieces[k] = SubSeq(data, end[k - 1] + 1, end[k])
  BY DEF Tiles
<1> HIDE DEF count
<1> DEFINE part == [k \in 1..count |-> SubSeq(data, 1, end[k])]
           Joins(f) == f = [k \in 1..count |-> IF k = 1 THEN pieces[k] ELSE f[k - 1] \o pieces[k]]
<1>1. ASSUME NEW k \in 2..count
      PROVE  part[k] = part[k - 1] \o pieces[k]
  <2>0. Len(data) \in Nat /\ k \in 1..count /\ k - 1 \in 1..count /\ k \in 0..count /\ k - 1 \in 0..count
    BY <1>0
  <2>3. end[k - 1] \in 0..Len(data) /\ end[k] \in 0..Len(data) /\ end[k - 1] <= end[k]
    BY <1>0, <2>0
  <2>1. 1 \in 1..Len(data) + 1 /\ end[k - 1] \in 1 - 1..Len(data) /\ end[k] \in end[k - 1]..Len(data)
    BY ONLY <2>0, <2>3
  <2>2. SubSeq(data, 1, end[k - 1]) \o SubSeq(data, end[k - 1] + 1, end[k]) = SubSeq(data, 1, end[k])
    BY ONLY <1>0, <2>1, ConcatAdjacentSubSeq
  <2> QED BY <1>0, <2>0, <2>2
<1>2. part[1] = pieces[1] /\ 1 \in 1..count /\ count \in 1..count
  <2>1. 1 \in 1..count /\ count \in 1..count
    BY <1>0
  <2>2. end[1 - 1] + 1 = 1
    BY <1>0
  <2>3. pieces[1] = SubSeq(data, end[1 - 1] + 1, end[1])
    BY <1>0, <2>1
  <2> QED BY <1>0, <2>1, <2>2, <2>3
<1>3. part[count] = data
  BY <1>0, <1>2, SubSeqFull
<1>4. Joins(part)
  <2> DEFINE step == [k \in 1..count |-> IF k = 1 THEN pieces[k] ELSE part[k - 1] \o pieces[k]]
  <2>1. ASSUME NEW k \in 1..count
        PROVE  part[k] = step[k]
    <3>1. CASE k = 1
      BY <1>2, <3>1
    <3>2. CASE k # 1
      <4>1. k \in 2..count
        BY <3>2
      <4> HIDE DEF part
      <4> QED BY <1>1, <3>2, <4>1
    <3> QED BY <3>1, <3>2
  <2> QED BY <2>1
<1> HIDE DEF part
<1>5. ASSUME NEW f, Joins(f)
      PROVE  f[count] = part[count]
  <2> DEFINE Wrong == {k \in 1..count : f[k] # part[k]}
  <2> SUFFICES ASSUME Wrong # {}
               PROVE  FALSE
    BY <1>2
  <2>1. PICK k \in Wrong : \A m \in Wrong : k <= m
    <3>1. Wrong \subseteq Nat
      OBVIOUS
    <3> HIDE DEF Wrong
    <3> QED BY <3>1, LeastNumber
  <2>2. CASE k = 1
    BY <1>2, <1>5, <2>1, <2>2
  <2>3. CASE k # 1
    <3>1. k \in 2..count /\ k - 1 \in 1..count
      BY <1>0, <2>1, <2>3
    <3>2. k - 1 \notin Wrong
      BY <2>1, <3>1
    <3>3. f[k] = f[k - 1] \o pieces[k]
      <4>1. f[k] = [i \in 1..count |-> IF i = 1 THEN pieces[i] ELSE f[i - 1] \o pieces[i]][k]
        BY <1>5
      <4> QED BY <2>3, <3>1, <4>1
    <3> QED BY <1>1, <2>1, <3>1, <3>2, <3>3
  <2> QED BY <2>2, <2>3
<1>6. FlattenSeq(pieces) = (CHOOSE f : Joins(f))[count]
  BY <1>0 DEF FlattenSeq, count
<1>7. Joins(CHOOSE f : Joins(f))
  <2> HIDE DEF Joins
  <2> QED BY <1>4
<1> QED BY <1>3, <1>5, <1>6, <1>7

\* Cutting data into chunks (_chunk_bytes) loses, repeats and reorders
\* nothing: for every size, the chunks joined are the data.
THEOREM ChunksJoin ==
    ASSUME NEW S, NEW data \in Seq(S), NEW size \in Nat \ {0}, data # <<>>
    PROVE  FlattenSeq(_chunk_bytes(data, size)) = data
<1> DEFINE chunks == _chunk_bytes(data, size)
           n == Len(data)
           count == Len(chunks)
           end == [k \in 0..count |-> EndOf(k, size, n)]
<1>1. /\ n \in Nat \ {0} /\ count \in Nat /\ n <= count * size /\ (count - 1) * size < n
      /\ chunks \in Seq(Seq(S))
      /\ \A k \in 1..count :
            /\ (k - 1) * size \in Nat /\ (k - 1) * size < EndOf(k, size, n) /\ EndOf(k, size, n) \in 1..n
            /\ chunks[k] = SubSeq(data, (k - 1) * size + 1, EndOf(k, size, n))
  BY ChunkShape
<1>2. count > 0 /\ EndOf(count, size, n) = n /\ EndOf(0, size, n) = 0
  <2>1. 0 * size = 0
    OBVIOUS
  <2> HIDE DEF count, n
  <2> QED BY <1>1, <2>1, Products DEF EndOf
<1>3. ASSUME NEW k \in 1..count
      PROVE  EndOf(k - 1, size, n) = (k - 1) * size
  <2> HIDE DEF count, n
  <2>1. /\ k - 1 <= count - 1 /\ (k - 1) * size <= (count - 1) * size
        /\ (k - 1) * size \in Int /\ (count - 1) * size \in Int
    BY <1>1, Products
  <2>2. n \in Int /\ (count - 1) * size < n
    BY <1>1
  <2>3. (k - 1) * size < n
    BY ONLY <2>1, <2>2
  <2> QED BY ONLY <2>3 DEF EndOf
<1> HIDE DEF chunks, n, count
<1>4. /\ count \in Nat \ {0} /\ end \in [0..count -> 0..n] /\ end[0] = 0 /\ end[count] = n
      /\ \A k \in 1..count : end[k - 1] <= end[k]
  <2>1. \A k \in 1..count : k \in 0..count /\ k - 1 \in 0..count
    BY <1>1
  <2>2. 0 \in 0..count /\ count \in 0..count
    BY <1>1
  <2>3. ASSUME NEW k \in 0..count
        PROVE  EndOf(k, size, n) \in 0..n
    <3>1. CASE k = 0
      BY ONLY <1>1, <1>2, <3>1
    <3>2. CASE k # 0
      <4>1. k \in 1..count
        BY <1>1, <3>2
      <4>2. EndOf(k, size, n) \in 1..n
        BY <1>1, <4>1
      <4> QED BY ONLY <4>2
    <3> QED BY <3>1, <3>2
  <2>4. count \in Nat \ {0} /\ end \in [0..count -> 0..n] /\ end[0] = 0 /\ end[count] = n
    BY <1>1, <1>2, <2>2, <2>3
  <2>5. ASSUME NEW k \in 1..count
        PROVE  end[k - 1] <= end[k]
    <3>1. k \in 0..count /\ k - 1 \in 0..count
      BY <2>1
    <3>2. end[k - 1] = EndOf(k - 1, size, n) /\ end[k] = EndOf(k, size, n)
      BY <3>1
    <3> QED BY <1>1, <1>3, <3>2
  <2> QED BY <2>4, <2>5
<1>5. chunks \in Seq(Seq(S)) /\ Len(chunks) = count
      /\ \A k \in 1..count : chunks[k] = SubSeq(data, end[k - 1] + 1, end[k])
  <2>1. \A k \in 1..count : k \in 0..count /\ k - 1 \in 0..count
    BY <1>1
  <2> QED BY <1>1, <1>3, <2>1 DEF count
<1> HIDE DEF end
<1>6. Tiles(S, data, end, chunks)
  BY <1>1, <1>4, <1>5 DEF Tiles, n
<1> QED BY <1>6, PiecesJoin DEF chunks

-----------------------------------------------------------------------------
(***************************************************************************)
(* Media.                                                                  *)
(***************************************************************************)
Owners == Sessions \cup Uploads

LEMMA MediumType ==
    ASSUME NEW t \in Topics, NEW x \in Owners
    PROVE  /\ SizeOf(t) \in Nat /\ Data(x, t) \in Seq(Owners \X Nat)
           /\ Len(Data(x, t)) = SizeOf(t) /\ \A i \in 1..SizeOf(t) : Data(x, t)[i] = <<x, i>>
<1>1. SizeOf(t) \in Nat
  BY SizesAssumption DEF SizeOf, Topics
<1>2. \A i \in 1..SizeOf(t) : <<x, i>> \in Owners \X Nat
  BY <1>1
<1> QED BY <1>1, <1>2 DEF Data

LEMMA PiecesAre ==
    ASSUME NEW t \in Topics, NEW x \in Owners
    PROVE  Pieces(x, t) = _chunk_bytes(Data(x, t), KAFKA_CHUNK_BYTES)
BY DEF Pieces, CutMedia, Owners

LEMMA PiecesType ==
    ASSUME NEW t \in Topics, NEW x \in Owners
    PROVE  /\ Pieces(x, t) \in Seq(Seq(Owners \X Nat)) /\ Len(Pieces(x, t)) \in Nat
           /\ SizeOf(t) <= Len(Pieces(x, t)) * KAFKA_CHUNK_BYTES
           /\ Len(Pieces(x, t)) > 0 <=> SizeOf(t) > 0
<1>1. SizeOf(t) \in Nat /\ Data(x, t) \in Seq(Owners \X Nat) /\ Len(Data(x, t)) = SizeOf(t)
  BY MediumType
<1>2. KAFKA_CHUNK_BYTES \in Nat \ {0}
  BY SizesAssumption
<1>3. /\ Pieces(x, t) \in Seq(Seq(Owners \X Nat))
      /\ SizeOf(t) <= Len(Pieces(x, t)) * KAFKA_CHUNK_BYTES
      /\ (Len(Pieces(x, t)) - 1) * KAFKA_CHUNK_BYTES < SizeOf(t)
  <2> DEFINE chunks == _chunk_bytes(Data(x, t), KAFKA_CHUNK_BYTES)
  <2>1. /\ chunks \in Seq(Seq(Owners \X Nat))
        /\ SizeOf(t) <= Len(chunks) * KAFKA_CHUNK_BYTES
        /\ (Len(chunks) - 1) * KAFKA_CHUNK_BYTES < SizeOf(t)
    BY <1>1, <1>2, ChunkShape
  <2>2. Pieces(x, t) = chunks
    BY PiecesAre
  <2> QED BY ONLY <2>1, <2>2
<1>4. Len(Pieces(x, t)) \in Nat
  BY <1>3
<1>5. Len(Pieces(x, t)) > 0 <=> SizeOf(t) > 0
  <2> DEFINE n == Len(Pieces(x, t))
  <2> HIDE DEF n
  <2>1. n \in Nat /\ SizeOf(t) <= n * KAFKA_CHUNK_BYTES /\ (n - 1) * KAFKA_CHUNK_BYTES < SizeOf(t)
    BY <1>3, <1>4 DEF n
  <2>2. CASE n = 0
    <3>1. 0 * KAFKA_CHUNK_BYTES = 0
      BY <1>2
    <3> QED BY <1>1, <2>1, <2>2, <3>1 DEF n
  <2>3. CASE n > 0
    <3>1. 0 * KAFKA_CHUNK_BYTES <= (n - 1) * KAFKA_CHUNK_BYTES /\ 0 * KAFKA_CHUNK_BYTES = 0
          /\ (n - 1) * KAFKA_CHUNK_BYTES \in Int
      BY <1>2, <2>1, <2>3, Products
    <3> QED BY <1>1, <2>1, <2>3, <3>1 DEF n
  <2> QED BY <2>1, <2>2, <2>3
<1> QED BY <1>3, <1>4, <1>5

LEMMA ChunkType ==
    ASSUME NEW t \in Topics, NEW x \in Owners, NEW j \in 0..Len(Pieces(x, t)) - 1
    PROVE  /\ Chunk(x, t, j) \in Messages
           /\ Chunk(x, t, j).is_last <=> j = Len(Pieces(x, t)) - 1
           /\ Chunk(x, t, j).data = Pieces(x, t)[j + 1] /\ Chunk(x, t, j).chunk_seq = j
<1>1. Pieces(x, t)[j + 1] \in Seq(Owners \X Nat) /\ j \in Nat
  <2>1. Pieces(x, t) \in Seq(Seq(Owners \X Nat)) /\ j + 1 \in 1..Len(Pieces(x, t))
    BY PiecesType
  <2> QED BY <2>1
<1> QED BY <1>1 DEF Chunk, Messages, Owners

\* The bytes between j and j + 1 full chunks are in the chunk numbered j.
LEMMA ChunkBytes ==
    ASSUME NEW t \in Topics, NEW x \in Owners, NEW j \in 0..Len(Pieces(x, t)) - 1,
           NEW i \in 1..SizeOf(t), j * KAFKA_CHUNK_BYTES < i, i <= (j + 1) * KAFKA_CHUNK_BYTES
    PROVE  <<x, i>> \in ToSet(Chunk(x, t, j).data)
<1>1. /\ Data(x, t) \in Seq(Owners \X Nat) /\ i \in 1..Len(Data(x, t)) /\ Data(x, t)[i] = <<x, i>>
      /\ KAFKA_CHUNK_BYTES \in Nat \ {0}
  BY MediumType, SizesAssumption
<1>2. j + 1 \in 1..Len(_chunk_bytes(Data(x, t), KAFKA_CHUNK_BYTES)) /\ (j + 1) - 1 = j
  BY PiecesType, PiecesAre
<1>3. Data(x, t)[i] \in ToSet(_chunk_bytes(Data(x, t), KAFKA_CHUNK_BYTES)[j + 1])
  BY <1>1, <1>2, ChunkHolds
<1>4. Chunk(x, t, j).data = _chunk_bytes(Data(x, t), KAFKA_CHUNK_BYTES)[j + 1]
  BY ChunkType, PiecesAre
<1> QED BY <1>1, <1>3, <1>4

\* What a handler sends, if its medium is still there.
LEMMA Sends ==
    ASSUME NEW r \in Requests, req[r].pc \in Topics, req[r].id \in Owners, req[r].seq \in Nat,
           req[r].seq < Len(Chunks(r))
    PROVE  /\ Chunks(r) = Pieces(req[r].id, req[r].pc) /\ Chunks(r) # <<>>
           /\ Message(r) = Chunk(req[r].id, req[r].pc, req[r].seq)
           /\ req[r].seq \in 0..Len(Pieces(req[r].id, req[r].pc)) - 1
<1>1. Chunks(r) = <<>> \/ Chunks(r) = Pieces(req[r].id, req[r].pc)
  BY DEF Chunks, AtHome
<1>2. Chunks(r) # <<>>
  <2>1. ASSUME Chunks(r) = <<>>
        PROVE  FALSE
    BY <2>1
  <2> QED BY <2>1
<1>3. Len(Pieces(req[r].id, req[r].pc)) \in Nat
  BY PiecesType
<1> QED BY <1>1, <1>2, <1>3 DEF Message, Chunk
-----------------------------------------------------------------------------
(***************************************************************************)
(* What every step keeps.                                                  *)
(***************************************************************************)
Grows ==
    /\ log' \in [Topics -> Seq(Messages)]
    /\ \A t \in Topics : /\ Len(log[t]) <= Len(log'[t])
                         /\ \A k \in 1..Len(log[t]) : log'[t][k] = log[t][k]

\* A step that gives r the state v.
Step(r, v) ==
    /\ req' = [req EXCEPT ![r] = v] /\ v \in States
    /\ Grows /\ meta' \in Seq(Claims) /\ cut \subseteq cut'
    /\ documents \subseteq documents' /\ documents' \subseteq Documents
    /\ told \subseteq told' /\ told' \subseteq Documents
    /\ done \subseteq done' /\ done' \subseteq Sessions /\ held' \subseteq held
    /\ astray' \subseteq Sessions /\ pending' \subseteq Uploads /\ faults' \in 0..MaxFaults

LEMMA SameLogGrows ==
    ASSUME TypeOK, log' = log
    PROVE  Grows
BY DEF TypeOK, Grows

LEMMA PublishGrows ==
    ASSUME TypeOK, NEW r \in Requests, req[r].pc \in Topics, Message(r) \in Messages, Publish(r)
    PROVE  /\ Grows
           /\ \A t \in Topics : t # req[r].pc => log'[t] = log[t]
           /\ log'[req[r].pc] = Append(log[req[r].pc], Message(r))
           /\ Len(log'[req[r].pc]) = Len(log[req[r].pc]) + 1
           /\ log'[req[r].pc][Len(log[req[r].pc]) + 1] = Message(r)
           /\ Len(log[req[r].pc]) \in Nat
<1> DEFINE p == req[r].pc
<1>1. log \in [Topics -> Seq(Messages)] /\ p \in Topics /\ log' = [log EXCEPT ![p] = Append(@, Message(r))]
  BY DEF TypeOK, Publish
<1> HIDE DEF p
<1>2. log[p] \in Seq(Messages)
  BY <1>1
<1>3. /\ Append(log[p], Message(r)) \in Seq(Messages) /\ Len(log[p]) \in Nat
      /\ Len(Append(log[p], Message(r))) = Len(log[p]) + 1
      /\ \A k \in 1..Len(log[p]) : Append(log[p], Message(r))[k] = log[p][k]
      /\ Append(log[p], Message(r))[Len(log[p]) + 1] = Message(r)
  BY <1>2, AppendProperties
<1>4. /\ \A t \in Topics : t # p => log'[t] = log[t]
      /\ log'[p] = Append(log[p], Message(r))
      /\ log' \in [Topics -> Seq(Messages)]
  BY <1>1, <1>3
<1>5. Grows
  <2> SUFFICES ASSUME NEW t \in Topics
               PROVE  /\ Len(log[t]) <= Len(log'[t])
                      /\ \A k \in 1..Len(log[t]) : log'[t][k] = log[t][k]
    BY <1>4 DEF Grows
  <2>1. CASE t = p
    BY <1>3, <1>4, <2>1
  <2>2. CASE t # p
    <3>1. log[t] \in Seq(Messages) /\ log'[t] = log[t]
      BY <1>1, <1>4, <2>2
    <3> QED BY <3>1
  <2> QED BY <2>1, <2>2
<1> QED BY <1>3, <1>4, <1>5 DEF p

LEMMA CarriedStays ==
    ASSUME TypeOK, Grows, cut \subseteq cut', NEW t \in Topics
    PROVE  /\ \A b : Carried(t, b) => Carried(t, b)'
           /\ \A x : Delivered(t, x) => Delivered(t, x)'
<1>1. ASSUME NEW b, Carried(t, b)
      PROVE  Carried(t, b)'
  <2>1. PICK k \in 1..Len(log[t]) : b \in ToSet(log[t][k].data)
    BY <1>1 DEF Carried
  <2>2. log'[t][k] = log[t][k] /\ k \in 1..Len(log'[t])
    <3>1. Len(log[t]) \in Nat /\ Len(log'[t]) \in Nat
      BY DEF TypeOK, Grows
    <3> QED BY <3>1 DEF Grows
  <2> QED BY <2>1, <2>2 DEF Carried
<1> QED BY <1>1 DEF Delivered, OnTopic

LEMMA TypesGrow ==
    ASSUME NEW D, NEW E, D \subseteq E
    PROVE  \A a : TypesOf(D, a) \subseteq TypesOf(E, a)
BY DEF TypesOf

\* What is true of the other requests, of the messages sent and of the documents
\* on record stays true.
LEMMA Keeps ==
    ASSUME DeliveryInv, NEW r \in Requests, NEW v, Step(r, v)
    PROVE  /\ TypeOK' /\ req'[r] = v /\ \A q \in Requests : q # r => req'[q] = req[q]
           /\ \A t \in Topics : \A x : Delivered(t, x) => Delivered(t, x)'
           /\ \A t \in Topics : \A b : Carried(t, b) => Carried(t, b)'
<1>1. req \in [Requests -> States] /\ held \subseteq Sessions
  BY DEF DeliveryInv, TypeOK
<1>2. TypeOK'
  BY <1>1 DEF Step, Grows, TypeOK
<1>3. \A t \in Topics : \A x : Delivered(t, x) => Delivered(t, x)'
  BY CarriedStays DEF Step, DeliveryInv
<1>4. \A t \in Topics : \A b : Carried(t, b) => Carried(t, b)'
  BY CarriedStays DEF Step, DeliveryInv
<1> QED BY <1>1, <1>2, <1>3, <1>4 DEF Step

LEMMA OthersKeep ==
    ASSUME DeliveryInv, NEW r \in Requests, NEW v, Step(r, v), NEW q \in Requests, q # r
    PROVE  RequestInv(q)'
<1>1. RequestInv(q) /\ req'[q] = req[q] /\ \A t \in Topics : \A b : Carried(t, b) => Carried(t, b)'
  BY Keeps DEF DeliveryInv
<1>2. req'[q] = Idle \/ EndInv(q)' \/ DegreeInv(q)' \/ UploadInv(q)'
  <2>1. CASE req[q] = Idle
    BY <1>1, <2>1
  <2>2. CASE EndInv(q)
    <3>1. \A a : TypesOf(told, a) \subseteq TypesOf(told', a)
                 /\ TypesOf(documents, a) \subseteq TypesOf(documents', a)
      BY TypesGrow DEF Step
    <3> QED BY <1>1, <2>2, <3>1 DEF EndInv
  <2>3. CASE DegreeInv(q)
    BY <1>1, <2>3 DEF DegreeInv
  <2>4. CASE UploadInv(q)
    BY <1>1, <2>4 DEF UploadInv
  <2> QED BY <1>1, <2>1, <2>2, <2>3, <2>4 DEF RequestInv
<1>3. Chunks(q)' # <<>> => Chunks(q) # <<>>
  BY <1>1 DEF Chunks, AtHome, Step, Pieces, CutMedia
<1>7. req'[q].pc \notin Topics => req'[q].seq = 0
  BY <1>1 DEF RequestInv
<1>4. Document(q)' = Document(q) /\ documents \subseteq documents'
  BY <1>1 DEF Document, Step
<1>5. req[q].pc = "answer" => Document(q) \in documents
  BY <1>1 DEF RequestInv
<1>6. ASSUME req'[q].pc \in Topics, Chunks(q)' # <<>>, NEW i \in 1..SizeOf(req'[q].pc),
             i <= req'[q].seq * KAFKA_CHUNK_BYTES
      PROVE  \E k \in 1..Len(log'[req'[q].pc]) : <<req'[q].id, i>> \in ToSet(log'[req'[q].pc][k].data)
  <2>1. Carried(req[q].pc, <<req[q].id, i>>)
    BY <1>1, <1>3, <1>6 DEF RequestInv
  <2>2. \A t \in Topics : \A b : Carried(t, b) => \E k \in 1..Len(log'[t]) : b \in ToSet(log'[t][k].data)
    BY <1>1 DEF Carried
  <2> QED BY <1>1, <1>6, <2>1, <2>2
<1> QED BY <1>1, <1>2, <1>4, <1>5, <1>6, <1>7 DEF RequestInv, Carried
LEMMA MetaKeeps ==
    ASSUME DeliveryInv, NEW r \in Requests, NEW v, Step(r, v), meta' = meta
    PROVE  ClaimsAreAccurate' /\ MaterialPrecedesMeta'
<1>1. \A t \in Topics : \A x : Delivered(t, x) => Delivered(t, x)'
  BY Keeps
<1>2. \A a : TypesOf(documents, a) \subseteq TypesOf(documents', a)
  BY TypesGrow DEF Step
<1>3. ClaimsAreAccurate'
  BY <1>2 DEF ClaimsAreAccurate, DeliveryInv
<1>4. MaterialPrecedesMeta'
  <2> SUFFICES ASSUME NEW i \in 1..Len(meta)
               PROVE  /\ meta[i].worker = StartedAt[meta[i].session] =>
                            \A t \in {"audio", "video"} :
                               \A x : x = meta[i].session => Delivered(t, x)'
                      /\ "WORKEXP_VIDEO" \in meta[i].flags =>
                            \E u \in Uploads : UploadApp[u] = meta[i].app /\ Delivered("workexp", u)'
    BY DEF MaterialPrecedesMeta, Delivered, OnTopic, Carried
  <2> QED BY <1>1 DEF MaterialPrecedesMeta, DeliveryInv, Topics
<1> QED BY <1>3, <1>4

LEMMA VideosKeep ==
    ASSUME DeliveryInv, NEW r \in Requests, NEW v, Step(r, v), NEW d \in documents,
           d.doc_type = "WORKEXP_VIDEO"
    PROVE  \E u \in Uploads : UploadApp[u] = d.app /\ Delivered("workexp", u)'
<1>1. PICK u \in Uploads : UploadApp[u] = d.app /\ Delivered("workexp", u)
  BY DEF DeliveryInv, VideosOnRecord
<1> QED BY <1>1, Keeps DEF Topics

LEMMA DueOfOthers ==
    ASSUME DeliveryInv, NEW r \in Requests, NEW v, Step(r, v), NEW t \in Topics, NEW x \in Due(t)'
    PROVE  \/ x \in Due(t)
           \/ r \in Past(t)' /\ x = v.id
           \/ t # "workexp" /\ x \in (done' \ done) \cup (held \ held')
<1>1. req'[r] = v /\ \A q \in Requests : q # r => req'[q] = req[q]
  BY Keeps
<1>2. CASE \E q \in Past(t)' : x = req'[q].id
  <2>1. PICK q \in Requests : q \in Past(t)' /\ x = req'[q].id
    BY <1>2 DEF Past, AtHome
  <2>2. CASE q = r
    BY <1>1, <2>1, <2>2
  <2>3. CASE q # r
    <3>1. q \in Past(t) /\ x = req[q].id
      BY <1>1, <2>1, <2>3 DEF Past, AtHome
    <3> QED BY <3>1 DEF Due
  <2> QED BY <2>2, <2>3
<1>3. CASE t # "workexp" /\ x \in done' \cup (Sessions \ held')
  BY <1>3 DEF Due
<1> QED BY <1>2, <1>3 DEF Due

\* What is left to show of a step of r.
LEMMA Steps ==
    ASSUME DeliveryInv, NEW r \in Requests, NEW v, Step(r, v), RequestInv(r)',
           ClaimsAreAccurate' /\ MaterialPrecedesMeta', VideosOnRecord', told' \subseteq documents',
           \A t \in Topics : \A x : x \in Due(t)' => x \in Due(t) \/ Delivered(t, x)'
    PROVE  DeliveryInv'
<1>1. TypeOK' /\ \A t \in Topics : \A x : Delivered(t, x) => Delivered(t, x)'
  BY Keeps
<1>2. \A q \in Requests : RequestInv(q)'
  BY OthersKeep
<1>3. \A t \in Topics : \A x \in Due(t) : Delivered(t, x)
  BY DEF DeliveryInv
<1> QED BY <1>1, <1>2, <1>3 DEF DeliveryInv

\* A step that sends no meta message and records no document.
LEMMA QuietSteps ==
    ASSUME DeliveryInv, NEW r \in Requests, NEW v, Step(r, v), RequestInv(r)',
           meta' = meta, documents' = documents, told' = told,
           \A t \in Topics : \A x : x \in Due(t)' => x \in Due(t) \/ Delivered(t, x)'
    PROVE  DeliveryInv'
<1>1. VideosOnRecord'
  BY VideosKeep DEF VideosOnRecord
<1>2. told' \subseteq documents'
  BY DEF DeliveryInv
<1>3. ClaimsAreAccurate' /\ MaterialPrecedesMeta'
  BY MetaKeeps
<1> QED BY <1>1, <1>2, <1>3, Steps
-----------------------------------------------------------------------------
(***************************************************************************)
(* The steps of a request.                                                 *)
(***************************************************************************)
PCs == {"idle", "complete", "audio", "video", "meta", "cleanup", "commit",
        "check", "workexp", "insert", "answer"}

LEMMA Facts ==
    ASSUME DeliveryInv, NEW r \in Requests
    PROVE  /\ TypeOK /\ req \in [Requests -> States] /\ req[r] \in States /\ RequestInv(r)
           /\ req[r].pc \in PCs /\ req[r].seq \in Nat
           /\ req[r].pc # "idle" => EndInv(r) \/ DegreeInv(r) \/ UploadInv(r)
           /\ documents \subseteq Documents /\ told \subseteq Documents /\ meta \in Seq(Claims)
           /\ done \subseteq Sessions /\ held \subseteq Sessions /\ astray \subseteq Sessions
           /\ pending \subseteq Uploads
           /\ faults \in 0..MaxFaults
<1>1. /\ TypeOK /\ req \in [Requests -> States] /\ RequestInv(r)
      /\ documents \subseteq Documents /\ told \subseteq Documents /\ meta \in Seq(Claims)
      /\ done \subseteq Sessions /\ held \subseteq Sessions /\ astray \subseteq Sessions
      /\ pending \subseteq Uploads
      /\ faults \in 0..MaxFaults
  BY DEF DeliveryInv, TypeOK
<1>2. req[r] \in States
  BY <1>1
<1>3. req[r].pc \in PCs /\ req[r].seq \in Nat
  BY <1>2 DEF States, PCs
<1>4. req[r].pc # "idle" => EndInv(r) \/ DegreeInv(r) \/ UploadInv(r)
  BY <1>1 DEF RequestInv, Idle
<1> QED BY <1>1, <1>2, <1>3, <1>4

LEMMA IdleType == Idle \in States /\ Idle.pc = "idle" /\ Idle.seq = 0
BY DEF Idle, States

LEMMA FaultType ==
    ASSUME faults \in 0..MaxFaults, Fault
    PROVE  faults' \in 0..MaxFaults
BY BoundsAssumption DEF Fault

\* A step that only moves r.
LEMMA QuietStep ==
    ASSUME DeliveryInv, NEW r \in Requests, NEW v \in States, req' = [req EXCEPT ![r] = v],
           log' = log, meta' = meta, documents' = documents, told' = told, cut' = cut, done' = done,
           astray' = astray, held' = held, pending' \subseteq pending, faults' \in 0..MaxFaults
    PROVE  Step(r, v)
<1>1. TypeOK /\ meta \in Seq(Claims) /\ documents \subseteq Documents /\ told \subseteq Documents
      /\ done \subseteq Sessions /\ astray \subseteq Sessions /\ pending \subseteq Uploads
  BY Facts
<1>2. Grows
  BY <1>1, SameLogGrows
<1> QED BY <1>1, <1>2 DEF Step

\* A request that answers leaves nothing to show.
LEMMA Answers ==
    ASSUME DeliveryInv, NEW r \in Requests, Step(r, Idle), meta' = meta,
           documents' = documents, told' = told, done' = done, held' = held
    PROVE  DeliveryInv'
<1>1. req'[r] = Idle
  BY Keeps
<1>2. RequestInv(r)'
  BY <1>1, IdleType DEF RequestInv, Topics
<1>3. ASSUME NEW t \in Topics, NEW x, x \in Due(t)'
      PROVE  x \in Due(t) \/ Delivered(t, x)'
  <2>1. r \notin Past(t)'
    BY <1>1, IdleType DEF Past, AtHome
  <2> QED BY <1>3, <2>1, DueOfOthers
<1> QED BY <1>2, <1>3, QuietSteps

\* A request that moves to a place that is behind no topic.
LEMMA Begins ==
    ASSUME DeliveryInv, NEW r \in Requests, NEW v, Step(r, v), RequestInv(r)', meta' = meta,
           documents' = documents, told' = told, done' = done, held' = held,
           \/ v.pc \in {"complete", "audio", "check", "workexp"}
           \/ v.kind = "DEGREE"
    PROVE  DeliveryInv'
<1>1. req'[r] = v
  BY Keeps
<1>2. ASSUME NEW t \in Topics, NEW x, x \in Due(t)'
      PROVE  x \in Due(t) \/ Delivered(t, x)'
  <2>1. r \notin Past(t)'
    BY <1>1 DEF Past, AtHome
  <2> QED BY <1>2, <2>1, DueOfOthers
<1> QED BY <1>2, QuietSteps

LEMMA EndLoadKeeps ==
    ASSUME DeliveryInv, NEW r \in Requests, NEW s \in Sessions, NEW w \in Workers, EndLoad(r, s, w)
    PROVE  DeliveryInv'
<1> DEFINE v == [Idle EXCEPT !.pc = "complete", !.kind = "end", !.id = s, !.app = AppOf[s],
                             !.worker = w, !.knew = TypesOf(told, AppOf[s])]
<1>1. TypesOf(told, AppOf[s]) \subseteq DocTypes /\ AppOf[s] \in Apps
  BY Facts, OwnersAssumption DEF TypesOf, Documents
<1>2. /\ v \in States /\ v.pc = "complete" /\ v.kind = "end" /\ v.id = s /\ v.app = AppOf[s]
      /\ v.seq = 0 /\ v.worker = w /\ v.knew = TypesOf(told, AppOf[s])
  BY <1>1 DEF Idle, States
<1>3. req' = [req EXCEPT ![r] = v]
  BY DEF EndLoad
<1> HIDE DEF v
<1>4. Step(r, v)
  BY <1>2, <1>3, Facts, QuietStep DEF EndLoad, kafka, history
<1>5. req'[r] = v /\ told' = told
  BY <1>4, Keeps DEF EndLoad, history
<1>6. RequestInv(r)'
  BY <1>2, <1>5 DEF RequestInv, EndInv, Topics
<1> QED BY <1>2, <1>4, <1>6, Begins DEF EndLoad, kafka, history

LEMMA EndDocumentsKeeps ==
    ASSUME DeliveryInv, NEW r \in Requests, EndDocuments(r)
    PROVE  DeliveryInv'
<1> DEFINE flags == TypesOf(documents, req[r].app)
           v == [req[r] EXCEPT !.flags = flags, !.pc = "audio"]
<1>1. flags \subseteq DocTypes
  BY Facts DEF TypesOf, Documents
<1>2. /\ v \in States /\ v.pc = "audio" /\ v.kind = req[r].kind /\ v.id = req[r].id
      /\ v.app = req[r].app /\ v.worker = req[r].worker /\ v.seq = req[r].seq
      /\ v.knew = req[r].knew /\ v.flags = flags
  BY <1>1, Facts DEF States
<1>3. req' = [req EXCEPT ![r] = v]
  BY Facts DEF EndDocuments
<1> HIDE DEF v
<1>4. Step(r, v)
  BY <1>2, <1>3, Facts, QuietStep DEF EndDocuments, kafka, history
<1>5. req'[r] = v /\ told' = told /\ documents' = documents
  BY <1>4, Keeps DEF EndDocuments, history
<1>6. EndInv(r) /\ req[r].seq = 0
  BY Facts DEF EndDocuments, RequestInv, DegreeInv, UploadInv, Topics
<1>7. req[r].knew \subseteq flags
  <2>1. TypesOf(told, req[r].app) \subseteq flags
    BY TypesGrow DEF DeliveryInv
  <2> QED BY <1>6, <2>1 DEF EndInv
<1>8. EndInv(r)'
  BY <1>2, <1>5, <1>6, <1>7 DEF EndInv
<1>9. RequestInv(r)'
  <2>1. KAFKA_CHUNK_BYTES \in Nat /\ 0 * KAFKA_CHUNK_BYTES = 0
    BY SizesAssumption
  <2>2. SizeOf("audio") \in Nat
    BY SizesAssumption DEF SizeOf
  <2> QED BY <1>2, <1>5, <1>6, <1>8, <2>1, <2>2 DEF RequestInv
<1> QED BY <1>2, <1>4, <1>9, Begins DEF EndDocuments, kafka, history
\* Where Move puts r.
Moved(r, pc) == [req[r] EXCEPT !.pc = pc, !.seq = 0]

LEMMA MoveType ==
    ASSUME DeliveryInv, NEW r \in Requests, NEW pc \in PCs, Move(r, pc)
    PROVE  /\ Moved(r, pc) \in States /\ req' = [req EXCEPT ![r] = Moved(r, pc)]
           /\ Moved(r, pc).pc = pc /\ Moved(r, pc).seq = 0 /\ Moved(r, pc).kind = req[r].kind
           /\ Moved(r, pc).id = req[r].id /\ Moved(r, pc).app = req[r].app
           /\ Moved(r, pc).knew = req[r].knew /\ Moved(r, pc).worker = req[r].worker
           /\ Moved(r, pc).flags = req[r].flags
BY Facts DEF Moved, States, PCs, Move

\* A moved request has sent nothing of the next topic, if it comes to one.
LEMMA MovedInv ==
    ASSUME DeliveryInv, NEW r \in Requests, NEW pc \in PCs, Move(r, pc), Step(r, Moved(r, pc)),
           EndInv(r)' \/ DegreeInv(r)' \/ UploadInv(r)', pc # "answer"
    PROVE  RequestInv(r)'
<1>1. req'[r] = Moved(r, pc) /\ req'[r].pc = pc /\ req'[r].seq = 0
  BY Keeps, MoveType
<1>2. \A t \in Topics : \A i \in 1..SizeOf(t) : ~(i <= 0 * KAFKA_CHUNK_BYTES)
  <2>1. \A t \in Topics : SizeOf(t) \in Nat
    BY SizesAssumption DEF SizeOf, Topics
  <2>2. 0 * KAFKA_CHUNK_BYTES = 0
    BY SizesAssumption
  <2> QED BY <2>1, <2>2
<1> QED BY <1>1, <1>2 DEF RequestInv

\* A move of a request, when the topic that it leaves behind has its medium.
LEMMA MovesKeep ==
    ASSUME DeliveryInv, NEW r \in Requests, NEW pc \in PCs, Move(r, pc), Step(r, Moved(r, pc)),
           EndInv(r)' \/ DegreeInv(r)' \/ UploadInv(r)', pc # "answer",
           meta' = meta, documents' = documents, told' = told, done' = done,
           held \ held' \subseteq {req[r].id},
           held' = held \/ (r \in Past("audio") /\ r \in Past("video")),
           \A t \in Topics : \A x : x = req[r].id /\ r \in Past(t)' /\ r \notin Past(t) => Delivered(t, x)'
    PROVE  DeliveryInv'
<1>1. req'[r] = Moved(r, pc) /\ Moved(r, pc).id = req[r].id
  BY Keeps, MoveType
<1>2. ASSUME NEW t \in Topics, NEW x, x \in Due(t)'
      PROVE  x \in Due(t) \/ Delivered(t, x)'
  <2>1. CASE r \in Past(t)' /\ x = Moved(r, pc).id
    <3>1. CASE r \in Past(t)
      BY <1>1, <2>1, <3>1 DEF Due
    <3>2. CASE r \notin Past(t)
      BY <1>1, <2>1, <3>2
    <3> QED BY <3>1, <3>2
  <2>2. CASE t # "workexp" /\ x \in (done' \ done) \cup (held \ held')
    <3>1. x = req[r].id /\ r \in Past(t)
      BY <2>2 DEF Topics
    <3> QED BY <3>1 DEF Due
  <2> QED BY <1>2, <2>1, <2>2, DueOfOthers
<1>3. RequestInv(r)'
  BY MovedInv
<1> QED BY <1>2, <1>3, QuietSteps
\* The end request stays an end request while it moves.
LEMMA MovedEnd ==
    ASSUME DeliveryInv, NEW r \in Requests, EndInv(r), req[r].pc # "complete",
           NEW pc \in {"video", "meta", "cleanup", "commit"},
           Move(r, pc), Step(r, Moved(r, pc))
    PROVE  EndInv(r)'
<1>1. req'[r] = Moved(r, pc) /\ pc \in PCs
  BY Keeps DEF PCs
<1>2. \A a : TypesOf(told, a) \subseteq TypesOf(told', a)
             /\ TypesOf(documents, a) \subseteq TypesOf(documents', a)
  BY TypesGrow DEF Step
<1> QED BY <1>1, <1>2, MoveType DEF EndInv

LEMMA MetaOf ==
    ASSUME DeliveryInv, NEW r \in Requests, req[r].pc = "meta"
    PROVE  /\ EndInv(r) /\ Meta(r) \in Claims
           /\ Meta(r).knew \subseteq Meta(r).flags
           /\ Meta(r).flags \subseteq TypesOf(documents, Meta(r).app)
           /\ Meta(r).worker = StartedAt[Meta(r).session] =>
                 \A t \in {"audio", "video"} : Delivered(t, Meta(r).session)
           /\ "WORKEXP_VIDEO" \in Meta(r).flags =>
                 \E u \in Uploads : UploadApp[u] = Meta(r).app /\ Delivered("workexp", u)
<1>1. EndInv(r) /\ req[r] \in States
  BY Facts DEF DegreeInv, UploadInv
<1>2. /\ Meta(r).session = req[r].id /\ Meta(r).app = req[r].app
      /\ Meta(r).flags = req[r].flags /\ Meta(r).knew = req[r].knew
      /\ Meta(r).worker = req[r].worker
  BY DEF Meta
<1>3. Meta(r) \in Claims
  <2>1. req[r].app \in Apps
    BY <1>1, OwnersAssumption DEF EndInv
  <2> QED BY <1>1, <2>1 DEF EndInv, Meta, Claims, States
<1>4. AtHome(r) => \A t \in {"audio", "video"} : Delivered(t, req[r].id)
  <2>1. AtHome(r) => \A t \in {"audio", "video"} : req[r].id \in Due(t)
    BY <1>1 DEF Due, Past, AtHome, EndInv
  <2> QED BY <2>1 DEF DeliveryInv, Topics
<1>5. ASSUME "WORKEXP_VIDEO" \in req[r].flags
      PROVE  \E u \in Uploads : UploadApp[u] = req[r].app /\ Delivered("workexp", u)
  <2>1. "WORKEXP_VIDEO" \in TypesOf(documents, req[r].app)
    BY <1>1, <1>5 DEF EndInv
  <2>2. PICK d \in documents : d.app = req[r].app /\ d.doc_type = "WORKEXP_VIDEO"
    BY <2>1 DEF TypesOf
  <2> QED BY <2>2 DEF DeliveryInv, VideosOnRecord
<1> QED BY <1>1, <1>2, <1>3, <1>4, <1>5 DEF EndInv, AtHome

LEMMA SendMetaKeeps ==
    ASSUME DeliveryInv, NEW r \in Requests, SendMeta(r) \/ SendMetaFails(r)
    PROVE  DeliveryInv'
<1>1. /\ req[r].pc = "meta" /\ Move(r, "cleanup")
      /\ meta' = Append(meta, Meta(r)) \/ meta' = meta
      /\ faults' \in 0..MaxFaults
      /\ log' = log /\ documents' = documents /\ done' = done
      /\ astray' = astray /\ held' = held /\ pending' = pending
      /\ told' = told /\ cut' = cut
  <2>1. faults' = faults \/ Fault
    BY DEF SendMeta, SendMetaFails
  <2>2. faults' \in 0..MaxFaults
    BY <2>1, Facts, FaultType
  <2> QED BY <2>2 DEF SendMeta, SendMetaFails, history
<1>2. "cleanup" \in PCs /\ EndInv(r) /\ meta \in Seq(Claims) /\ Meta(r) \in Claims
  BY <1>1, Facts, MetaOf DEF PCs
<1>3. meta' \in Seq(Claims)
  BY <1>1, <1>2
<1>4. Step(r, Moved(r, "cleanup"))
  <2>1. Moved(r, "cleanup") \in States /\ req' = [req EXCEPT ![r] = Moved(r, "cleanup")]
    BY <1>1, <1>2, MoveType
  <2> QED BY <1>1, <1>3, <2>1, SameLogGrows, Facts DEF Step
<1>5. EndInv(r)'
  BY <1>1, <1>2, <1>4, MovedEnd
<1>8. \A t \in Topics : r \in Past(t)' => r \in Past(t)
  <2>1. req'[r] = Moved(r, "cleanup") /\ req'[r].kind = "end" /\ req'[r].worker = req[r].worker
        /\ req'[r].id = req[r].id /\ req[r].kind = "end"
    BY <1>1, <1>2, <1>4, Keeps, MoveType DEF EndInv
  <2> QED BY <1>1, <2>1 DEF Past, AtHome
<1>6. CASE meta' = meta
  BY <1>1, <1>2, <1>4, <1>5, <1>6, <1>8, MovesKeep
<1>7. CASE meta' = Append(meta, Meta(r))
  <2>1. /\ Len(meta') = Len(meta) + 1 /\ Len(meta) \in Nat /\ meta'[Len(meta) + 1] = Meta(r)
        /\ \A i \in 1..Len(meta) : meta'[i] = meta[i]
    BY <1>2, <1>7
  <2>2. \A t \in Topics : \A x : Delivered(t, x) => Delivered(t, x)'
    BY <1>4, Keeps
  <2>3. \A i \in 1..Len(meta') : i \in 1..Len(meta) \/ meta'[i] = Meta(r)
    BY <2>1
  <2>4. ClaimsAreAccurate'
    BY <1>1, <2>1, <2>3, MetaOf DEF ClaimsAreAccurate, DeliveryInv
  <2>5. MaterialPrecedesMeta'
    <3> SUFFICES ASSUME NEW i \in 1..Len(meta')
                 PROVE  /\ meta'[i].worker = StartedAt[meta'[i].session] =>
                              \A t \in {"audio", "video"} :
                                 \A x : x = meta'[i].session => Delivered(t, x)'
                        /\ "WORKEXP_VIDEO" \in meta'[i].flags =>
                              \E u \in Uploads : UploadApp[u] = meta'[i].app /\ Delivered("workexp", u)'
      BY DEF MaterialPrecedesMeta, Delivered, OnTopic, Carried
    <3>1. CASE i \in 1..Len(meta)
      BY <2>1, <2>2, <3>1 DEF MaterialPrecedesMeta, DeliveryInv, Topics
    <3>2. CASE meta'[i] = Meta(r)
      BY <1>1, <2>2, <3>2, MetaOf DEF Topics
    <3> QED BY <2>3, <3>1, <3>2
  <2>6. RequestInv(r)'
    BY <1>1, <1>2, <1>4, <1>5, MovedInv
  <2>7. ASSUME NEW t \in Topics, NEW x, x \in Due(t)'
        PROVE  x \in Due(t) \/ Delivered(t, x)'
    <3>1. req'[r] = Moved(r, "cleanup") /\ Moved(r, "cleanup").id = req[r].id
      BY <1>1, <1>2, <1>4, Keeps, MoveType
    <3>3. x \in Due(t) \/ (r \in Past(t)' /\ x = req[r].id)
      BY <1>1, <1>4, <2>7, <3>1, DueOfOthers
    <3> QED BY <1>8, <3>3 DEF Due
  <2>8. VideosOnRecord' /\ told' \subseteq documents'
    BY <1>1, <1>4, VideosKeep DEF VideosOnRecord, DeliveryInv
  <2> QED BY <1>4, <2>4, <2>5, <2>6, <2>7, <2>8, Steps
<1> QED BY <1>1, <1>6, <1>7

LEMMA EndCleanupKeeps ==
    ASSUME DeliveryInv, NEW r \in Requests, EndCleanup(r)
    PROVE  DeliveryInv'
<1>1. /\ req[r].pc = "cleanup" /\ Move(r, "commit")
      /\ held' = held \/ (AtHome(r) /\ held' = held \ {req[r].id})
      /\ log' = log /\ meta' = meta /\ documents' = documents
      /\ done' = done /\ astray' = astray /\ pending' = pending
      /\ told' = told /\ cut' = cut /\ faults' = faults
  BY DEF EndCleanup, kafka, history
<1>2. "commit" \in PCs /\ EndInv(r)
  BY <1>1, Facts DEF PCs, DegreeInv, UploadInv
<1>3. Step(r, Moved(r, "commit"))
  <2>1. Moved(r, "commit") \in States /\ req' = [req EXCEPT ![r] = Moved(r, "commit")]
    BY <1>1, <1>2, MoveType
  <2> QED BY <1>1, <2>1, SameLogGrows, Facts DEF Step
<1>4. EndInv(r)'
  BY <1>1, <1>2, <1>3, MovedEnd
<1>5. /\ AtHome(r) => r \in Past("audio") /\ r \in Past("video")
      /\ \A t \in Topics : r \in Past(t)' => r \in Past(t)
  <2>1. req'[r] = Moved(r, "commit") /\ req'[r].kind = "end" /\ req'[r].worker = req[r].worker
        /\ req'[r].id = req[r].id /\ req[r].kind = "end"
    BY <1>1, <1>2, <1>3, Keeps, MoveType DEF EndInv
  <2> QED BY <1>1, <2>1 DEF Past, AtHome
<1>6. held \ held' \subseteq {req[r].id}
  BY <1>1
<1> QED BY <1>1, <1>2, <1>3, <1>4, <1>5, <1>6, MovesKeep

LEMMA EndCommitKeeps ==
    ASSUME DeliveryInv, NEW r \in Requests, EndCommit(r)
    PROVE  DeliveryInv'
<1>1. /\ req[r].pc = "commit" /\ req[r].kind = "end" /\ req' = [req EXCEPT ![r] = Idle]
      /\ done' = done \/ (AtHome(r) /\ done' = done \cup {req[r].id})
      /\ astray' \in {astray, astray \cup {req[r].id}}
      /\ log' = log /\ meta' = meta /\ documents' = documents /\ held' = held /\ pending' = pending
      /\ told' = told /\ cut' = cut /\ faults' = faults
  BY DEF EndCommit, Answer, kafka, history
<1>2. EndInv(r)
  BY <1>1, Facts DEF DegreeInv, UploadInv
<1>3. Step(r, Idle)
  BY <1>1, <1>2, IdleType, SameLogGrows, Facts DEF Step, EndInv
<1>4. req'[r] = Idle
  BY <1>3, Keeps
<1>5. RequestInv(r)'
  BY <1>4, IdleType DEF RequestInv, Topics
<1>6. ASSUME NEW t \in Topics, NEW x, x \in Due(t)'
      PROVE  x \in Due(t) \/ Delivered(t, x)'
  <2>1. r \notin Past(t)'
    BY <1>4, IdleType DEF Past, AtHome
  <2>2. CASE t # "workexp" /\ x \in (done' \ done) \cup (held \ held')
    <3>1. x = req[r].id /\ r \in Past(t)
      BY <1>1, <2>2 DEF Past, AtHome, Topics
    <3> QED BY <3>1 DEF Due
  <2> QED BY <1>3, <1>6, <2>1, <2>2, DueOfOthers
<1> QED BY <1>1, <1>3, <1>5, <1>6, QuietSteps
LEMMA DegreeCheckKeeps ==
    ASSUME DeliveryInv, NEW r \in Requests, NEW a \in Apps, DegreeCheck(r, a)
    PROVE  DeliveryInv'
<1> DEFINE v == [Idle EXCEPT !.pc = "check", !.kind = "DEGREE", !.app = a]
<1>1. v \in States /\ v.pc = "check" /\ v.kind = "DEGREE" /\ v.app = a /\ v.seq = 0
  BY DEF Idle, States, DocTypes
<1>2. req' = [req EXCEPT ![r] = v]
  BY DEF DegreeCheck
<1> HIDE DEF v
<1>3. Step(r, v)
  BY <1>1, <1>2, Facts, QuietStep DEF DegreeCheck, kafka, history
<1>4. req'[r] = v
  BY <1>3, Keeps
<1>5. RequestInv(r)'
  BY <1>1, <1>4 DEF RequestInv, DegreeInv, Topics
<1> QED BY <1>1, <1>3, <1>5, Begins DEF DegreeCheck, kafka, history

LEMMA UploadAssembledKeeps ==
    ASSUME DeliveryInv, NEW r \in Requests, NEW u \in Uploads, UploadAssembled(r, u)
    PROVE  DeliveryInv'
<1> DEFINE v == [Idle EXCEPT !.pc = "workexp", !.kind = "WORKEXP_VIDEO", !.id = u,
                             !.app = UploadApp[u]]
<1>1. /\ v \in States /\ v.pc = "workexp" /\ v.kind = "WORKEXP_VIDEO" /\ v.id = u
      /\ v.app = UploadApp[u] /\ v.seq = 0
  BY OwnersAssumption DEF Idle, States, DocTypes
<1>2. req' = [req EXCEPT ![r] = v] /\ pending' \subseteq pending
  BY DEF UploadAssembled
<1> HIDE DEF v
<1>3. Step(r, v)
  BY <1>1, <1>2, Facts, QuietStep DEF UploadAssembled, kafka, history
<1>4. req'[r] = v
  BY <1>3, Keeps
<1>5. UploadInv(r)'
  BY <1>1, <1>4 DEF UploadInv
<1>6. RequestInv(r)'
  <2>1. 0 * KAFKA_CHUNK_BYTES = 0 /\ SizeOf("workexp") \in Nat
    BY SizesAssumption DEF SizeOf
  <2> QED BY <1>1, <1>4, <1>5, <2>1 DEF RequestInv
<1> QED BY <1>1, <1>3, <1>6, Begins DEF UploadAssembled, kafka, history

\* The document requests stay what they are while they move.
LEMMA MovedDocument ==
    ASSUME DeliveryInv, NEW r \in Requests, DegreeInv(r) \/ UploadInv(r),
           NEW pc \in {"insert", "commit", "answer"}, Move(r, pc), Step(r, Moved(r, pc))
    PROVE  DegreeInv(r)' \/ UploadInv(r)'
<1>1. req'[r] = Moved(r, pc) /\ pc \in PCs
  BY Keeps DEF PCs
<1>2. CASE DegreeInv(r)
  BY <1>1, <1>2, MoveType DEF DegreeInv
<1>3. CASE UploadInv(r)
  BY <1>1, <1>3, MoveType DEF UploadInv
<1> QED BY <1>2, <1>3

LEMMA MovedStep ==
    ASSUME DeliveryInv, NEW r \in Requests, NEW pc \in PCs, Move(r, pc),
           log' = log, meta' = meta, documents' = documents, told' = told, cut' = cut, done' = done,
           astray' = astray, held' = held, pending' = pending, faults' = faults
    PROVE  Step(r, Moved(r, pc))
BY MoveType, QuietStep, Facts

LEMMA DocumentMoves ==
    ASSUME DeliveryInv, NEW r \in Requests, DegreeSave(r) \/ InsertDocument(r)
    PROVE  DeliveryInv'
<1>1. PICK pc \in {"insert", "commit"} :
         /\ Move(r, pc) /\ req[r].pc = (IF pc = "insert" THEN "check" ELSE "insert")
         /\ log' = log /\ meta' = meta /\ documents' = documents /\ told' = told /\ cut' = cut
         /\ done' = done /\ astray' = astray /\ held' = held /\ pending' = pending /\ faults' = faults
  BY DEF DegreeSave, InsertDocument, kafka, history
<1>2. pc \in PCs /\ pc # "answer" /\ (DegreeInv(r) \/ UploadInv(r))
  BY <1>1, Facts DEF PCs, EndInv
<1>3. Step(r, Moved(r, pc))
  BY <1>1, MovedStep DEF PCs
<1>4. DegreeInv(r)' \/ UploadInv(r)'
  BY <1>1, <1>2, <1>3, MovedDocument
<1>5. \A t \in Topics : r \in Past(t)' => r \in Past(t)
  <2>1. req'[r] = Moved(r, pc)
    BY <1>3, Keeps
  <2> QED BY <1>1, <1>2, <2>1, MoveType DEF Past, AtHome, PCs, DegreeInv, UploadInv
<1>6. /\ held \ held' \subseteq {req[r].id} /\ held' = held /\ Move(r, pc)
      /\ meta' = meta /\ documents' = documents /\ told' = told /\ done' = done
  BY <1>1
<1>7. \A t \in Topics : \A x : x = req[r].id /\ r \in Past(t)' /\ r \notin Past(t) => Delivered(t, x)'
  BY <1>5
<1>8. EndInv(r)' \/ DegreeInv(r)' \/ UploadInv(r)'
  BY <1>4
<1>9. pc \in PCs /\ pc # "answer"
  BY <1>2
<1> QED BY ONLY DeliveryInv, r \in Requests, <1>3, <1>6, <1>7, <1>8, <1>9, MovesKeep

LEMMA RequestFails ==
    ASSUME DeliveryInv, NEW r \in Requests, InsertDocumentFails(r) \/ Fail(r)
    PROVE  DeliveryInv'
<1>1. /\ req' = [req EXCEPT ![r] = Idle] /\ Fault
      /\ log' = log /\ meta' = meta /\ documents' = documents /\ told' = told /\ cut' = cut
      /\ done' = done /\ astray' = astray /\ held' = held /\ pending' = pending
  BY DEF InsertDocumentFails, Fail, Answer, kafka, history
<1>2. faults' \in 0..MaxFaults
  BY <1>1, Facts, FaultType
<1>3. Step(r, Idle)
  BY <1>1, <1>2, Facts, IdleType, QuietStep
<1> QED BY <1>1, <1>3, Answers

LEMMA DocumentType ==
    ASSUME DeliveryInv, NEW r \in Requests, req[r].kind \in DocTypes, req[r].pc # "idle"
    PROVE  Document(r) \in Documents /\ (DegreeInv(r) \/ UploadInv(r))
<1>1. DegreeInv(r) \/ UploadInv(r)
  BY Facts DEF EndInv, DocTypes
<1>2. req[r].app \in Apps
  BY <1>1, OwnersAssumption DEF DegreeInv, UploadInv
<1> QED BY <1>1, <1>2 DEF Document, Documents

LEMMA DocumentCommitKeeps ==
    ASSUME DeliveryInv, NEW r \in Requests, DocumentCommit(r)
    PROVE  DeliveryInv'
<1>1. /\ req[r].pc = "commit" /\ req[r].kind \in DocTypes /\ Move(r, "answer")
      /\ documents' = documents \cup {Document(r)}
      /\ log' = log /\ meta' = meta /\ told' = told /\ cut' = cut
      /\ done' = done /\ astray' = astray /\ held' = held /\ pending' = pending /\ faults' = faults
  BY DEF DocumentCommit, kafka, history
<1>2. "answer" \in PCs /\ Document(r) \in Documents /\ (DegreeInv(r) \/ UploadInv(r))
  BY <1>1, DocumentType DEF PCs
<1>3. Step(r, Moved(r, "answer"))
  <2>1. Moved(r, "answer") \in States /\ req' = [req EXCEPT ![r] = Moved(r, "answer")]
    BY <1>1, <1>2, MoveType
  <2> QED BY <1>1, <1>2, <2>1, SameLogGrows, Facts DEF Step
<1>5. /\ req'[r].pc = "answer" /\ req'[r].seq = 0 /\ req'[r].kind = req[r].kind
      /\ req'[r].id = req[r].id /\ req'[r].app = req[r].app
  BY <1>1, <1>2, <1>3, Keeps, MoveType
<1>6. RequestInv(r)'
  <2>1. Document(r)' \in documents'
    BY <1>1, <1>5 DEF Document
  <2> QED BY <1>1, <1>2, <1>3, <1>5, <2>1, MovedDocument DEF RequestInv, Topics
<1>7. \A t \in Topics : r \in Past(t)' => r \in Past(t)
  BY <1>1, <1>2, <1>5 DEF Past, AtHome, DegreeInv, UploadInv
<1>8. ASSUME NEW t \in Topics, NEW x, x \in Due(t)'
      PROVE  x \in Due(t) \/ Delivered(t, x)'
  <2>1. x \in Due(t) \/ (r \in Past(t)' /\ x = req[r].id)
    BY <1>1, <1>2, <1>3, <1>8, DueOfOthers, MoveType
  <2> QED BY <1>7, <2>1 DEF Due
<1>9. VideosOnRecord'
  <2> SUFFICES ASSUME NEW d \in documents', d.doc_type = "WORKEXP_VIDEO"
               PROVE  \E u \in Uploads : UploadApp[u] = d.app /\ Delivered("workexp", u)'
    BY DEF VideosOnRecord
  <2>1. CASE d \in documents
    BY <1>3, <2>1, VideosKeep
  <2>2. CASE d = Document(r)
    <3>1. UploadInv(r)
      BY <1>2, <2>2 DEF Document, DegreeInv
    <3>2. req[r].id \in Due("workexp")
      BY <1>1, <3>1 DEF Due, Past, AtHome, UploadInv
    <3>3. Delivered("workexp", req[r].id)
      BY <3>2 DEF DeliveryInv, Topics
    <3>4. \A x : Delivered("workexp", x) => Delivered("workexp", x)'
      BY <1>3, Keeps DEF Topics
    <3>5. PICK u \in Uploads : u = req[r].id
      BY <3>1 DEF UploadInv
    <3> QED BY <2>2, <3>1, <3>3, <3>4, <3>5 DEF Document, UploadInv
  <2> QED BY <1>1, <2>1, <2>2
<1>10. told' \subseteq documents'
  BY <1>1 DEF DeliveryInv
<1>11. ClaimsAreAccurate' /\ MaterialPrecedesMeta'
  BY <1>1, <1>3, MetaKeeps
<1> QED BY <1>3, <1>6, <1>8, <1>9, <1>10, <1>11, Steps

LEMMA DocumentAnswerKeeps ==
    ASSUME DeliveryInv, NEW r \in Requests, DocumentAnswer(r)
    PROVE  DeliveryInv'
<1>1. /\ req[r].pc = "answer" /\ req' = [req EXCEPT ![r] = Idle] /\ told' = told \cup {Document(r)}
      /\ log' = log /\ meta' = meta /\ documents' = documents /\ cut' = cut
      /\ done' = done /\ astray' = astray /\ held' = held /\ pending' = pending /\ faults' = faults
  BY DEF DocumentAnswer, Answer, kafka, history
<1>2. Document(r) \in documents
  BY <1>1, Facts DEF RequestInv
<1>3. Step(r, Idle)
  BY <1>1, <1>2, IdleType, SameLogGrows, Facts DEF Step
<1>4. req'[r] = Idle
  BY <1>3, Keeps
<1>5. RequestInv(r)'
  BY <1>4, IdleType DEF RequestInv, Topics
<1>6. ASSUME NEW t \in Topics, NEW x, x \in Due(t)'
      PROVE  x \in Due(t) \/ Delivered(t, x)'
  <2>1. r \notin Past(t)'
    BY <1>4, IdleType DEF Past, AtHome
  <2> QED BY <1>1, <1>3, <1>6, <2>1, DueOfOthers
<1>7. VideosOnRecord' /\ told' \subseteq documents'
  BY <1>1, <1>2, <1>3, VideosKeep DEF VideosOnRecord, DeliveryInv
<1>8. ClaimsAreAccurate' /\ MaterialPrecedesMeta'
  BY <1>1, <1>3, MetaKeeps
<1> QED BY <1>3, <1>5, <1>6, <1>7, <1>8, Steps
\* The handler that sends on a topic.
LEMMA SenderFacts ==
    ASSUME DeliveryInv, NEW r \in Requests, req[r].pc \in Topics
    PROVE  /\ req[r].id \in Owners /\ req[r].seq \in Nat
           /\ \/ EndInv(r) /\ req[r].id \in Sessions /\ req[r].pc \in {"audio", "video"}
              \/ UploadInv(r) /\ req[r].pc = "workexp"
<1>1. EndInv(r) \/ UploadInv(r)
  BY Facts DEF DegreeInv, Topics
<1> QED BY <1>1, Facts DEF EndInv, UploadInv, Topics, Owners

LEMMA ProduceChunkKeeps ==
    ASSUME DeliveryInv, NEW r \in Requests, ProduceChunk(r)
    PROVE  DeliveryInv'
<1> DEFINE p == req[r].pc
           v == [req[r] EXCEPT !.seq = @ + 1]
<1>1. /\ p \in Topics /\ req[r].seq < Len(Chunks(r)) /\ Publish(r)
      /\ meta' = meta /\ documents' = documents /\ told' = told /\ cut' = cut
      /\ done' = done /\ astray' = astray /\ held' = held /\ pending' = pending /\ faults' = faults
  BY DEF ProduceChunk, history
<1>2. /\ v \in States /\ req' = [req EXCEPT ![r] = v]
      /\ v.pc = p /\ v.kind = req[r].kind /\ v.id = req[r].id /\ v.app = req[r].app
      /\ v.worker = req[r].worker
      /\ v.seq = req[r].seq + 1 /\ v.knew = req[r].knew /\ v.flags = req[r].flags
  <2>1. req[r] \in States
    BY Facts
  <2>2. /\ v \in States
        /\ v.pc = p /\ v.kind = req[r].kind /\ v.id = req[r].id /\ v.app = req[r].app
        /\ v.worker = req[r].worker
        /\ v.seq = req[r].seq + 1 /\ v.knew = req[r].knew /\ v.flags = req[r].flags
    BY ONLY <2>1 DEF States
  <2>3. req' = [req EXCEPT ![r] = v]
    BY DEF ProduceChunk
  <2> QED BY <2>2, <2>3
<1> HIDE DEF v
<1>3. /\ req[r].id \in Owners /\ req[r].seq \in Nat /\ Chunks(r) # <<>>
      /\ Message(r) = Chunk(req[r].id, p, req[r].seq)
      /\ req[r].seq \in 0..Len(Pieces(req[r].id, p)) - 1
  BY <1>1, SenderFacts, Sends
<1>4. Message(r) \in Messages
  BY <1>1, <1>3, ChunkType
<1>5. /\ Grows /\ Len(log'[p]) = Len(log[p]) + 1 /\ Len(log[p]) \in Nat
      /\ log'[p][Len(log[p]) + 1] = Message(r)
  BY <1>1, <1>4, PublishGrows, Facts
<1>6. Step(r, v)
  BY <1>1, <1>2, <1>5, Facts DEF Step
<1>7. req'[r] = v
  BY <1>6, Keeps
<1>8. ASSUME NEW i \in 1..SizeOf(p), i <= v.seq * KAFKA_CHUNK_BYTES
      PROVE  \E k \in 1..Len(log'[p]) : <<req[r].id, i>> \in ToSet(log'[p][k].data)
  <2>1. /\ SizeOf(p) \in Nat /\ KAFKA_CHUNK_BYTES \in Nat \ {0}
    BY <1>1, <1>3, MediumType, SizesAssumption
  <2>2. CASE i <= req[r].seq * KAFKA_CHUNK_BYTES
    <3>1. Carried(p, <<req[r].id, i>>)
      BY <1>1, <1>3, <2>2, Facts DEF RequestInv
    <3>2. \A b : Carried(p, b) => \E k \in 1..Len(log'[p]) : b \in ToSet(log'[p][k].data)
      <4>1. \A t \in Topics : \A b : Carried(t, b) => \E k \in 1..Len(log'[t]) : b \in ToSet(log'[t][k].data)
        BY <1>6, Keeps DEF Carried
      <4> QED BY <1>1, <4>1
    <3> QED BY <3>1, <3>2
  <2>3. CASE req[r].seq * KAFKA_CHUNK_BYTES < i
    <3>1. <<req[r].id, i>> \in ToSet(Message(r).data)
      BY <1>1, <1>2, <1>3, <1>8, <2>3, ChunkBytes
    <3>2. Len(log[p]) + 1 \in 1..Len(log'[p])
      BY <1>5
    <3> QED BY <1>5, <3>1, <3>2
  <2>4. i \in Nat /\ req[r].seq * KAFKA_CHUNK_BYTES \in Int
    <3>1. req[r].seq \in Int /\ KAFKA_CHUNK_BYTES \in Int
      BY ONLY <1>3, <2>1
    <3> QED BY ONLY <2>1, <3>1, <1>8, Products
  <2> QED BY <2>2, <2>3, <2>4
<1>9. RequestInv(r)'
  <2>1. EndInv(r)' \/ UploadInv(r)'
    <3>1. CASE EndInv(r)
      BY <1>1, <1>2, <1>7, <3>1 DEF EndInv
    <3>2. CASE UploadInv(r)
      BY <1>1, <1>2, <1>7, <3>2 DEF UploadInv
    <3> QED BY <1>1, <3>1, <3>2, SenderFacts
  <2> QED BY <1>1, <1>2, <1>7, <1>8, <2>1 DEF RequestInv, Carried, Topics
<1>10. ASSUME NEW t \in Topics, NEW x, x \in Due(t)'
       PROVE  x \in Due(t) \/ Delivered(t, x)'
  <2>1. CASE r \in Past(t)' /\ x = v.id
    <3>1. r \in Past(t)
      BY <1>2, <1>7, <2>1 DEF Past, AtHome
    <3> QED BY <1>2, <2>1, <3>1 DEF Due
  <2> QED BY <1>1, <1>6, <1>10, <2>1, DueOfOthers
<1> QED BY <1>1, <1>6, <1>9, <1>10, QuietSteps

\* A topic that is left without a failure has its medium.
LEMMA AllOut ==
    ASSUME DeliveryInv, NEW r \in Requests, NEW t \in Topics, req[r].pc = t,
           req[r].seq = Len(Chunks(r)), t = "workexp" \/ AtHome(r)
    PROVE  Delivered(t, req[r].id)
<1> DEFINE x == req[r].id
<1>1. /\ x \in Owners /\ req[r].seq \in Nat
      /\ t # "workexp" => x \in Sessions
  BY SenderFacts
<1>2. SizeOf(t) \in Nat /\ KAFKA_CHUNK_BYTES \in Nat \ {0}
  BY <1>1, MediumType, SizesAssumption
<1>3. CASE t # "workexp" /\ x \notin held
  <2>1. x \in Due(t)
    BY <1>1, <1>3 DEF Due
  <2> QED BY <2>1 DEF DeliveryInv
<1>4. CASE ~(t # "workexp" /\ x \notin held)
  <2>1. Chunks(r) = Pieces(x, t)
    BY <1>4 DEF Chunks
  <2>2. /\ SizeOf(t) <= Len(Pieces(x, t)) * KAFKA_CHUNK_BYTES /\ Len(Pieces(x, t)) \in Nat
        /\ Len(Pieces(x, t)) > 0 <=> SizeOf(t) > 0
        /\ Pieces(x, t) \in Seq(Seq(Owners \X Nat))
    BY <1>1, PiecesType
  <2>3. ASSUME NEW i \in 1..SizeOf(t)
        PROVE  Carried(t, <<x, i>>)
    <3>1. i \in Nat /\ SizeOf(t) > 0 /\ i <= SizeOf(t)
      BY <1>2
    <3>2. Chunks(r) # <<>>
      BY <2>1, <2>2, <3>1
    <3>3. Len(Pieces(x, t)) * KAFKA_CHUNK_BYTES \in Int
      BY <1>2, <2>2, Products
    <3>4. i <= req[r].seq * KAFKA_CHUNK_BYTES
      BY <1>2, <2>1, <2>2, <3>1, <3>3
    <3> QED BY <3>2, <3>4, Facts DEF RequestInv
  <2> QED BY <2>3 DEF Delivered, OnTopic
<1> QED BY <1>3, <1>4

\* After the topic r is past no other one.
LEMMA Leaves ==
    ASSUME DeliveryInv, NEW r \in Requests, req[r].pc \in Topics, Move(r, After(req[r].pc)),
           Step(r, Moved(r, After(req[r].pc)))
    PROVE  /\ After(req[r].pc) \in PCs /\ After(req[r].pc) # "answer"
           /\ EndInv(r)' \/ DegreeInv(r)' \/ UploadInv(r)'
           /\ \A t \in Topics : r \in Past(t)' /\ r \notin Past(t) => t = req[r].pc
<1>1. After(req[r].pc) \in {"video", "meta", "insert"}
  BY DEF After, Topics
<1>2. After(req[r].pc) \in PCs
  BY <1>1 DEF PCs
<1>3. /\ req'[r].pc = After(req[r].pc) /\ req'[r].kind = req[r].kind /\ req'[r].id = req[r].id
      /\ req'[r].app = req[r].app /\ req'[r].worker = req[r].worker
  BY <1>2, Keeps, MoveType
<1>4. CASE EndInv(r) /\ req[r].pc \in {"audio", "video"}
  <2>1. After(req[r].pc) \in {"video", "meta"}
    BY <1>4 DEF After
  <2>2. EndInv(r)'
    BY <1>4, <2>1, MovedEnd
  <2>3. \A t \in Topics : r \in Past(t)' /\ r \notin Past(t) => t = req[r].pc
    BY <1>3, <1>4 DEF Past, AtHome, EndInv, Topics, After
  <2> QED BY <1>1, <1>2, <2>2, <2>3
<1>5. CASE UploadInv(r) /\ req[r].pc = "workexp"
  <2>1. After(req[r].pc) = "insert"
    BY <1>5 DEF After
  <2>2. DegreeInv(r)' \/ UploadInv(r)'
    BY <1>5, <2>1, MovedDocument
  <2>3. \A t \in Topics : r \in Past(t)' /\ r \notin Past(t) => t = req[r].pc
    BY <1>3, <1>5 DEF Past, AtHome, UploadInv, Topics
  <2> QED BY <1>1, <1>2, <2>2, <2>3
<1> QED BY <1>4, <1>5, SenderFacts

LEMMA ProduceEndKeeps ==
    ASSUME DeliveryInv, NEW r \in Requests, ProduceEnd(r)
    PROVE  DeliveryInv'
<1>1. /\ req[r].pc \in Topics /\ req[r].seq = Len(Chunks(r)) /\ Move(r, After(req[r].pc))
      /\ log' = log /\ meta' = meta /\ documents' = documents /\ told' = told /\ cut' = cut
      /\ done' = done /\ astray' = astray /\ held' = held /\ pending' = pending /\ faults' = faults
  BY DEF ProduceEnd, kafka, history
<1>2. After(req[r].pc) \in PCs
  BY <1>1 DEF After, Topics, PCs
<1>3. Step(r, Moved(r, After(req[r].pc)))
  BY <1>1, <1>2, MovedStep
<1>4. \A t \in Topics : \A x : Delivered(t, x) => Delivered(t, x)'
  BY <1>3, Keeps
<1>5. \A t \in Topics : \A x : x = req[r].id /\ r \in Past(t)' /\ r \notin Past(t) => Delivered(t, x)'
  <2>1. req'[r].worker = req[r].worker /\ req'[r].id = req[r].id
    BY <1>1, <1>2, <1>3, Keeps, MoveType
  <2>2. \A t \in Topics : r \in Past(t)' => t = "workexp" \/ AtHome(r)
    BY <2>1 DEF Past, AtHome
  <2> QED BY <1>1, <1>3, <1>4, <2>2, Leaves, AllOut
<1>6. held \ held' \subseteq {req[r].id}
  BY <1>1
<1> QED BY <1>1, <1>2, <1>3, <1>5, <1>6, Leaves, MovesKeep

LEMMA ProduceFailsKeeps ==
    ASSUME DeliveryInv, NEW r \in Requests, ProduceFails(r)
    PROVE  DeliveryInv'
<1>1. /\ req[r].pc \in Topics /\ req[r].seq < Len(Chunks(r)) /\ Move(r, After(req[r].pc))
      /\ Publish(r) \/ log' = log
      /\ cut' = cut \cup {<<req[r].pc, req[r].id>>} /\ Fault
      /\ meta' = meta /\ documents' = documents /\ told' = told
      /\ done' = done /\ astray' = astray /\ held' = held /\ pending' = pending
  BY DEF ProduceFails
<1>2. After(req[r].pc) \in PCs
  BY <1>1 DEF After, Topics, PCs
<1>3. Message(r) \in Messages
  BY <1>1, SenderFacts, Sends, ChunkType
<1>4. Grows
  BY <1>1, <1>3, PublishGrows, SameLogGrows, Facts
<1>5. /\ Moved(r, After(req[r].pc)) \in States
      /\ req' = [req EXCEPT ![r] = Moved(r, After(req[r].pc))]
  BY <1>1, <1>2, MoveType
<1>6. Step(r, Moved(r, After(req[r].pc)))
  BY <1>1, <1>4, <1>5, Facts, FaultType DEF Step
<1>7. \A t \in Topics : \A x : x = req[r].id /\ r \in Past(t)' /\ r \notin Past(t) => Delivered(t, x)'
  <2> SUFFICES ASSUME NEW t \in Topics, r \in Past(t)', r \notin Past(t)
               PROVE  <<t, req[r].id>> \in cut'
    BY DEF Delivered
  <2> QED BY <1>1, <1>6, Leaves
<1>8. held \ held' \subseteq {req[r].id}
  BY <1>1
<1> QED BY <1>1, <1>2, <1>6, <1>7, <1>8, Leaves, MovesKeep
\* A restart loses what is in memory: every medium not yet sent is cut.
LEMMA RestartKeeps ==
    ASSUME DeliveryInv, Restart
    PROVE  DeliveryInv'
<1> DEFINE buffers == {<<t, s>> : t \in {"audio", "video"}, s \in held}
           sending == UNION {Unfinished(r) : r \in Requests}
<1>a. cut' = cut \cup sending \cup buffers
  BY DEF Restart
<1>c. /\ Fault /\ held' = {} /\ req' = [r \in Requests |-> Idle]
      /\ log' = log /\ meta' = meta /\ documents' = documents /\ told' = told
      /\ done' = done /\ astray' = astray /\ pending' = pending
  BY DEF Restart, kafka
<1>b. \A t \in {"audio", "video"} : \A s \in held : <<t, s>> \in buffers
  OBVIOUS
<1> HIDE DEF buffers, sending
<1>1. /\ Fault /\ held' = {} /\ req' = [r \in Requests |-> Idle]
      /\ cut \subseteq cut' /\ \A t \in {"audio", "video"} : \A s \in held : <<t, s>> \in cut'
      /\ log' = log /\ meta' = meta /\ documents' = documents /\ told' = told
      /\ done' = done /\ astray' = astray /\ pending' = pending
  BY <1>a, <1>b, <1>c
<1>2. /\ TypeOK /\ Idle \in States /\ faults' \in 0..MaxFaults
  BY <1>1, IdleType, FaultType DEF DeliveryInv, TypeOK
<1>3. TypeOK'
  BY <1>1, <1>2 DEF TypeOK
<1>4. \A t \in Topics : \A x : Delivered(t, x) => Delivered(t, x)'
  BY <1>1, <1>2, SameLogGrows, CarriedStays
<1>5. ClaimsAreAccurate'
  BY <1>1 DEF DeliveryInv, ClaimsAreAccurate
<1>6. MaterialPrecedesMeta'
  BY <1>1, <1>4 DEF DeliveryInv, MaterialPrecedesMeta, Topics
<1>7. VideosOnRecord'
  BY <1>1, <1>4 DEF DeliveryInv, VideosOnRecord, Topics
<1>8. \A r \in Requests : RequestInv(r)'
  <2> TAKE r \in Requests
  <2>1. req'[r] = Idle
    BY <1>1
  <2> QED BY <2>1, IdleType DEF RequestInv, Topics
<1>9. ASSUME NEW t \in Topics, NEW x \in Due(t)'
      PROVE  Delivered(t, x)'
  <2>1. Past(t)' = {}
    <3>1. \A r \in Requests : req'[r] = Idle /\ Idle.pc = "idle"
      BY <1>1, IdleType
    <3> QED BY <3>1 DEF Past, AtHome
  <2>2. t # "workexp" /\ x \in done \cup Sessions
    BY <1>1, <1>9, <2>1 DEF Due
  <2>3. CASE x \in Due(t)
    BY <1>4, <2>3 DEF DeliveryInv
  <2>4. CASE x \notin Due(t)
    <3>1. x \in held /\ t \in {"audio", "video"}
      BY <1>2, <2>2, <2>4 DEF Due, Topics, TypeOK
    <3> QED BY <1>1, <3>1 DEF Delivered
  <2> QED BY <2>3, <2>4
<1> QED BY <1>1, <1>3, <1>5, <1>6, <1>7, <1>8, <1>9 DEF DeliveryInv

LEMMA StutterKeeps ==
    ASSUME DeliveryInv, UNCHANGED vars
    PROVE  DeliveryInv'
<1>1. /\ log' = log /\ meta' = meta /\ documents' = documents /\ told' = told /\ cut' = cut
      /\ done' = done /\ astray' = astray /\ held' = held
      /\ pending' = pending /\ req' = req /\ faults' = faults
  BY DEF vars, kafka, history
<1>2. Grows /\ TypeOK
  BY <1>1, SameLogGrows DEF DeliveryInv
<1>3. \A t \in Topics : \A x : Delivered(t, x) => Delivered(t, x)'
  BY <1>1, <1>2, CarriedStays
<1>4. \A t \in Topics : \A b : Carried(t, b) => Carried(t, b)'
  BY <1>1, <1>2, CarriedStays
<1>5. TypeOK' /\ ClaimsAreAccurate'
  BY <1>1, <1>2 DEF DeliveryInv, TypeOK, ClaimsAreAccurate
<1>6. MaterialPrecedesMeta' /\ VideosOnRecord'
  BY <1>1, <1>3 DEF DeliveryInv, MaterialPrecedesMeta, VideosOnRecord, Topics
<1>7. ASSUME NEW r \in Requests
      PROVE  RequestInv(r)'
  <2>1. RequestInv(r) /\ Chunks(r)' = Chunks(r) /\ Document(r)' = Document(r)
    BY <1>1 DEF DeliveryInv, Chunks, AtHome, Document
  <2>2. (EndInv(r) => EndInv(r)') /\ (DegreeInv(r) => DegreeInv(r)') /\ (UploadInv(r) => UploadInv(r)')
    BY <1>1 DEF EndInv, DegreeInv, UploadInv
  <2> QED BY <1>1, <1>4, <2>1, <2>2 DEF RequestInv
<1>8. \A t \in Topics : Due(t)' = Due(t)
  BY <1>1 DEF Due, Past, AtHome
<1> QED BY <1>1, <1>3, <1>5, <1>6, <1>7, <1>8 DEF DeliveryInv

LEMMA DeliveryStep ==
    ASSUME DeliveryInv, [Next]_vars
    PROVE  DeliveryInv'
<1>1. ASSUME NEW r \in Requests, NEW s \in Sessions, NEW w \in Workers,
             EndLoad(r, s, w)
      PROVE  DeliveryInv'
  BY <1>1, EndLoadKeeps
<1>2. ASSUME NEW r \in Requests, NEW a \in Apps, DegreeCheck(r, a)
      PROVE  DeliveryInv'
  BY <1>2, DegreeCheckKeeps
<1>3. ASSUME NEW r \in Requests, NEW u \in Uploads, UploadAssembled(r, u)
      PROVE  DeliveryInv'
  BY <1>3, UploadAssembledKeeps
<1>4. ASSUME NEW r \in Requests, Handle(r)
      PROVE  DeliveryInv'
  BY <1>4, ProduceChunkKeeps, ProduceEndKeeps, EndDocumentsKeeps, SendMetaKeeps, EndCleanupKeeps,
     EndCommitKeeps, DocumentMoves, DocumentCommitKeeps, DocumentAnswerKeeps DEF Handle
<1>5. ASSUME NEW r \in Requests, ProduceFails(r) \/ SendMetaFails(r) \/ InsertDocumentFails(r) \/ Fail(r)
      PROVE  DeliveryInv'
  BY <1>5, ProduceFailsKeeps, SendMetaKeeps, RequestFails
<1> QED BY <1>1, <1>2, <1>3, <1>4, <1>5, RestartKeeps, StutterKeeps DEF Next

LEMMA DeliveryStarts ==
    ASSUME Init
    PROVE  DeliveryInv
<1>1. /\ log = [t \in Topics |-> <<>>] /\ meta = <<>> /\ documents = {} /\ done = {}
      /\ astray = {} /\ held = Sessions /\ pending = Uploads /\ told = {} /\ req = [r \in Requests |-> Idle]
      /\ faults = 0
  BY DEF Init
<1>2. TypeOK
  BY <1>1, IdleType, BoundsAssumption DEF TypeOK
<1>3. \A r \in Requests : req[r] = Idle /\ req[r].pc = "idle"
  BY <1>1, IdleType
<1>4. \A r \in Requests : RequestInv(r)
  BY <1>3, IdleType DEF RequestInv, Topics
<1>5. \A t \in Topics : Due(t) = {}
  BY <1>1, <1>3 DEF Due, Past, AtHome
<1> QED BY <1>1, <1>2, <1>4, <1>5 DEF DeliveryInv, ClaimsAreAccurate, MaterialPrecedesMeta, VideosOnRecord

LEMMA DeliveryHolds == Spec => []DeliveryInv
<1>1. Init => DeliveryInv
  BY DeliveryStarts
<1>2. DeliveryInv /\ [Next]_vars => DeliveryInv'
  BY DeliveryStep
<1> QED BY <1>1, <1>2, PTL DEF Spec

\* Whatever handlers of a candidate overlap, fail or are cut off by a restart,
\* a meta message claims what is on record, and every document its client knew.
THEOREM ClaimsAreAccurateHolds == Spec => []ClaimsAreAccurate
<1>1. DeliveryInv => ClaimsAreAccurate
  BY DEF DeliveryInv
<1> QED BY <1>1, DeliveryHolds, PTL

\* When a session's meta message is on its topic the interview's audio and
\* video are on theirs, byte for byte, and a claimed work-experience video too,
\* unless their send stopped on the way: for any sizes, chunk size and overlap
\* of handlers.
THEOREM MaterialPrecedesMetaHolds == Spec => []MaterialPrecedesMeta
<1>1. DeliveryInv => MaterialPrecedesMeta
  BY DEF DeliveryInv
<1> QED BY <1>1, DeliveryHolds, PTL
-----------------------------------------------------------------------------
(***************************************************************************)
(* One handler of a kind at a time: the messages of a topic are in order.  *)
(***************************************************************************)
LEMMA SameTopic ==
    ASSUME NEW t \in Topics, log'[t] = log[t]
    PROVE  /\ Closed(t)' = Closed(t)
           /\ \A k : \A x : \A n : EndsWith(t, k, x, n)' <=> EndsWith(t, k, x, n)
           /\ \A k : \A x : Whole(t, k, x)' <=> Whole(t, k, x)
<1>1. Closed(t)' = Closed(t)
  BY DEF Closed
<1>2. \A k : \A x : \A n : EndsWith(t, k, x, n)' <=> EndsWith(t, k, x, n)
  <2> TAKE k, x, n
  <2>1. \A j : Chunk(x, t, j)' = Chunk(x, t, j)
    BY DEF Chunk, Pieces, CutMedia, Data, SizeOf, _chunk_bytes
  <2> QED BY <2>1 DEF EndsWith
<1>3. \A x : Pieces(x, t)' = Pieces(x, t) /\ SizeOf(t)' = SizeOf(t)
  OBVIOUS
<1> QED BY <1>1, <1>2, <1>3 DEF Whole

LEMMA StaysInOrder ==
    ASSUME NEW t \in Topics, InOrder(t), log'[t] = log[t],
           \A x \in Due(t)' :
               x \in Due(t) \/ (SizeOf(t) > 0 => \E k \in Closed(t) : Whole(t, k, x)),
           \A q \in Requests : req'[q].pc = t =>
               /\ req'[q].seq <= Len(Chunks(q)')
               /\ EndsWith(t, Len(log[t]), req'[q].id, req'[q].seq),
           (\A q \in Requests : req'[q].pc # t) => log[t] = <<>> \/ Len(log[t]) \in Closed(t)
    PROVE  InOrder(t)'
<1>1. /\ Closed(t)' = Closed(t)
      /\ \A k : \A x : \A n : EndsWith(t, k, x, n)' <=> EndsWith(t, k, x, n)
      /\ \A k : \A x : Whole(t, k, x)' <=> Whole(t, k, x)
  BY SameTopic
<1>2. \A k \in Closed(t)' : \E x \in Sessions \cup Uploads : Whole(t, k, x)'
  BY <1>1 DEF InOrder
<1>3. \A x \in Due(t)' : SizeOf(t) > 0 => \E k \in Closed(t)' : Whole(t, k, x)'
  BY <1>1 DEF InOrder
<1>4. (\A q \in Requests : req[q].pc = t =>
          /\ req[q].seq <= Len(Chunks(q))
          /\ EndsWith(t, Len(log[t]), req[q].id, req[q].seq))'
  <2> SUFFICES ASSUME NEW q \in Requests, req'[q].pc = t
               PROVE  /\ req'[q].seq <= Len(Chunks(q)')
                      /\ EndsWith(t, Len(log[t]), req[q].id, req[q].seq)'
    OBVIOUS
  <2>1. EndsWith(t, Len(log[t]), req'[q].id, req'[q].seq)
    OBVIOUS
  <2>2. EndsWith(t, Len(log[t]), req[q].id, req[q].seq)'
    BY <2>1 DEF EndsWith
  <2> QED BY <2>2
<1>5. (\A q \in Requests : req'[q].pc # t) => log'[t] = <<>> \/ Len(log'[t]) \in Closed(t)'
  BY <1>1
<1> QED BY <1>2, <1>3, <1>4, <1>5 DEF InOrder

KindOf(t) == IF t = "workexp" THEN "WORKEXP_VIDEO" ELSE "end"

LEMMA Sole ==
    ASSUME DeliveryInv, OneOfAKind, NEW t \in Topics, NEW q \in Requests, req[q].pc = t,
           NEW r \in Requests, req[r].pc # "idle", req[r].kind = KindOf(t)
    PROVE  q = r
<1>1. req[q].pc # "idle" /\ req[q].kind = KindOf(t)
  BY SenderFacts DEF Topics, KindOf, EndInv, UploadInv
<1> QED BY <1>1 DEF OneOfAKind, KindOf

LEMMA OneSender ==
    ASSUME DeliveryInv, OneOfAKind, NEW t \in Topics, NEW q \in Requests, req[q].pc = t,
           NEW r \in Requests, req[r].pc = t
    PROVE  q = r
<1>1. req[r].pc # "idle" /\ req[r].kind = KindOf(t)
  BY SenderFacts DEF Topics, KindOf, EndInv, UploadInv
<1> QED BY <1>1, Sole

\* r neither sends on t nor begins to.
LEMMA QuietTopic ==
    ASSUME DeliveryInv, OneOfAKind, NEW r \in Requests, NEW v, Step(r, v),
           NEW t \in Topics, InOrder(t), log'[t] = log[t], req[r].pc # t, v.pc # t,
           \A x \in Due(t)' :
               x \in Due(t) \/ (SizeOf(t) > 0 => \E k \in Closed(t) : Whole(t, k, x)),
           held' = held \/ (req[r].kind = "end" /\ req[r].pc # "idle")
    PROVE  InOrder(t)'
<1>1. /\ \A q \in Requests : req'[q].pc = t <=> req[q].pc = t
      /\ \A q \in Requests : req'[q].pc = t => req'[q] = req[q]
  BY Keeps
<1>2. \A q \in Requests : req'[q].pc = t => Chunks(q)' = Chunks(q)
  <2> SUFFICES ASSUME NEW q \in Requests, req'[q].pc = t
               PROVE  Chunks(q)' = Chunks(q)
    OBVIOUS
  <2>1. req'[q] = req[q] /\ req[q].pc = t
    BY <1>1
  <2>2. CASE held' = held
    BY <2>1, <2>2 DEF Chunks, AtHome
  <2>3. CASE t = "workexp"
    BY <2>1, <2>3 DEF Chunks, AtHome
  <2>4. CASE held' # held /\ t # "workexp"
    <3>1. req[r].pc # "idle" /\ req[r].kind = KindOf(t)
      BY <2>4 DEF KindOf
    <3>2. q = r
      BY <2>1, <3>1, Sole
    <3> QED BY <2>1, <3>2
  <2> QED BY <2>2, <2>3, <2>4
<1>3. \A q \in Requests : req'[q].pc = t =>
          /\ req'[q].seq <= Len(Chunks(q)')
          /\ EndsWith(t, Len(log[t]), req'[q].id, req'[q].seq)
  BY <1>1, <1>2 DEF InOrder
<1>4. (\A q \in Requests : req'[q].pc # t) => log[t] = <<>> \/ Len(log[t]) \in Closed(t)
  BY <1>1 DEF InOrder
<1> QED BY <1>3, <1>4, StaysInOrder

\* r begins to send on t, where nobody is.
LEMMA EnterTopic ==
    ASSUME DeliveryInv, NEW r \in Requests, NEW v, Step(r, v),
           NEW t \in Topics, InOrder(t), log'[t] = log[t], v.pc = t, v.seq = 0,
           \A q \in Requests : req[q].pc # t, Due(t)' \subseteq Due(t)
    PROVE  InOrder(t)'
<1>1. log[t] = <<>> \/ Len(log[t]) \in Closed(t)
  BY DEF InOrder
<1>2. \A q \in Requests : req'[q].pc = t => q = r
  BY Keeps
<1>3. Len(log[t]) \in Nat /\ Len(Chunks(r)') \in Nat
  <2>1. log[t] \in Seq(Messages) /\ TypeOK'
    BY Keeps DEF DeliveryInv, TypeOK
  <2>2. v \in States /\ req'[r] = v
    BY Keeps DEF Step
  <2>3. Chunks(r)' = <<>> \/ Chunks(r)' = Pieces(v.id, t)
    BY <2>2 DEF Chunks, AtHome
  <2> QED BY <2>1, <2>3
<1>4. EndsWith(t, Len(log[t]), v.id, 0)
  BY <1>1, <1>3 DEF EndsWith, Closed
<1> QED BY <1>1, <1>2, <1>4, StaysInOrder, Keeps
\* r has nothing more to send on t: the last list is closed, and it is r's.
LEMMA LastClosed ==
    ASSUME DeliveryInv, NEW t \in Topics, InOrder(t), NEW r \in Requests, req[r].pc = t,
           req[r].seq = Len(Chunks(r))
    PROVE  /\ log[t] = <<>> \/ Len(log[t]) \in Closed(t)
           /\ \/ t # "workexp" /\ ~AtHome(r)
              \/ req[r].id \in Due(t)
              \/ SizeOf(t) > 0 => \E k \in Closed(t) : Whole(t, k, req[r].id)
<1> DEFINE x == req[r].id
           K == Len(log[t])
<1>1. /\ x \in Owners /\ req[r].seq \in Nat /\ (t # "workexp" => x \in Sessions)
      /\ EndsWith(t, K, x, req[r].seq)
  BY SenderFacts DEF InOrder
<1>2. log[t] \in Seq(Messages) /\ K \in Nat
  BY DEF DeliveryInv, TypeOK
<1>3. CASE req[r].seq = 0
  <2>1. log[t] = <<>> \/ K \in Closed(t)
    <3>1. K > 0 => log[t][K].is_last
      BY <1>1, <1>2, <1>3 DEF EndsWith
    <3> QED BY <1>2, <3>1 DEF Closed
  <2>2. CASE t # "workexp" /\ (~AtHome(r) \/ x \notin held)
    BY <1>1, <2>1, <2>2 DEF Due
  <2>3. CASE ~(t # "workexp" /\ (~AtHome(r) \/ x \notin held))
    <3>1. Chunks(r) = Pieces(x, t)
      BY <2>3 DEF Chunks
    <3>2. ~(SizeOf(t) > 0)
      <4>1. Len(Pieces(x, t)) = 0
        BY <1>3, <3>1
      <4>2. Len(Pieces(x, t)) > 0 <=> SizeOf(t) > 0
        BY <1>1, PiecesType
      <4> QED BY ONLY <4>1, <4>2
    <3> QED BY <2>1, <3>2
  <2> QED BY <2>2, <2>3
<1>4. CASE req[r].seq # 0
  <2>1. Chunks(r) = Pieces(x, t)
    <3>1. Chunks(r) # <<>>
      BY <1>4
    <3> QED BY <3>1 DEF Chunks, AtHome
  <2>2. req[r].seq - 1 \in 0..Len(Pieces(x, t)) - 1 /\ req[r].seq - 1 = Len(Pieces(x, t)) - 1
    BY <1>1, <1>4, <2>1
  <2>3. log[t][K] = Chunk(x, t, req[r].seq - 1) /\ K >= 1
    <3>1. \A j \in 1..req[r].seq : log[t][K - req[r].seq + j] = Chunk(x, t, j - 1)
      BY <1>1 DEF EndsWith
    <3>2. req[r].seq \in 1..req[r].seq /\ K - req[r].seq + req[r].seq = K /\ req[r].seq <= K
      BY <1>1, <1>2, <1>4 DEF EndsWith
    <3> QED BY <1>1, <1>2, <1>4, <3>1, <3>2
  <2>4. K \in Closed(t)
    BY <1>1, <1>2, <2>2, <2>3, ChunkType DEF Closed
  <2>5. SizeOf(t) > 0 => Whole(t, K, x)
    BY <1>1, <2>1 DEF Whole
  <2> QED BY <2>4, <2>5
<1> QED BY <1>3, <1>4

LEMMA LeaveTopic ==
    ASSUME DeliveryInv, OneOfAKind, NEW r \in Requests, NEW v, Step(r, v),
           NEW t \in Topics, InOrder(t), log'[t] = log[t],
           req[r].pc = t, req[r].seq = Len(Chunks(r)), v.pc # t,
           \A x \in Due(t)' : x \in Due(t) \/ x = req[r].id,
           (t # "workexp" /\ ~AtHome(r)) => Due(t)' \subseteq Due(t)
    PROVE  InOrder(t)'
<1>1. /\ log[t] = <<>> \/ Len(log[t]) \in Closed(t)
      /\ \A x \in Due(t)' :
            x \in Due(t) \/ (SizeOf(t) > 0 => \E k \in Closed(t) : Whole(t, k, x))
  BY LastClosed
<1>2. \A q \in Requests : req'[q].pc # t
  BY OneSender, Keeps
<1> QED BY <1>1, <1>2, StaysInOrder

\* A topic that only grows keeps what it ended with before.
LEMMA EndsWithStays ==
    ASSUME NEW t \in Topics, log[t] \in Seq(Messages), \A k \in 1..Len(log[t]) : log'[t][k] = log[t][k],
           NEW k \in Nat, k <= Len(log[t]), NEW x, NEW n \in Nat, EndsWith(t, k, x, n)
    PROVE  EndsWith(t, k, x, n)'
<1>1. Len(log[t]) \in Nat /\ n <= k
  BY DEF EndsWith
<1>2. ASSUME NEW j \in 1..n
      PROVE  log'[t][k - n + j] = Chunk(x, t, j - 1)
  <2>1. log[t][k - n + j] = Chunk(x, t, j - 1)
    BY DEF EndsWith
  <2>2. k - n + j \in 1..Len(log[t])
    BY <1>1
  <2> QED BY <2>1, <2>2
<1>3. ASSUME n < k
      PROVE  log'[t][k - n].is_last
  <2>1. log[t][k - n].is_last /\ k - n \in 1..Len(log[t])
    BY <1>1, <1>3 DEF EndsWith
  <2> QED BY <2>1
<1> QED BY <1>1, <1>2, <1>3 DEF EndsWith

LEMMA WholeStays ==
    ASSUME NEW t \in Topics, log[t] \in Seq(Messages), Grows,
           NEW k \in Closed(t), NEW x \in Owners, Whole(t, k, x)
    PROVE  k \in Closed(t)' /\ Whole(t, k, x)'
<1>1. k \in Nat /\ k <= Len(log[t]) /\ k \in 1..Len(log[t]) /\ log[t][k].is_last
  BY DEF Closed
<1>2. log'[t][k].is_last /\ k \in 1..Len(log'[t])
  BY <1>1 DEF Grows
<1>3. EndsWith(t, k, x, Len(Pieces(x, t)))'
  <2>1. /\ EndsWith(t, k, x, Len(Pieces(x, t))) /\ Len(Pieces(x, t)) \in Nat
    BY PiecesType DEF Whole
  <2>2. \A j \in 1..Len(log[t]) : log'[t][j] = log[t][j]
    BY DEF Grows
  <2>3. \A n : n = Len(Pieces(x, t)) => EndsWith(t, k, x, n)'
    BY <1>1, <2>1, <2>2, EndsWithStays
  <2> QED BY <2>3 DEF EndsWith
<1>4. SizeOf(t)' > 0
  BY DEF Whole
<1> QED BY <1>2, <1>3, <1>4 DEF Closed, Whole
LEMMA DueType ==
    ASSUME DeliveryInv, NEW t \in Topics
    PROVE  Due(t) \subseteq Owners
<1>1. \A r \in Past(t) : req[r].id \in Owners
  <2> TAKE r \in Past(t)
  <2>1. r \in Requests /\ req[r].pc # "idle" /\ req[r].kind \in {"end", "WORKEXP_VIDEO"}
    BY DEF Past, AtHome
  <2>2. EndInv(r) \/ DegreeInv(r) \/ UploadInv(r)
    BY <2>1, Facts
  <2> QED BY <2>1, <2>2 DEF EndInv, DegreeInv, UploadInv, Owners
<1>2. done \subseteq Sessions /\ held \subseteq Sessions
  BY DEF DeliveryInv, TypeOK
<1> QED BY <1>1, <1>2 DEF Due, Owners

\* A chunk is appended to what its sender has sent.
LEMMA PublishTopic ==
    ASSUME DeliveryInv, OneOfAKind, NEW r \in Requests, NEW t \in Topics, InOrder(t),
           req[r].pc = t, req[r].seq < Len(Chunks(r)), Publish(r),
           NEW v, Step(r, v), v.pc = t, v.id = req[r].id, v.worker = req[r].worker,
           v.seq = req[r].seq + 1,
           held' = held, Due(t)' \subseteq Due(t)
    PROVE  InOrder(t)'
<1>0. PICK x, n, K : x = req[r].id /\ n = req[r].seq /\ K = Len(log[t])
  OBVIOUS
<1>1. /\ x \in Owners /\ n \in Nat /\ Chunks(r) = Pieces(x, t)
      /\ Message(r) = Chunk(x, t, n) /\ n \in 0..Len(Pieces(x, t)) - 1
  BY <1>0, SenderFacts, Sends
<1>2. Chunk(x, t, n) \in Messages /\ (Chunk(x, t, n).is_last <=> n = Len(Pieces(x, t)) - 1)
  BY <1>1, ChunkType
<1>3. /\ log[t] \in Seq(Messages) /\ log'[t] \in Seq(Messages) /\ K \in Nat /\ Grows
      /\ Len(log'[t]) = K + 1 /\ log'[t][K + 1] = Chunk(x, t, n)
      /\ \A k \in 1..K : log'[t][k] = log[t][k]
  <2>1. TypeOK /\ Message(r) \in Messages
    BY <1>1, <1>2 DEF DeliveryInv
  <2>2. /\ Grows /\ Len(log'[t]) = K + 1 /\ log'[t][K + 1] = Message(r) /\ K \in Nat
    BY <1>0, <2>1, PublishGrows
  <2> QED BY <1>0, <1>1, <2>1, <2>2 DEF TypeOK, Grows
<1>4. EndsWith(t, K, x, n)
  BY <1>0 DEF InOrder
<1>5. \A j \in 1..n + 1 : log'[t][K + 1 - (n + 1) + j] = Chunk(x, t, j - 1)
  <2> TAKE j \in 1..n + 1
  <2>1. CASE j = n + 1
    <3>1. K + 1 - (n + 1) + j = K + 1 /\ j - 1 = n
      <4>1. K \in Nat /\ n \in Nat
        BY <1>1, <1>3
      <4> QED BY ONLY <4>1, <2>1
    <3> QED BY <1>3, <3>1
  <2>2. CASE j \in 1..n
    <3>1. log[t][K - n + j] = Chunk(x, t, j - 1) /\ n <= K
      BY <1>4, <2>2 DEF EndsWith
    <3>2. K + 1 - (n + 1) + j = K - n + j /\ K - n + j \in 1..K
      <4>1. K \in Nat /\ n \in Nat /\ n <= K /\ j \in 1..n
        BY <1>1, <1>3, <2>2, <3>1
      <4> QED BY ONLY <4>1
    <3> QED BY <1>3, <3>1, <3>2
  <2>3. j = n + 1 \/ j \in 1..n
    BY <1>1
  <2> QED BY <2>1, <2>2, <2>3
<1>6. EndsWith(t, K + 1, x, n + 1)'
  <2>1. n <= K /\ (n < K => log[t][K - n].is_last)
    BY <1>4 DEF EndsWith
  <2>2. n + 1 <= K + 1 /\ (n + 1 < K + 1 => log'[t][K + 1 - (n + 1)].is_last)
    <3>1. K + 1 - (n + 1) = K - n
      BY <1>1, <1>3
    <3>2. n < K => K - n \in 1..K
      BY <1>1, <1>3
    <3>3. n + 1 <= K + 1 /\ (n + 1 < K + 1 => n < K)
      BY <1>1, <1>3, <2>1
    <3>4. ASSUME n < K PROVE log'[t][K + 1 - (n + 1)].is_last
      BY <1>3, <2>1, <3>1, <3>2, <3>4
    <3> QED BY <3>3, <3>4
  <2>3. ASSUME NEW L, NEW m, L = K + 1, m = n + 1
        PROVE  EndsWith(t, L, x, m)'
    <3>1. \A j \in 1..m : log'[t][L - m + j] = Chunk(x, t, j - 1)
      <4> TAKE j \in 1..m
      <4>1. j \in 1..n + 1 /\ L - m + j = K + 1 - (n + 1) + j
        BY <1>1, <1>3, <2>3
      <4>2. log'[t][K + 1 - (n + 1) + j] = Chunk(x, t, j - 1)
        BY <1>5, <4>1
      <4> QED BY ONLY <4>1, <4>2
    <3>2. m <= L /\ (m < L => log'[t][L - m].is_last)
      BY <1>1, <1>3, <2>2, <2>3
    <3> QED BY ONLY <3>1, <3>2 DEF EndsWith
  <2> QED BY ONLY <2>3 DEF EndsWith
<1>7. ASSUME NEW k \in Closed(t)'
      PROVE  \E y \in Sessions \cup Uploads : Whole(t, k, y)'
  <2>1. k \in 1..K + 1 /\ log'[t][k].is_last
    BY <1>3 DEF Closed
  <2>2. CASE k \in 1..K
    <3>1. k \in Closed(t)
      BY <1>0, <1>3, <2>1, <2>2 DEF Closed
    <3>2. PICK y \in Owners : Whole(t, k, y)
      BY <3>1 DEF InOrder, Owners
    <3> QED BY <1>3, <3>1, <3>2, WholeStays DEF Owners
  <2>3. CASE k = K + 1
    <3>1. n + 1 = Len(Pieces(x, t)) /\ SizeOf(t) > 0
      <4>1. n = Len(Pieces(x, t)) - 1
        BY <1>2, <1>3, <2>1, <2>3
      <4>2. Len(Pieces(x, t)) \in Nat /\ (Len(Pieces(x, t)) > 0 <=> SizeOf(t) > 0)
        BY <1>1, PiecesType
      <4> QED BY ONLY <1>1, <4>1, <4>2
    <3>2. Whole(t, k, x)'
      BY <1>6, <2>3, <3>1 DEF Whole
    <3> QED BY <1>1, <3>2 DEF Owners
  <2> QED BY <1>3, <2>1, <2>2, <2>3
<1>8. ASSUME NEW y \in Due(t)', SizeOf(t) > 0
      PROVE  \E k \in Closed(t)' : Whole(t, k, y)'
  <2>1. PICK k \in Closed(t) : Whole(t, k, y)
    BY <1>8 DEF InOrder
  <2>2. y \in Owners
    BY <1>8, DueType
  <2> QED BY <1>3, <2>1, <2>2, WholeStays
<1>9. /\ req'[r] = v /\ \A q \in Requests : req'[q].pc = t => q = r
  <2>1. req'[r] = v /\ \A q \in Requests : q # r => req'[q] = req[q]
    BY Keeps
  <2> QED BY <2>1, OneSender
<1>10. (\A q \in Requests : req[q].pc = t =>
          /\ req[q].seq <= Len(Chunks(q))
          /\ EndsWith(t, Len(log[t]), req[q].id, req[q].seq))'
  <2>1. Chunks(r)' = Chunks(r)
    BY <1>9 DEF Chunks, AtHome
  <2>2. req'[r].seq <= Len(Chunks(r)')
    BY <1>0, <1>1, <1>9, <2>1
  <2>3. EndsWith(t, Len(log[t]), req[r].id, req[r].seq)'
    <3>1. Len(log'[t]) = K + 1 /\ req'[r].id = x /\ req'[r].seq = n + 1
      BY <1>0, <1>3, <1>9
    <3> QED BY <1>6, <3>1 DEF EndsWith
  <2> QED BY <1>9, <2>2, <2>3
<1>11. ~(\A q \in Requests : req'[q].pc # t)
  BY <1>9
<1> QED BY <1>7, <1>8, <1>10, <1>11 DEF InOrder
LEMMA StepOf ==
    ASSUME DeliveryInv, DeliveryInv', NEW r \in Requests, NEW v, req' = [req EXCEPT ![r] = v],
           log' = log, cut \subseteq cut', documents \subseteq documents', told \subseteq told',
           done \subseteq done', held' \subseteq held
    PROVE  Step(r, v)
<1>1. TypeOK /\ TypeOK' /\ Grows
  BY SameLogGrows DEF DeliveryInv
<1>2. req'[r] = v /\ v \in States
  BY <1>1 DEF TypeOK
<1> QED BY <1>1, <1>2 DEF Step, TypeOK

LEMMA OneOfAKindKeeps ==
    ASSUME DeliveryInv, OneOfAKind, NEW r \in Requests, NEW v, Step(r, v),
           \/ v.pc = "idle" \/ v.kind = "DEGREE"
           \/ v.kind = req[r].kind /\ req[r].pc # "idle"
           \/ \A q \in Requests : req[q].kind # v.kind
    PROVE  OneOfAKind'
<1> SUFFICES ASSUME NEW p \in Requests, NEW q \in Requests,
                    req'[p].pc # "idle", req'[p].kind \in {"end", "WORKEXP_VIDEO"},
                    req'[q].pc # "idle", req'[q].kind = req'[p].kind, p # q
             PROVE  FALSE
  BY DEF OneOfAKind
<1>1. req'[r] = v /\ \A s \in Requests : s # r => req'[s] = req[s]
  BY Keeps
<1>2. CASE p # r /\ q # r
  BY <1>1, <1>2 DEF OneOfAKind
<1>3. CASE p = r \/ q = r
  <2>1. PICK s \in Requests : /\ s # r /\ req[s].pc # "idle" /\ req[s].kind = v.kind
                              /\ v.pc # "idle" /\ v.kind \in {"end", "WORKEXP_VIDEO"}
    BY <1>1, <1>3
  <2>2. v.kind = req[r].kind /\ req[r].pc # "idle"
    BY <2>1
  <2> QED BY <2>1, <2>2 DEF OneOfAKind
<1> QED BY <1>2, <1>3

\* Nothing becomes due that a handler past the topic does not account for.
LEMMA DueStays ==
    ASSUME DeliveryInv, NEW r \in Requests, NEW v, Step(r, v),
           \A t \in Topics : r \in Past(t)' => r \in Past(t) /\ v.id = req[r].id,
           \/ done' = done /\ held' = held
           \/ /\ r \in Past("audio") /\ r \in Past("video")
              /\ (done' \ done) \cup (held \ held') \subseteq {req[r].id},
           NEW t \in Topics
    PROVE  Due(t)' \subseteq Due(t)
<1> SUFFICES ASSUME NEW x \in Due(t)'
             PROVE  x \in Due(t)
  OBVIOUS
<1>1. CASE r \in Past(t)' /\ x = v.id
  BY <1>1 DEF Due
<1>2. CASE t # "workexp" /\ x \in (done' \ done) \cup (held \ held')
  <2>1. x = req[r].id /\ r \in Past(t)
    BY <1>2 DEF Topics
  <2> QED BY <2>1 DEF Due
<1> QED BY <1>1, <1>2, DueOfOthers

LEMMA QuietOrder ==
    ASSUME DeliveryInv, OrderInv, NEW r \in Requests, NEW v, Step(r, v), log' = log,
           req[r].pc \notin Topics, v.pc \notin Topics,
           \/ v.pc = "idle" \/ v.kind = "DEGREE"
           \/ v.kind = req[r].kind /\ req[r].pc # "idle"
           \/ \A q \in Requests : req[q].kind # v.kind,
           \A t \in Topics : r \in Past(t)' => r \in Past(t) /\ v.id = req[r].id,
           \/ done' = done /\ held' = held
           \/ /\ r \in Past("audio") /\ r \in Past("video")
              /\ (done' \ done) \cup (held \ held') \subseteq {req[r].id}
    PROVE  OrderInv'
<1>1. OneOfAKind /\ OneOfAKind'
  BY OneOfAKindKeeps DEF OrderInv
<1>2. ASSUME NEW t \in Topics, Unbroken(t)'
      PROVE  InOrder(t)'
  <2>1. InOrder(t)
    BY <1>2 DEF OrderInv, Unbroken, Step
  <2>2. Due(t)' \subseteq Due(t)
    BY DueStays
  <2>3. held' = held \/ (req[r].kind = "end" /\ req[r].pc # "idle")
    BY DEF Past, AtHome
  <2> QED BY <1>1, <2>1, <2>2, <2>3, QuietTopic
<1> QED BY <1>1, <1>2 DEF OrderInv

LEMMA BeginOrder ==
    ASSUME DeliveryInv, DeliveryInv', OrderInv, ~Overlap, NEW r \in Requests,
           \/ \E s \in Sessions, w \in Workers : EndLoad(r, s, w)
           \/ \E a \in Apps : DegreeCheck(r, a)
    PROVE  OrderInv'
<1>1. /\ log' = log /\ documents' = documents /\ told' = told /\ cut' = cut
      /\ done' = done /\ astray' = astray /\ held' = held /\ req[r].pc = "idle"
  BY DEF EndLoad, DegreeCheck, kafka, history
<1>2. PICK v : /\ req' = [req EXCEPT ![r] = v]
               /\ \/ v.pc = "complete" /\ v.kind = "end" /\ InFlight("end") = {}
                  \/ v.pc = "check" /\ v.kind = "DEGREE"
  <2>1. CASE \E s \in Sessions, w \in Workers : EndLoad(r, s, w)
    <3>1. PICK s \in Sessions, w \in Workers : EndLoad(r, s, w)
      BY <2>1
    <3> DEFINE v == [Idle EXCEPT !.pc = "complete", !.kind = "end", !.id = s, !.app = AppOf[s],
                                 !.worker = w, !.knew = TypesOf(told, AppOf[s])]
    <3>2. v.pc = "complete" /\ v.kind = "end"
      BY DEF Idle
    <3>3. req' = [req EXCEPT ![r] = v] /\ InFlight("end") = {}
      BY <3>1 DEF EndLoad
    <3> HIDE DEF v
    <3> QED BY <3>2, <3>3
  <2>2. CASE \E a \in Apps : DegreeCheck(r, a)
    <3>1. PICK a \in Apps : DegreeCheck(r, a)
      BY <2>2
    <3> DEFINE v == [Idle EXCEPT !.pc = "check", !.kind = "DEGREE", !.app = a]
    <3>2. v.pc = "check" /\ v.kind = "DEGREE"
      BY DEF Idle
    <3>3. req' = [req EXCEPT ![r] = v]
      BY <3>1 DEF DegreeCheck
    <3> HIDE DEF v
    <3> QED BY <3>2, <3>3
  <2> QED BY <2>1, <2>2
<1>3. Step(r, v)
  BY <1>1, <1>2, StepOf
<1>4. req'[r] = v
  BY <1>3, Keeps
<1>5. \A t \in Topics : r \notin Past(t)'
  BY <1>2, <1>4 DEF Past, AtHome
<1>6. req[r].pc \notin Topics /\ v.pc \notin Topics
  BY <1>1, <1>2 DEF Topics
<1>7. v.kind = "DEGREE" \/ \A q \in Requests : req[q].kind # v.kind
  BY <1>2 DEF InFlight
<1> QED BY <1>1, <1>3, <1>5, <1>6, <1>7, QuietOrder

LEMMA MoveOrder ==
    ASSUME DeliveryInv, DeliveryInv', OrderInv, NEW r \in Requests,
           \/ SendMeta(r) \/ SendMetaFails(r) \/ EndCleanup(r)
           \/ DegreeSave(r) \/ InsertDocument(r) \/ DocumentCommit(r)
    PROVE  OrderInv'
<1>1. /\ log' = log /\ documents \subseteq documents' /\ told' = told /\ cut' = cut
      /\ done' = done /\ astray' = astray /\ held' \subseteq held /\ held \ held' \subseteq {req[r].id}
      /\ req[r].pc \in {"meta", "cleanup", "check", "insert", "commit"}
      /\ held' = held \/ (req[r].pc = "cleanup" /\ AtHome(r))
  BY DEF SendMeta, SendMetaFails, EndCleanup, DegreeSave, InsertDocument, DocumentCommit, kafka, history
<1>2. PICK pc : /\ Move(r, pc)
                /\ \/ req[r].pc = "meta" /\ pc = "cleanup"
                   \/ req[r].pc = "cleanup" /\ pc = "commit"
                   \/ req[r].pc = "check" /\ pc = "insert"
                   \/ req[r].pc = "insert" /\ pc = "commit"
                   \/ req[r].pc = "commit" /\ pc = "answer" /\ req[r].kind \in DocTypes
  BY DEF SendMeta, SendMetaFails, EndCleanup, DegreeSave, InsertDocument, DocumentCommit
<1>3. pc \in PCs /\ pc \notin Topics /\ pc # "idle" /\ req[r].pc \notin Topics /\ req[r].pc # "idle"
  BY <1>1, <1>2 DEF PCs, Topics
<1> DEFINE v == Moved(r, pc)
<1>4. /\ req' = [req EXCEPT ![r] = v] /\ v.pc = pc /\ v.kind = req[r].kind /\ v.id = req[r].id
      /\ v.worker = req[r].worker
  BY <1>2, <1>3, MoveType
<1> HIDE DEF v
<1>5. Step(r, v)
  BY <1>1, <1>4, StepOf
<1>6. req'[r] = v
  BY <1>5, Keeps
<1>7. EndInv(r) \/ DegreeInv(r) \/ UploadInv(r)
  BY <1>3, Facts
<1>8. \A t \in Topics : r \in Past(t)' => r \in Past(t)
  BY <1>2, <1>4, <1>6, <1>7 DEF Past, AtHome, EndInv, DegreeInv, UploadInv, DocTypes
<1>9. held' = held \/ (r \in Past("audio") /\ r \in Past("video"))
  BY <1>1, <1>7 DEF Past, AtHome, EndInv, DegreeInv, UploadInv
<1> QED BY <1>1, <1>3, <1>4, <1>5, <1>8, <1>9, QuietOrder

LEMMA AnswerOrder ==
    ASSUME DeliveryInv, DeliveryInv', OrderInv, NEW r \in Requests,
           EndCommit(r) \/ DocumentAnswer(r) \/ InsertDocumentFails(r) \/ Fail(r)
    PROVE  OrderInv'
<1>1. /\ log' = log /\ documents' = documents /\ told \subseteq told' /\ cut' = cut
      /\ done \subseteq done' /\ held' = held /\ done' \ done \subseteq {req[r].id}
      /\ req[r].pc \notin Topics /\ Answer(r)
      /\ done' = done \/ (req[r].pc = "commit" /\ req[r].kind = "end" /\ AtHome(r))
  BY DEF EndCommit, DocumentAnswer, InsertDocumentFails, Fail, kafka, history, Topics
<1>2. req' = [req EXCEPT ![r] = Idle] /\ Idle.pc = "idle" /\ Idle.pc \notin Topics
  BY <1>1, IdleType DEF Answer, Topics
<1>3. Step(r, Idle)
  BY <1>1, <1>2, StepOf
<1>4. \A t \in Topics : r \notin Past(t)'
  BY <1>2, <1>3, Keeps DEF Past, AtHome
<1>5. done' = done \/ (r \in Past("audio") /\ r \in Past("video"))
  BY <1>1 DEF Past, AtHome
<1> QED BY <1>1, <1>2, <1>3, <1>4, <1>5, QuietOrder
LEMMA EnterOrder ==
    ASSUME DeliveryInv, OrderInv, NEW r \in Requests, NEW v, Step(r, v), log' = log,
           req[r].pc \notin Topics, NEW p \in Topics, v.pc = p, v.seq = 0,
           \A q \in Requests : req[q].pc # p,
           \/ v.kind = req[r].kind /\ req[r].pc # "idle"
           \/ \A q \in Requests : req[q].kind # v.kind,
           \A t \in Topics : r \notin Past(t)', done' = done, held' = held
    PROVE  OrderInv'
<1>1. OneOfAKind /\ OneOfAKind'
  BY OneOfAKindKeeps DEF OrderInv
<1>2. ASSUME NEW t \in Topics, Unbroken(t)'
      PROVE  InOrder(t)'
  <2>1. InOrder(t)
    BY <1>2 DEF OrderInv, Unbroken, Step
  <2>2. Due(t)' \subseteq Due(t)
    BY DueStays
  <2>3. CASE t = p
    BY <2>1, <2>2, <2>3, EnterTopic
  <2>4. CASE t # p
    BY <1>1, <2>1, <2>2, <2>4, QuietTopic
  <2> QED BY <2>3, <2>4
<1> QED BY <1>1, <1>2 DEF OrderInv

LEMMA EndDocumentsOrder ==
    ASSUME DeliveryInv, DeliveryInv', OrderInv, NEW r \in Requests, EndDocuments(r)
    PROVE  OrderInv'
<1> DEFINE v == [req[r] EXCEPT !.flags = TypesOf(documents, req[r].app), !.pc = "audio"]
<1>1. /\ log' = log /\ documents' = documents /\ told' = told /\ cut' = cut
      /\ done' = done /\ astray' = astray /\ held' = held /\ req[r].pc = "complete"
  BY DEF EndDocuments, kafka, history
<1>2. /\ v.pc = "audio" /\ v.kind = req[r].kind /\ v.seq = req[r].seq
      /\ req' = [req EXCEPT ![r] = v]
  BY Facts DEF EndDocuments, States
<1> HIDE DEF v
<1>3. Step(r, v) /\ req'[r] = v
  BY <1>1, <1>2, StepOf, Keeps
<1>4. EndInv(r) /\ req[r].seq = 0
  BY <1>1, Facts DEF RequestInv, Topics, DegreeInv, UploadInv
<1>5. ASSUME NEW q \in Requests, req[q].pc = "audio"
      PROVE  FALSE
  <2>1. q = r
    BY <1>1, <1>4, <1>5, Sole DEF OrderInv, EndInv, KindOf, Topics
  <2> QED BY <1>1, <1>5, <2>1
<1>6. \A t \in Topics : r \notin Past(t)'
  BY <1>2, <1>3, <1>4 DEF Past, AtHome, EndInv
<1>7. req[r].pc \notin Topics /\ req[r].pc # "idle" /\ "audio" \in Topics
  BY <1>1 DEF Topics
<1> QED BY <1>1, <1>2, <1>3, <1>4, <1>5, <1>6, <1>7, EnterOrder

LEMMA UploadAssembledOrder ==
    ASSUME DeliveryInv, DeliveryInv', OrderInv, ~Overlap, NEW r \in Requests, NEW u \in Uploads,
           UploadAssembled(r, u)
    PROVE  OrderInv'
<1> DEFINE v == [Idle EXCEPT !.pc = "workexp", !.kind = "WORKEXP_VIDEO",
                             !.id = u, !.app = UploadApp[u]]
<1>1. /\ log' = log /\ documents' = documents /\ told' = told /\ cut' = cut
      /\ done' = done /\ astray' = astray /\ held' = held
      /\ req[r].pc = "idle" /\ InFlight("WORKEXP_VIDEO") = {}
  BY DEF UploadAssembled, kafka, history
<1>2. /\ v.pc = "workexp" /\ v.kind = "WORKEXP_VIDEO" /\ v.seq = 0
      /\ req' = [req EXCEPT ![r] = v]
  BY DEF UploadAssembled, Idle
<1> HIDE DEF v
<1>3. Step(r, v) /\ req'[r] = v
  BY <1>1, <1>2, StepOf, Keeps
<1>4. \A q \in Requests : req[q].kind # v.kind
  BY <1>1, <1>2 DEF InFlight
<1>5. \A q \in Requests : req[q].pc # "workexp"
  BY <1>2, <1>4, SenderFacts DEF Topics, UploadInv
<1>6. \A t \in Topics : r \notin Past(t)'
  BY <1>2, <1>3 DEF Past, AtHome
<1>7. req[r].pc \notin Topics /\ "workexp" \in Topics
  BY <1>1 DEF Topics
<1> QED BY <1>1, <1>2, <1>3, <1>4, <1>5, <1>6, <1>7, EnterOrder

LEMMA ProduceChunkOrder ==
    ASSUME DeliveryInv, DeliveryInv', OrderInv, NEW r \in Requests, ProduceChunk(r)
    PROVE  OrderInv'
<1> DEFINE v == [req[r] EXCEPT !.seq = @ + 1]
           p == req[r].pc
<1>1. /\ p \in Topics /\ req[r].seq < Len(Chunks(r)) /\ Publish(r)
      /\ meta' = meta /\ documents' = documents /\ told' = told /\ cut' = cut
      /\ done' = done /\ astray' = astray /\ held' = held /\ pending' = pending
  BY DEF ProduceChunk, history
<1>2. /\ req' = [req EXCEPT ![r] = v]
      /\ v.pc = p /\ v.kind = req[r].kind /\ v.id = req[r].id /\ v.seq = req[r].seq + 1
      /\ v.worker = req[r].worker
  BY Facts DEF ProduceChunk, States
<1> HIDE DEF v
<1>3. /\ Grows /\ \A t \in Topics : t # p => log'[t] = log[t]
  <2>1. Message(r) \in Messages
    BY <1>1, SenderFacts, Sends, ChunkType
  <2> QED BY <1>1, <2>1, PublishGrows DEF DeliveryInv
<1>4. req'[r] = v /\ v \in States
  BY <1>2 DEF DeliveryInv, TypeOK
<1>5. Step(r, v)
  BY <1>1, <1>2, <1>3, <1>4 DEF Step, DeliveryInv, TypeOK
<1>6. \A t \in Topics : r \in Past(t)' => r \in Past(t) /\ v.id = req[r].id
  BY <1>2, <1>4 DEF Past, AtHome
<1>7. \A t \in Topics : Due(t)' \subseteq Due(t)
  BY <1>1, <1>5, <1>6, DueStays
<1>8. OneOfAKind /\ OneOfAKind'
  BY <1>1, <1>2, <1>5, OneOfAKindKeeps DEF OrderInv, Topics
<1>9. ASSUME NEW t \in Topics, Unbroken(t)'
      PROVE  InOrder(t)'
  <2>1. InOrder(t)
    BY <1>1, <1>9 DEF OrderInv, Unbroken
  <2>2. CASE t = p
    BY <1>1, <1>2, <1>5, <1>7, <1>8, <2>1, <2>2, PublishTopic
  <2>3. CASE t # p
    BY <1>1, <1>2, <1>3, <1>5, <1>7, <1>8, <2>1, <2>3, QuietTopic
  <2> QED BY <2>2, <2>3
<1> QED BY <1>8, <1>9 DEF OrderInv

\* r leaves the topic p for the next one.
LEMMA LeaveOrder ==
    ASSUME DeliveryInv, OrderInv, NEW r \in Requests, NEW p \in Topics, req[r].pc = p,
           Move(r, After(p)), Step(r, Moved(r, After(p))),
           \A t \in Topics : t # p => log'[t] = log[t], done' = done, held' = held,
           OneOfAKind /\ Unbroken(p)' => InOrder(p)'
    PROVE  OrderInv'
<1> DEFINE v == Moved(r, After(p))
<1>1. /\ v.pc = After(p) /\ v.kind = req[r].kind /\ v.id = req[r].id /\ v.seq = 0
      /\ After(p) \in PCs /\ \A t \in Topics : r \in Past(t)' /\ r \notin Past(t) => t = p
  BY Leaves, MoveType
<1> HIDE DEF v
<1>2. Step(r, v)
  BY DEF v
<1>3. /\ req[r].pc # "idle" /\ (p # "workexp" => req[r].kind = "end")
      /\ After(p) \in Topics => After(p) = "video" /\ p = "audio"
  BY SenderFacts DEF Topics, After, EndInv
<1>4. OneOfAKind /\ OneOfAKind'
  BY <1>1, <1>2, <1>3, OneOfAKindKeeps DEF OrderInv
<1>5. ASSUME NEW t \in Topics, t # p, Unbroken(t)'
      PROVE  InOrder(t)'
  <2>1. InOrder(t) /\ log'[t] = log[t]
    BY <1>2, <1>5 DEF OrderInv, Unbroken, Step
  <2>2. Due(t)' \subseteq Due(t)
    <3> SUFFICES ASSUME NEW x \in Due(t)'
                 PROVE  x \in Due(t)
      OBVIOUS
    <3>1. CASE r \in Past(t)' /\ x = v.id
      BY <1>1, <1>5, <3>1 DEF Due
    <3> QED BY <1>2, <3>1, DueOfOthers
  <2>3. CASE t = After(p)
    <3>1. \A q \in Requests : req[q].pc # t
      BY <1>3, <1>4, <1>5, <2>3, Sole DEF KindOf
    <3> QED BY <1>1, <1>2, <2>1, <2>2, <2>3, <3>1, EnterTopic
  <2>4. CASE t # After(p)
    BY <1>1, <1>2, <1>4, <1>5, <2>1, <2>2, <2>4, QuietTopic
  <2> QED BY <2>3, <2>4
<1> QED BY <1>4, <1>5 DEF OrderInv

LEMMA ProduceEndOrder ==
    ASSUME DeliveryInv, OrderInv, NEW r \in Requests, ProduceEnd(r)
    PROVE  OrderInv'
<1> DEFINE p == req[r].pc
           v == Moved(r, After(p))
<1>1. /\ p \in Topics /\ req[r].seq = Len(Chunks(r)) /\ Move(r, After(p))
      /\ log' = log /\ meta' = meta /\ documents' = documents /\ told' = told /\ cut' = cut
      /\ done' = done /\ astray' = astray /\ held' = held /\ pending' = pending /\ faults' = faults
  BY DEF ProduceEnd, kafka, history
<1>2. After(p) \in PCs /\ After(p) # p
  BY <1>1 DEF After, Topics, PCs
<1>3. Step(r, v)
  BY <1>1, <1>2, MovedStep
<1>4. v.pc = After(p) /\ v.id = req[r].id /\ v.worker = req[r].worker
  BY <1>1, <1>2, MoveType
<1> HIDE DEF v
<1>5. ASSUME NEW t \in Topics, t = p, OneOfAKind, Unbroken(t)'
      PROVE  InOrder(t)'
  <2>1. InOrder(t)
    BY <1>1, <1>5 DEF OrderInv, Unbroken
  <2>2. \A x \in Due(t)' : x \in Due(t) \/ x = req[r].id
    BY <1>1, <1>3, <1>4, DueOfOthers
  <2>4. (t # "workexp" /\ ~AtHome(r)) => Due(t)' \subseteq Due(t)
    <3>1. r \in Past(t)' => t = "workexp" \/ AtHome(r)
      BY <1>3, <1>4, Keeps DEF Past, AtHome
    <3> QED BY <1>1, <1>3, <1>4, <3>1, DueOfOthers
  <2>3. log'[t] = log[t] /\ req[r].pc = t /\ req[r].seq = Len(Chunks(r)) /\ v.pc # t
    BY <1>1, <1>2, <1>4, <1>5
  <2> QED BY <1>3, <1>5, <2>1, <2>2, <2>3, <2>4, LeaveTopic
<1>6. \A t \in Topics : t = p => OrderInv'
  <2> TAKE t \in Topics
  <2> HAVE t = p
  <2>1. OneOfAKind /\ Unbroken(t)' => InOrder(t)'
    BY <1>5
  <2> QED BY <1>1, <1>3, <2>1, LeaveOrder DEF v
<1> QED BY <1>1, <1>6
LEMMA ProduceFailsOrder ==
    ASSUME DeliveryInv, DeliveryInv', OrderInv, NEW r \in Requests, ProduceFails(r)
    PROVE  OrderInv'
<1> DEFINE p == req[r].pc
           v == Moved(r, After(p))
<1>1. /\ p \in Topics /\ req[r].seq < Len(Chunks(r)) /\ Move(r, After(p))
      /\ Publish(r) \/ log' = log
      /\ cut' = cut \cup {<<p, req[r].id>>}
      /\ meta' = meta /\ documents' = documents /\ told' = told
      /\ done' = done /\ astray' = astray /\ held' = held /\ pending' = pending
  BY DEF ProduceFails
<1>2. After(p) \in PCs
  BY <1>1 DEF After, Topics, PCs
<1>3. /\ Grows /\ \A t \in Topics : t # p => log'[t] = log[t]
  <2>1. Message(r) \in Messages /\ TypeOK
    BY <1>1, SenderFacts, Sends, ChunkType DEF DeliveryInv
  <2> QED BY <1>1, <2>1, PublishGrows, SameLogGrows
<1>4. /\ req' = [req EXCEPT ![r] = v] /\ v \in States
  BY <1>1, <1>2, MoveType
<1> HIDE DEF v
<1>5. Step(r, v)
  BY <1>1, <1>3, <1>4 DEF Step, DeliveryInv, TypeOK
<1>6. \A t \in Topics : t = p => ~Unbroken(t)'
  <2>1. \E c \in cut' : c[1] = p
    <3>1. <<p, req[r].id>> \in cut' /\ <<p, req[r].id>>[1] = p
      BY <1>1
    <3> QED BY <3>1
  <2> QED BY <2>1 DEF Unbroken
<1>7. \A t \in Topics : t = p => OrderInv'
  BY <1>1, <1>3, <1>5, <1>6, LeaveOrder DEF v
<1> QED BY <1>1, <1>7

LEMMA RestartOrder ==
    ASSUME DeliveryInv, OrderInv, Restart
    PROVE  OrderInv'
<1> DEFINE buffers == {<<t, s>> : t \in {"audio", "video"}, s \in held}
           sending == UNION {Unfinished(r) : r \in Requests}
<1>1. cut' = cut \cup sending \cup buffers
  BY DEF Restart
<1>2. /\ held' = {} /\ req' = [r \in Requests |-> Idle] /\ log' = log /\ done' = done
  BY DEF Restart, kafka
<1>3. /\ \A t \in {"audio", "video"} : \A s \in held : <<t, s>> \in buffers
      /\ \A r \in Requests : Unfinished(r) \subseteq sending
  OBVIOUS
<1> HIDE DEF buffers, sending
<1>4. \A r \in Requests : req'[r].pc = "idle"
  BY <1>2, IdleType
<1>5. OneOfAKind'
  BY <1>4 DEF OneOfAKind
<1>6. ASSUME NEW t \in Topics, Unbroken(t)'
      PROVE  InOrder(t)'
  <2>1. InOrder(t)
    BY <1>1, <1>6 DEF OrderInv, Unbroken
  <2>2. t # "workexp" => held = {}
    <3>1. \A s \in held : <<t, s>> \in cut' => FALSE
      BY <1>6 DEF Unbroken
    <3> QED BY <1>1, <1>3, <3>1 DEF Topics
  <2>3. Due(t)' \subseteq Due(t)
    <3>1. Past(t)' = {}
      BY <1>4 DEF Past, AtHome
    <3> QED BY <1>2, <2>2, <3>1 DEF Due
  <2>4. log[t] = <<>> \/ Len(log[t]) \in Closed(t)
    <3>1. CASE \A r \in Requests : req[r].pc # t
      BY <2>1, <3>1 DEF InOrder
    <3>2. ASSUME NEW r \in Requests, req[r].pc = t
          PROVE  log[t] = <<>> \/ Len(log[t]) \in Closed(t)
      <4>1. ~(req[r].seq < Len(Chunks(r)))
        <5>1. <<t, req[r].id>> \notin cut'
          BY <1>6 DEF Unbroken
        <5> QED BY <1>1, <1>3, <3>2, <5>1 DEF Unfinished
      <4>2. req[r].seq <= Len(Chunks(r)) /\ req[r].seq \in Nat
        BY <2>1, <3>2, Facts DEF InOrder
      <4>3. Len(Chunks(r)) \in Nat
        BY <3>2, SenderFacts, PiecesType DEF Chunks, AtHome
      <4>4. req[r].seq = Len(Chunks(r))
        BY ONLY <4>1, <4>2, <4>3
      <4> QED BY <2>1, <3>2, <4>4, LastClosed
    <3> QED BY <3>1, <3>2
  <2>5. \A q \in Requests : req'[q].pc # t
    BY <1>4 DEF Topics
  <2> QED BY <1>2, <2>1, <2>3, <2>4, <2>5, StaysInOrder
<1> QED BY <1>5, <1>6 DEF OrderInv

LEMMA StutterOrder ==
    ASSUME OrderInv, UNCHANGED vars
    PROVE  OrderInv'
<1>1. /\ log' = log /\ cut' = cut /\ done' = done /\ astray' = astray /\ held' = held /\ req' = req
  BY DEF vars, kafka, history
<1>2. OneOfAKind'
  BY <1>1 DEF OrderInv, OneOfAKind
<1>3. ASSUME NEW t \in Topics, Unbroken(t)'
      PROVE  InOrder(t)'
  <2>1. InOrder(t)
    BY <1>1, <1>3 DEF OrderInv, Unbroken
  <2>2. Due(t)' = Due(t) /\ \A q \in Requests : Chunks(q)' = Chunks(q)
    BY <1>1 DEF Due, Past, AtHome, Chunks
  <2>3. \A q \in Requests : req'[q].pc = t =>
           /\ req'[q].seq <= Len(Chunks(q)')
           /\ EndsWith(t, Len(log[t]), req'[q].id, req'[q].seq)
    BY <1>1, <2>1, <2>2 DEF InOrder
  <2>4. (\A q \in Requests : req'[q].pc # t) => log[t] = <<>> \/ Len(log[t]) \in Closed(t)
    BY <1>1, <2>1 DEF InOrder
  <2> QED BY <1>1, <2>1, <2>2, <2>3, <2>4, StaysInOrder
<1> QED BY <1>2, <1>3 DEF OrderInv

LEMMA OrderStep ==
    ASSUME ~Overlap, DeliveryInv, DeliveryInv', OrderInv, [Next]_vars
    PROVE  OrderInv'
<1>1. ASSUME NEW r \in Requests, NEW s \in Sessions, NEW w \in Workers,
             EndLoad(r, s, w)
      PROVE  OrderInv'
  BY <1>1, BeginOrder
<1>2. ASSUME NEW r \in Requests, NEW a \in Apps, DegreeCheck(r, a)
      PROVE  OrderInv'
  BY <1>2, BeginOrder
<1>3. ASSUME NEW r \in Requests, NEW u \in Uploads, UploadAssembled(r, u)
      PROVE  OrderInv'
  BY <1>3, UploadAssembledOrder
<1>4. ASSUME NEW r \in Requests, Handle(r)
      PROVE  OrderInv'
  BY <1>4, ProduceChunkOrder, ProduceEndOrder, EndDocumentsOrder, MoveOrder, AnswerOrder DEF Handle
<1>5. ASSUME NEW r \in Requests, ProduceFails(r) \/ SendMetaFails(r) \/ InsertDocumentFails(r) \/ Fail(r)
      PROVE  OrderInv'
  BY <1>5, ProduceFailsOrder, MoveOrder, AnswerOrder
<1> QED BY <1>1, <1>2, <1>3, <1>4, <1>5, RestartOrder, StutterOrder DEF Next

LEMMA OrderStarts ==
    ASSUME Init
    PROVE  OrderInv
<1>1. /\ log = [t \in Topics |-> <<>>] /\ done = {} /\ held = Sessions
      /\ \A r \in Requests : req[r].pc = "idle"
  BY IdleType DEF Init
<1>2. \A t \in Topics : log[t] = <<>> /\ Closed(t) = {}
  BY <1>1 DEF Closed
<1>3. \A t \in Topics : Due(t) = {}
  BY <1>1 DEF Due, Past, AtHome
<1>4. \A t \in Topics : \A r \in Requests : req[r].pc # t
  BY <1>1 DEF Topics
<1> QED BY <1>1, <1>2, <1>3, <1>4 DEF OrderInv, OneOfAKind, InOrder

\* The inductive invariant holds: material precedes claims, and without overlap
\* every list on a topic is one medium's chunks in order.
THEOREM IInvHolds == Spec => []IInv
<1>1. Init => IInv
  BY DeliveryStarts, OrderStarts DEF IInv
<1>2. IInv /\ [Next]_vars => IInv'
  BY DeliveryStep, OrderStep DEF IInv
<1> QED BY <1>1, <1>2, PTL DEF Spec

-----------------------------------------------------------------------------
(***************************************************************************)
(* What the consumer puts together.                                        *)
(***************************************************************************)
\* The list that k closes is the medium whose chunks end there.
LEMMA ListOf ==
    ASSUME TypeOK, NEW t \in Topics, NEW k \in Closed(t), NEW x \in Owners, Whole(t, k, x)
    PROVE  /\ Len(List(t, k)) = Len(Pieces(x, t)) /\ List(t, k) \in Seq(Messages)
           /\ \A j \in 1..Len(Pieces(x, t)) : List(t, k)[j] = Chunk(x, t, j - 1)
<1>0. PICK c, L : c = Len(Pieces(x, t)) /\ L = log[t]
  OBVIOUS
<1>1. /\ L \in Seq(Messages) /\ k \in 1..Len(L) /\ k \in Nat /\ L[k].is_last
      /\ Closed(t) = {j \in 1..Len(L) : L[j].is_last}
  BY <1>0 DEF TypeOK, Closed
<1>2. /\ c \in Nat /\ c > 0
  BY <1>0, PiecesType DEF Whole
<1>3. /\ c <= k /\ \A j \in 1..c : L[k - c + j] = Chunk(x, t, j - 1)
      /\ c < k => L[k - c].is_last
  BY <1>0 DEF Whole, EndsWith
<1> DEFINE S == {0} \cup {j \in Closed(t) : j < k}
<1>4. k - c \in S
  BY <1>1, <1>2, <1>3
<1>5. \A j \in S : j \in Nat /\ j <= k - c
  <2> TAKE j \in S
  <2>1. CASE j = 0
    BY <1>1, <1>2, <1>3, <2>1
  <2>2. CASE j # 0
    <3>1. j \in 1..Len(L) /\ j < k /\ L[j].is_last
      BY <1>1, <2>2
    <3>2. ASSUME ~(j <= k - c)
          PROVE  FALSE
      <4>1. PICK i \in 1..c : j = k - c + i /\ i < c
        <5>1. j - (k - c) \in 1..c /\ j = k - c + (j - (k - c)) /\ j - (k - c) < c
          BY <1>1, <1>2, <1>3, <3>1, <3>2
        <5> QED BY <5>1
      <4>2. L[j] = Chunk(x, t, i - 1) /\ i - 1 \in 0..c - 1
        BY <1>2, <1>3, <4>1
      <4>3. i - 1 = c - 1
        BY <1>0, <3>1, <4>2, ChunkType
      <4> QED BY <1>2, <4>1, <4>3
    <3> QED BY <3>1, <3>2
  <2> QED BY <2>1, <2>2
<1>6. Max(S) = k - c
  <2> HIDE DEF S
  <2>1. \E m \in S : \A y \in S : m >= y
    BY <1>4, <1>5
  <2>2. Max(S) \in S /\ \A y \in S : Max(S) >= y
    BY <2>1 DEF Max
  <2> QED BY <1>1, <1>2, <1>4, <1>5, <2>2
<1>7. List(t, k) = SubSeq(L, k - c + 1, k)
  BY <1>0, <1>6 DEF List
<1> HIDE DEF S
<1>8. /\ Len(List(t, k)) = c /\ List(t, k) \in Seq(Messages)
      /\ \A j \in 1..c : List(t, k)[j] = L[k - c + 1 + j - 1]
  <2>1. PICK m \in 1..Len(L) + 1 : m = k - c + 1
    BY <1>1, <1>2, <1>3
  <2>2. m \in Int /\ k \in Int /\ m <= k + 1 /\ k - m + 1 = c
    BY <1>1, <1>2, <1>3, <2>1
  <2>3. \A i \in m..k : L[i] \in Messages
    <3>1. \A i \in m..k : i \in 1..Len(L)
      BY <1>1, <2>1
    <3> QED BY <1>1, <3>1
  <2>4. /\ SubSeq(L, m, k) \in Seq(Messages)
        /\ Len(SubSeq(L, m, k)) = IF m <= k THEN k - m + 1 ELSE 0
        /\ \A j \in 1..k - m + 1 : SubSeq(L, m, k)[j] = L[m + j - 1]
    BY ONLY <2>2, <2>3, SubSeqProperties
  <2>5. List(t, k) = SubSeq(L, m, k)
    BY <1>7, <2>1
  <2>6. Len(SubSeq(L, m, k)) = c
    BY ONLY <2>2, <2>4
  <2> QED BY <2>1, <2>2, <2>4, <2>5, <2>6
<1>9. \A j \in 1..c : List(t, k)[j] = Chunk(x, t, j - 1)
  <2> TAKE j \in 1..c
  <2>1. k - c + 1 + j - 1 = k - c + j
    BY <1>1, <1>2
  <2> QED BY <1>3, <1>8, <2>1
<1> QED BY <1>0, <1>8, <1>9

\* A list of one medium's chunks has no gaps, and joins to the medium.
LEMMA ConsumeWhole ==
    ASSUME NEW t \in Topics, NEW x \in Owners, SizeOf(t) > 0, NEW list \in Seq(Messages),
           Len(list) = Len(Pieces(x, t)),
           \A j \in 1..Len(Pieces(x, t)) : list[j] = Chunk(x, t, j - 1)
    PROVE  Consume(list) = Data(x, t)
<1> DEFINE c == Len(list)
<1>1. c \in Nat /\ DOMAIN list = 1..c /\ ToSet(list) = {list[j] : j \in 1..c}
  BY DEF ToSet
<1>2. \A j \in 1..c : /\ list[j].chunk_seq = j - 1 /\ list[j].data = Pieces(x, t)[j]
                      /\ list[j] \in ToSet(list)
  <2> TAKE j \in 1..c
  <2>1. j - 1 \in 0..Len(Pieces(x, t)) - 1 /\ j - 1 + 1 = j
    BY <1>1
  <2> QED BY <1>1, <2>1, ChunkType
<1>3. NoGaps(list)
  <2>1. \A m \in ToSet(list) : m.chunk_seq \in 0..c - 1
    <3> TAKE m \in ToSet(list)
    <3>1. PICK j \in 1..c : m = list[j]
      BY <1>1
    <3>2. m.chunk_seq = j - 1
      BY <1>2, <3>1
    <3> QED BY <1>1, <3>2
  <2>2. \A i \in 0..c - 1 : \E m \in ToSet(list) : m.chunk_seq = i
    <3> TAKE i \in 0..c - 1
    <3>1. i + 1 \in 1..c /\ i + 1 - 1 = i
      BY <1>1
    <3> QED BY <1>2, <3>1
  <2> QED BY <2>1, <2>2 DEF NoGaps
<1>4. Sorted(list) = list
  <2>1. ASSUME NEW i \in 1..c
        PROVE  (CHOOSE m \in ToSet(list) : m.chunk_seq = i - 1) = list[i]
    <3>1. \A m \in ToSet(list) : m.chunk_seq = i - 1 => m = list[i]
      <4> TAKE m \in ToSet(list)
      <4>1. PICK j \in 1..c : m = list[j]
        BY <1>1
      <4>2. m.chunk_seq = j - 1
        BY <1>2, <4>1
      <4>3. j - 1 = i - 1 => j = i
        BY <1>1
      <4> QED BY <4>1, <4>2, <4>3
    <3> QED BY <1>2, <3>1
  <2>2. list = [i \in 1..c |-> list[i]]
    BY <1>1
  <2> QED BY <2>1, <2>2 DEF Sorted
<1>5. [i \in 1..c |-> list[i].data] = Pieces(x, t)
  <2>1. Pieces(x, t) \in Seq(Seq(Owners \X Nat)) /\ DOMAIN Pieces(x, t) = 1..c
    BY PiecesType
  <2>2. Pieces(x, t) = [i \in 1..c |-> Pieces(x, t)[i]]
    BY <2>1
  <2> QED BY <1>2, <2>2
<1>6. FlattenSeq(Pieces(x, t)) = Data(x, t)
  <2>1. Data(x, t) \in Seq(Owners \X Nat) /\ Len(Data(x, t)) > 0
    BY MediumType
  <2>2. KAFKA_CHUNK_BYTES \in Nat \ {0} /\ Data(x, t) # <<>>
    BY <2>1, SizesAssumption
  <2> QED BY <2>1, <2>2, ChunksJoin, PiecesAre
<1> QED BY <1>3, <1>4, <1>5, <1>6 DEF Consume, Joined

\* As long as handlers of one kind do not overlap and no send on the topic has
\* stopped half way, what the consumer puts together is one whole medium, and
\* that of every completed interview is among it: for any sizes, any chunk
\* size, any number of requests, interviews and uploads.
THEOREM MediaArriveWholeHolds ==
    ASSUME ~Overlap
    PROVE  Spec => []MediaArriveWhole
<1>1. ASSUME IInv
      PROVE  MediaArriveWhole
  <2> SUFFICES ASSUME NEW t \in Topics, Unbroken(t)
               PROVE  /\ Media(t) \subseteq {Data(x, t) : x \in Sessions \cup Uploads}
                      /\ t # "workexp" /\ SizeOf(t) > 0 => \A s \in done : Data(s, t) \in Media(t)
    BY DEF MediaArriveWhole
  <2>1. TypeOK /\ InOrder(t)
    BY <1>1 DEF IInv, DeliveryInv, OrderInv
  <2>2. ASSUME NEW k \in Closed(t), NEW x \in Owners, Whole(t, k, x)
        PROVE  Consume(List(t, k)) = Data(x, t)
    <3>1. SizeOf(t) > 0
      BY <2>2 DEF Whole
    <3> QED BY <2>1, <2>2, <3>1, ListOf, ConsumeWhole
  <2>3. \A k \in Closed(t) : \E x \in Sessions \cup Uploads : Consume(List(t, k)) = Data(x, t)
    BY <2>1, <2>2 DEF InOrder, Owners
  <2>4. ASSUME t # "workexp", SizeOf(t) > 0, NEW s \in done
        PROVE  Data(s, t) \in Media(t)
    <3>1. s \in Due(t) /\ s \in Owners
      BY <2>1, <2>4 DEF Due, TypeOK, Owners
    <3>2. PICK k \in Closed(t) : Whole(t, k, s)
      BY <2>1, <2>4, <3>1 DEF InOrder
    <3>3. Consume(List(t, k)) = Data(s, t)
      BY <2>2, <3>1, <3>2
    <3> QED BY <3>3 DEF Media
  <2> QED BY <2>3, <2>4 DEF Media
<1>2. IInv => MediaArriveWhole
  BY <1>1
<1> QED BY <1>2, IInvHolds, PTL

-----------------------------------------------------------------------------
(***************************************************************************)
(* Where a video of Uploads comes from: ChunkedUpload, for a client that   *)
(* waits for its answers (OneAtATime), with any number of chunks, any of   *)
(* them flagged last, and any number of failures and crashes.  Only full   *)
(* videos are sent, what is on record as received is kept, and there is at *)
(* most one document.                                                      *)
(***************************************************************************)
USE UploadAssumption DEF U!ChunksAssumption

LEMMA UploadIdleIsState == U!Idle \in U!States /\ U!Idle.pc = "idle"
BY DEF U!Idle, U!States, U!PCs

LEMMA UploadExpectedIsChunks == U!Expected = U!Chunks
BY DEF U!Expected, U!Chunks

LEMMA UploadInitIInv == U!Init => U!IInv
<1> SUFFICES ASSUME U!Init PROVE U!IInv
  OBVIOUS
<1>1. /\ \A r \in UploadRequests : ureq[r] = U!Idle
      /\ ureq = [r \in UploadRequests |-> U!Idle]
      /\ disk = {} /\ assembled = NoUpload /\ sent = {} /\ docs = 0 /\ ufaults = 0
  BY DEF U!Init
<1>2. /\ upload \in U!Uploads /\ upload.received = {} /\ upload.status = "in_progress"
  <2>1. PICK a \in {"", "app"} :
          upload = [application_id |-> a, received |-> {}, status |-> "in_progress"]
    BY DEF U!Init
  <2> QED BY <2>1 DEF U!Uploads
<1>3. U!TypeOK
  BY <1>1, <1>2, UploadIdleIsState DEF U!TypeOK
<1>4. U!ReceivedIsKept /\ U!Unassembled /\ U!DocumentInv /\ U!FullVideoSent /\ U!OneDocument
  BY <1>1, <1>2 DEF U!ReceivedIsKept, U!Unassembled, U!DocumentInv,
     U!FullVideoSent, U!OneDocument
<1>5. \A r \in UploadRequests : U!RequestInv(r)
  BY <1>1, UploadIdleIsState DEF U!RequestInv
<1> QED BY <1>3, <1>4, <1>5 DEF U!IInv

-----------------------------------------------------------------------------
(***************************************************************************)
(* The one request.                                                        *)
(***************************************************************************)
LEMMA UploadFacts ==
    ASSUME U!IInv, NEW r \in UploadRequests
    PROVE  /\ upload \in U!Uploads \cup {NoUpload} /\ disk \subseteq U!Chunks
           /\ ureq \in [UploadRequests -> U!States] /\ ureq[r] \in U!States
           /\ ureq[r].pc # "idle" => ureq[r].chunk \in U!Chunks /\ ureq[r].session \in U!Uploads
           /\ ufaults \in 0..UploadFaults /\ docs \in {0, 1}
           /\ U!RequestInv(r)
BY DEF U!IInv, U!TypeOK, U!OneDocument

\* The request is the only one, and takes state v.
LEMMA UploadMoves ==
    ASSUME U!IInv, U!OneAtATime, NEW r \in UploadRequests, NEW v,
           v \in U!States, ureq' = [ureq EXCEPT ![r] = v],
           v.pc # "idle" => v.chunk \in U!Chunks /\ v.session \in U!Uploads,
           upload' \in U!Uploads \cup {NoUpload}, disk' \subseteq U!Chunks,
           assembled' = NoUpload \/ assembled' \subseteq U!Chunks,
           sent' \subseteq SUBSET U!Chunks, docs' \in {0, 1}, ufaults' \in 0..UploadFaults
    PROVE  U!TypeOK' /\ ureq'[r] = v /\ \A q \in UploadRequests : q = r
<1>1. ureq \in [UploadRequests -> U!States]
  BY UploadFacts
<1>2. ureq' \in [UploadRequests -> U!States] /\ ureq'[r] = v
  BY <1>1
<1>3. \A q \in UploadRequests : q = r
  BY DEF U!OneAtATime
<1>4. \A q \in UploadRequests :
         ureq'[q].pc # "idle" => ureq'[q].chunk \in U!Chunks /\ ureq'[q].session \in U!Uploads
  BY <1>2, <1>3
<1>5. U!TypeOK'
  BY <1>2, <1>4 DEF U!TypeOK
<1> QED BY <1>2, <1>3, <1>5

\* A request that answers, or fails, leaves nothing to watch over.
LEMMA UploadAnswers ==
    ASSUME U!IInv, U!OneAtATime, NEW r \in UploadRequests, U!Answer(r),
           UNCHANGED <<upload, disk, sent>>, docs' \in {0, 1}, ufaults' \in 0..UploadFaults,
           assembled' = assembled \/ (assembled' = NoUpload /\ U!Full(upload) /\ U!Chunks \subseteq disk),
           docs' = docs \/ upload = NoUpload \/ upload.status = "complete"
    PROVE  U!IInv'
<1>1. PICK v : v = U!Idle
  OBVIOUS
<1>2. v \in U!States /\ v.pc = "idle" /\ ureq' = [ureq EXCEPT ![r] = v]
  BY <1>1, UploadIdleIsState DEF U!Answer
<1>3. /\ upload \in U!Uploads \cup {NoUpload} /\ disk \subseteq U!Chunks /\ sent \subseteq SUBSET U!Chunks
      /\ assembled' = NoUpload \/ assembled' \subseteq U!Chunks
  BY DEF U!IInv, U!TypeOK
<1>4. U!TypeOK' /\ ureq'[r] = v /\ \A q \in UploadRequests : q = r
  BY <1>2, <1>3, UploadMoves
<1>5. \A q \in UploadRequests : U!RequestInv(q)'
  BY <1>2, <1>4 DEF U!RequestInv
<1>6. U!ReceivedIsKept'
  <2>1. upload # NoUpload => upload.received \subseteq U!Chunks
    BY <1>3 DEF U!Uploads
  <2> QED BY <2>1 DEF U!IInv, U!ReceivedIsKept
<1>7. U!Unassembled'
  BY DEF U!IInv, U!Unassembled, U!Full
<1>8. U!DocumentInv'
  <2>1. docs \in {0, 1}
    BY UploadFacts
  <2> QED BY <2>1 DEF U!IInv, U!DocumentInv
<1>9. U!FullVideoSent' /\ U!OneDocument'
  BY DEF U!IInv, U!FullVideoSent, U!OneDocument
<1> QED BY <1>4, <1>5, <1>6, <1>7, <1>8, <1>9 DEF U!IInv

LEMMA UploadGetSessionKeeps ==
    ASSUME U!IInv, U!OneAtATime, NEW r \in UploadRequests, NEW c \in U!Chunks,
           U!GetSession(r, c)
    PROVE  U!IInv'
<1> DEFINE v == [pc |-> "write", chunk |-> c, session |-> upload]
<1>1. /\ upload # NoUpload /\ upload.status # "complete" /\ c \notin upload.received
      /\ ureq' = [ureq EXCEPT ![r] = v]
      /\ UNCHANGED <<upload, disk, assembled, sent, docs, ufaults>>
  BY DEF U!GetSession
<1>2. upload \in U!Uploads /\ upload.received # U!Chunks /\ upload.status = "in_progress" /\ docs = 0
  <2>1. upload \in U!Uploads /\ docs \in {0, 1}
    BY <1>1, UploadFacts
  <2>2. upload.status = "in_progress" /\ upload.received # U!Chunks
    BY <1>1, <2>1 DEF U!Uploads
  <2>3. docs = 0
    BY <1>1, <2>1 DEF U!IInv, U!DocumentInv
  <2> QED BY <2>1, <2>2, <2>3
<1>3. /\ v \in U!States /\ v.pc = "write" /\ v.chunk \in U!Chunks /\ v.session = upload
  BY <1>2 DEF U!States, U!PCs
<1> HIDE DEF v
<1>4. U!TypeOK' /\ ureq'[r] = v /\ \A q \in UploadRequests : q = r
  <2>1. /\ sent' \subseteq SUBSET U!Chunks /\ (assembled' = NoUpload \/ assembled' \subseteq U!Chunks)
        /\ disk' \subseteq U!Chunks /\ docs' \in {0, 1} /\ ufaults' \in 0..UploadFaults
    BY <1>1, UploadFacts DEF U!IInv, U!TypeOK
  <2> QED BY <1>1, <1>2, <1>3, <2>1, UploadMoves
<1>5. upload.received \subseteq disk /\ assembled = NoUpload
  BY <1>1, <1>2 DEF U!IInv, U!Unassembled
<1>6. \A q \in UploadRequests : U!RequestInv(q)'
  BY <1>1, <1>2, <1>3, <1>4, <1>5 DEF U!RequestInv
<1>7. (U!ReceivedIsKept /\ U!Unassembled /\ U!DocumentInv /\ U!FullVideoSent /\ U!OneDocument)'
  BY <1>1 DEF U!IInv, U!ReceivedIsKept, U!Unassembled, U!DocumentInv,
     U!FullVideoSent, U!OneDocument
<1> QED BY <1>4, <1>6, <1>7 DEF U!IInv

LEMMA UploadWriteChunkKeeps ==
    ASSUME U!IInv, U!OneAtATime, NEW r \in UploadRequests, U!WriteChunk(r)
    PROVE  U!IInv'
<1> DEFINE u == [ureq[r].session EXCEPT !.received = @ \cup {ureq[r].chunk}]
           v == [ureq[r] EXCEPT !.pc = "set", !.session = u]
<1>1. /\ ureq[r].pc = "write" /\ disk' = disk \cup {ureq[r].chunk}
      /\ UNCHANGED <<upload, assembled, sent, docs, ufaults>>
  BY DEF U!WriteChunk
<1>2. /\ ureq[r] \in U!States /\ ureq[r].chunk \in U!Chunks /\ ureq[r].session \in U!Uploads
      /\ U!RequestInv(r)
      /\ disk \subseteq U!Chunks /\ docs \in {0, 1} /\ ufaults \in 0..UploadFaults
      /\ upload \in U!Uploads \cup {NoUpload}
  BY <1>1, UploadFacts
<1>3. ureq' = [ureq EXCEPT ![r] = v]
  BY <1>2 DEF U!WriteChunk, U!States
<1>4. /\ u \in U!Uploads /\ u.received = ureq[r].session.received \cup {ureq[r].chunk}
      /\ u.status = ureq[r].session.status
  BY <1>2 DEF U!Uploads
<1> HIDE DEF u
<1>5. v \in U!States /\ v.pc = "set" /\ v.chunk = ureq[r].chunk /\ v.session = u
  BY <1>2, <1>4 DEF U!States, U!PCs
<1> HIDE DEF v
<1>6. U!TypeOK' /\ ureq'[r] = v /\ \A q \in UploadRequests : q = r
  <2>1. /\ sent' \subseteq SUBSET U!Chunks /\ (assembled' = NoUpload \/ assembled' \subseteq U!Chunks)
        /\ disk' \subseteq U!Chunks /\ docs' \in {0, 1} /\ ufaults' \in 0..UploadFaults
        /\ upload' \in U!Uploads \cup {NoUpload}
    BY <1>1, <1>2 DEF U!IInv, U!TypeOK
  <2> QED BY <1>2, <1>3, <1>4, <1>5, <2>1, UploadMoves
<1>7. \A q \in UploadRequests : U!RequestInv(q)'
  BY <1>1, <1>2, <1>4, <1>5, <1>6 DEF U!RequestInv
<1>8. (U!ReceivedIsKept /\ U!Unassembled /\ U!DocumentInv /\ U!FullVideoSent /\ U!OneDocument)'
  BY <1>1 DEF U!IInv, U!ReceivedIsKept, U!Unassembled, U!DocumentInv,
     U!FullVideoSent, U!OneDocument
<1> QED BY <1>6, <1>7, <1>8 DEF U!IInv

\* Only the request's place in the handler changes.
LEMMA UploadMoveFacts ==
    ASSUME U!IInv, U!OneAtATime, NEW r \in UploadRequests, NEW pc \in U!PCs,
           U!Move(r, pc), ureq[r].pc # "idle",
           upload' \in U!Uploads \cup {NoUpload}, disk' \subseteq U!Chunks,
           assembled' = NoUpload \/ assembled' \subseteq U!Chunks,
           sent' \subseteq SUBSET U!Chunks, docs' \in {0, 1}, ufaults' \in 0..UploadFaults
    PROVE  /\ U!TypeOK' /\ \A q \in UploadRequests : q = r
           /\ ureq'[r].pc = pc /\ ureq'[r].session = ureq[r].session
<1> DEFINE v == [ureq[r] EXCEPT !.pc = pc]
<1>1. ureq[r] \in U!States /\ ureq[r].chunk \in U!Chunks /\ ureq[r].session \in U!Uploads
  BY UploadFacts
<1>2. v \in U!States /\ v.pc = pc /\ v.chunk = ureq[r].chunk /\ v.session = ureq[r].session
  BY <1>1 DEF U!States
<1>3. ureq' = [ureq EXCEPT ![r] = v]
  BY DEF U!Move
<1> HIDE DEF v
<1>4. U!TypeOK' /\ ureq'[r] = v /\ \A q \in UploadRequests : q = r
  BY <1>1, <1>2, <1>3, UploadMoves
<1> QED BY <1>2, <1>4

LEMMA UploadSetReceivedKeeps ==
    ASSUME U!IInv, U!OneAtATime, NEW r \in UploadRequests, U!SetReceived(r)
    PROVE  U!IInv'
<1>1. /\ ureq[r].pc = "set" /\ upload' = ureq[r].session
      /\ U!Move(r, "assemble") \/ U!Answer(r)
      /\ UNCHANGED <<disk, assembled, sent, docs, ufaults>>
  BY DEF U!SetReceived
<1>2. /\ ureq[r] \in U!States /\ ureq[r].session \in U!Uploads /\ U!RequestInv(r)
      /\ disk \subseteq U!Chunks /\ docs \in {0, 1} /\ ufaults \in 0..UploadFaults
  BY <1>1, UploadFacts
<1>3. /\ ureq[r].session.received \subseteq disk /\ ureq[r].session.status = "in_progress"
      /\ assembled = NoUpload /\ docs = 0
  BY <1>1, <1>2 DEF U!RequestInv
<1>4. /\ sent' \subseteq SUBSET U!Chunks /\ (assembled' = NoUpload \/ assembled' \subseteq U!Chunks)
      /\ disk' \subseteq U!Chunks /\ docs' \in {0, 1} /\ ufaults' \in 0..UploadFaults
      /\ upload' \in U!Uploads \cup {NoUpload}
  BY <1>1, <1>2 DEF U!IInv, U!TypeOK
<1>5. U!TypeOK' /\ \A q \in UploadRequests : U!RequestInv(q)'
  <2>1. CASE U!Move(r, "assemble")
    <3>1. /\ U!TypeOK' /\ \A q \in UploadRequests : q = r
          /\ ureq'[r].pc = "assemble" /\ ureq'[r].session = ureq[r].session
      BY <1>1, <1>4, <2>1, UploadMoveFacts DEF U!PCs
    <3> QED BY <1>1, <1>3, <3>1 DEF U!RequestInv
  <2>2. CASE U!Answer(r)
    <3>1. PICK v : v = U!Idle
      OBVIOUS
    <3>2. v \in U!States /\ v.pc = "idle" /\ ureq' = [ureq EXCEPT ![r] = v]
      BY <2>2, <3>1, UploadIdleIsState DEF U!Answer
    <3>3. U!TypeOK' /\ ureq'[r] = v /\ \A q \in UploadRequests : q = r
      BY <1>4, <3>2, UploadMoves
    <3> QED BY <3>2, <3>3 DEF U!RequestInv
  <2> QED BY <1>1, <2>1, <2>2
<1>6. (U!ReceivedIsKept /\ U!Unassembled /\ U!DocumentInv)'
  BY <1>1, <1>3 DEF U!ReceivedIsKept, U!Unassembled, U!DocumentInv
<1>7. U!FullVideoSent' /\ U!OneDocument'
  BY <1>1 DEF U!IInv, U!FullVideoSent, U!OneDocument
<1> QED BY <1>5, <1>6, <1>7 DEF U!IInv

-----------------------------------------------------------------------------
(***************************************************************************)
(* The assembly.                                                           *)
(***************************************************************************)
\* An assembly that misses no chunk finds them all on disk, and Redis knows
\* of them unless the session has expired.
LEMMA UploadAssemblyFacts ==
    ASSUME U!IInv, NEW r \in UploadRequests, ureq[r].pc = "assemble", U!Missing(r) = {}
    PROVE  /\ ureq[r].session.received = U!Chunks /\ disk = U!Chunks /\ U!Full(upload)
           /\ U!Expected \subseteq disk /\ U!Readable = U!Chunks
<1>1. /\ ureq[r].session \in U!Uploads /\ U!RequestInv(r) /\ disk \subseteq U!Chunks
      /\ upload \in U!Uploads \cup {NoUpload}
  BY UploadFacts
<1>2. ureq[r].session.received = U!Chunks
  BY <1>1, UploadExpectedIsChunks DEF U!Missing, U!Uploads
<1>3. disk = U!Chunks /\ U!Full(upload)
  BY <1>1, <1>2 DEF U!RequestInv, U!Full
<1>4. \A c \in U!Chunks : 0..c \subseteq U!Chunks
  BY DEF U!Chunks
<1>5. U!Readable = U!Chunks
  BY <1>3, <1>4, UploadExpectedIsChunks DEF U!Readable
<1> QED BY <1>2, <1>3, <1>5, UploadExpectedIsChunks

LEMMA UploadAssembleKeeps ==
    ASSUME U!IInv, U!OneAtATime, NEW r \in UploadRequests,
           U!AssembleMissing(r) \/ U!Assemble(r) \/ U!AssembleTooLarge(r)
    PROVE  U!IInv'
<1>1. ufaults \in 0..UploadFaults /\ docs \in {0, 1} /\ U!RequestInv(r)
  BY UploadFacts
<1>2. CASE U!AssembleMissing(r)
  BY <1>1, <1>2, UploadAnswers DEF U!AssembleMissing
<1>3. CASE U!AssembleTooLarge(r)
  <2>1. U!Full(upload) /\ disk = U!Chunks
    BY <1>3, UploadAssemblyFacts DEF U!AssembleTooLarge
  <2> QED BY <1>1, <1>3, <2>1, UploadAnswers DEF U!AssembleTooLarge
<1>4. CASE U!Assemble(r)
  <2>1. /\ ureq[r].session.received = U!Chunks /\ disk = U!Chunks /\ U!Full(upload)
        /\ U!Readable = U!Chunks
        /\ U!Expected \subseteq disk
    BY <1>4, UploadAssemblyFacts DEF U!Assemble
  <2>2. /\ assembled' = U!Chunks /\ U!Move(r, "delete") /\ ureq[r].pc = "assemble"
        /\ UNCHANGED <<upload, disk, sent, docs, ufaults>>
    BY <1>4, <2>1 DEF U!Assemble
  <2>3. docs = 0
    BY <1>1, <2>2 DEF U!RequestInv
  <2>4. /\ sent' \subseteq SUBSET U!Chunks /\ (assembled' = NoUpload \/ assembled' \subseteq U!Chunks)
        /\ disk' \subseteq U!Chunks /\ docs' \in {0, 1} /\ ufaults' \in 0..UploadFaults
        /\ upload' \in U!Uploads \cup {NoUpload}
    BY <1>1, <2>1, <2>2, UploadFacts DEF U!IInv, U!TypeOK
  <2>5. /\ U!TypeOK' /\ \A q \in UploadRequests : q = r
        /\ ureq'[r].pc = "delete" /\ ureq'[r].session = ureq[r].session
    BY <2>2, <2>4, UploadMoveFacts DEF U!PCs
  <2>6. \A q \in UploadRequests : U!RequestInv(q)'
    BY <2>1, <2>2, <2>3, <2>5 DEF U!RequestInv, U!Full
  <2>7. (U!ReceivedIsKept /\ U!Unassembled)'
    BY <2>1, <2>2 DEF U!ReceivedIsKept, U!Unassembled, U!Full
  <2>8. (U!DocumentInv /\ U!FullVideoSent /\ U!OneDocument)'
    BY <2>2 DEF U!IInv, U!DocumentInv, U!FullVideoSent, U!OneDocument
  <2> QED BY <2>5, <2>6, <2>7, <2>8 DEF U!IInv
<1> QED BY <1>2, <1>3, <1>4

LEMMA UploadDeleteChunksKeeps ==
    ASSUME U!IInv, U!OneAtATime, NEW r \in UploadRequests, U!DeleteChunks(r)
    PROVE  U!IInv'
<1> DEFINE u == [ureq[r].session EXCEPT !.status = "complete"]
           v == [ureq[r] EXCEPT !.pc = "complete", !.session = u]
<1>1. /\ ureq[r].pc = "delete" /\ disk' = disk \ U!Expected
      /\ UNCHANGED <<upload, assembled, sent, docs, ufaults>>
  BY DEF U!DeleteChunks
<1>2. /\ ureq[r] \in U!States /\ ureq[r].chunk \in U!Chunks /\ ureq[r].session \in U!Uploads
      /\ U!RequestInv(r)
      /\ disk \subseteq U!Chunks /\ docs \in {0, 1} /\ ufaults \in 0..UploadFaults
      /\ upload \in U!Uploads \cup {NoUpload}
  BY <1>1, UploadFacts
<1>3. ureq' = [ureq EXCEPT ![r] = v]
  BY <1>2 DEF U!DeleteChunks, U!States
<1>4. u \in U!Uploads /\ u.received = ureq[r].session.received /\ u.status = "complete"
  BY <1>2 DEF U!Uploads
<1> HIDE DEF u
<1>5. v \in U!States /\ v.pc = "complete" /\ v.chunk = ureq[r].chunk /\ v.session = u
  BY <1>2, <1>4 DEF U!States, U!PCs
<1> HIDE DEF v
<1>6. U!TypeOK' /\ ureq'[r] = v /\ \A q \in UploadRequests : q = r
  <2>1. /\ sent' \subseteq SUBSET U!Chunks /\ (assembled' = NoUpload \/ assembled' \subseteq U!Chunks)
        /\ disk' \subseteq U!Chunks /\ docs' \in {0, 1} /\ ufaults' \in 0..UploadFaults
        /\ upload' \in U!Uploads \cup {NoUpload}
    BY <1>1, <1>2 DEF U!IInv, U!TypeOK
  <2> QED BY <1>2, <1>3, <1>4, <1>5, <2>1, UploadMoves
<1>7. /\ ureq[r].session.received = U!Chunks /\ U!Full(upload) /\ assembled = U!Chunks /\ docs = 0
  BY <1>1, <1>2 DEF U!RequestInv
<1>8. \A q \in UploadRequests : U!RequestInv(q)'
  BY <1>1, <1>4, <1>5, <1>6, <1>7 DEF U!RequestInv, U!Full
<1>9. (U!ReceivedIsKept /\ U!Unassembled)'
  BY <1>1, <1>7 DEF U!ReceivedIsKept, U!Unassembled, U!Full
<1>10. (U!DocumentInv /\ U!FullVideoSent /\ U!OneDocument)'
  BY <1>1 DEF U!IInv, U!DocumentInv, U!FullVideoSent, U!OneDocument
<1> QED BY <1>6, <1>8, <1>9, <1>10 DEF U!IInv

\* Once assembled: the request moves on, and the video is sent on the way.
LEMMA UploadLateKeeps ==
    ASSUME U!IInv, U!OneAtATime, NEW r \in UploadRequests,
           NEW v \in U!States, v.pc \in {"session", "send", "record"},
           v.chunk \in U!Chunks, v.session \in U!Uploads, ureq' = [ureq EXCEPT ![r] = v],
           ureq[r].pc \in {"complete", "session", "send"},
           \/ upload' = ureq[r].session /\ ureq[r].pc = "complete"
           \/ upload' = upload /\ ureq[r].pc # "complete",
           sent' \in {sent, sent \cup {assembled}}, UNCHANGED <<disk, assembled, docs>>,
           ufaults' \in 0..UploadFaults
    PROVE  U!IInv'
<1>1. /\ ureq[r].session \in U!Uploads /\ U!RequestInv(r)
      /\ disk \subseteq U!Chunks /\ docs \in {0, 1} /\ upload \in U!Uploads \cup {NoUpload}
  BY UploadFacts
<1>2. docs = 0 /\ U!Full(upload) /\ assembled = U!Chunks
  BY <1>1 DEF U!RequestInv
<1>3. /\ upload' \in U!Uploads \cup {NoUpload} /\ U!Full(upload)'
      /\ upload' = NoUpload \/ upload'.status = "complete"
  BY <1>1, <1>2 DEF U!RequestInv, U!Full
<1>4. sent' \subseteq SUBSET U!Chunks /\ \A w \in sent' : w = U!Chunks
  BY <1>2 DEF U!IInv, U!TypeOK, U!FullVideoSent
<1>5. U!TypeOK' /\ ureq'[r] = v /\ \A q \in UploadRequests : q = r
  <2>1. assembled' = NoUpload \/ assembled' \subseteq U!Chunks
    BY <1>2
  <2> QED BY <1>1, <1>3, <1>4, <2>1, UploadMoves
<1>6. \A q \in UploadRequests : U!RequestInv(q)'
  BY <1>2, <1>3, <1>5 DEF U!RequestInv, U!Full
<1>7. (U!ReceivedIsKept /\ U!Unassembled /\ U!DocumentInv)'
  BY <1>1, <1>2, <1>3 DEF U!ReceivedIsKept, U!Unassembled, U!DocumentInv, U!Full
<1>8. U!FullVideoSent' /\ U!OneDocument'
  BY <1>2, <1>4 DEF U!FullVideoSent, U!OneDocument
<1> QED BY <1>5, <1>6, <1>7, <1>8 DEF U!IInv

LEMMA UploadMoveState ==
    ASSUME U!IInv, NEW r \in UploadRequests, NEW pc \in U!PCs, U!Move(r, pc), ureq[r].pc # "idle"
    PROVE  \E v \in U!States :
             /\ v.pc = pc /\ v.chunk \in U!Chunks /\ v.session \in U!Uploads
             /\ ureq' = [ureq EXCEPT ![r] = v]
<1> DEFINE v == [ureq[r] EXCEPT !.pc = pc]
<1>1. v \in U!States /\ v.pc = pc /\ v.chunk \in U!Chunks /\ v.session \in U!Uploads
  BY UploadFacts DEF U!States
<1>2. ureq' = [ureq EXCEPT ![r] = v]
  BY DEF U!Move
<1> HIDE DEF v
<1> QED BY <1>1, <1>2

LEMMA UploadRouteKeeps ==
    ASSUME U!IInv, U!OneAtATime, NEW r \in UploadRequests,
           \/ U!SetComplete(r) \/ U!GetAgain(r)
           \/ U!SendVideo(r) \/ U!SendVideoFails(r) \/ U!RecordDocument(r)
    PROVE  U!IInv'
<1>1. /\ ufaults \in 0..UploadFaults /\ docs \in {0, 1} /\ U!RequestInv(r)
      /\ upload \in U!Uploads \cup {NoUpload} /\ ureq[r] \in U!States
      /\ ureq[r].pc # "idle" => ureq[r].chunk \in U!Chunks /\ ureq[r].session \in U!Uploads
  BY UploadFacts
<1>2. ASSUME NEW pc \in {"session", "send", "record"}, U!Move(r, pc),
             ureq[r].pc \in {"complete", "session", "send"},
             \/ upload' = ureq[r].session /\ ureq[r].pc = "complete"
             \/ upload' = upload /\ ureq[r].pc # "complete",
             sent' \in {sent, sent \cup {assembled}}, UNCHANGED <<disk, assembled, docs>>,
             ufaults' \in 0..UploadFaults
      PROVE  U!IInv'
  <2>1. PICK v \in U!States :
          /\ v.pc = pc /\ v.chunk \in U!Chunks /\ v.session \in U!Uploads
          /\ ureq' = [ureq EXCEPT ![r] = v]
    BY <1>2, UploadMoveState DEF U!PCs
  <2> QED BY <1>2, <2>1, UploadLateKeeps
<1>3. CASE U!SetComplete(r)
  BY <1>1, <1>2, <1>3 DEF U!SetComplete
<1>4. CASE U!GetAgain(r) /\ upload = NoUpload
  BY <1>1, <1>4, UploadAnswers DEF U!GetAgain
<1>5. CASE U!GetAgain(r) /\ upload # NoUpload
  <2> DEFINE v == [ureq[r] EXCEPT !.pc = "send", !.session = upload]
  <2>1. ureq[r].pc = "session" /\ UNCHANGED <<upload, disk, assembled, sent, docs, ufaults>>
    BY <1>5 DEF U!GetAgain
  <2>2. v \in U!States /\ v.pc = "send" /\ v.chunk \in U!Chunks /\ v.session \in U!Uploads
    BY <1>1, <1>5, <2>1 DEF U!States, U!PCs
  <2>3. ureq' = [ureq EXCEPT ![r] = v]
    BY <1>5 DEF U!GetAgain
  <2> HIDE DEF v
  <2> QED BY <1>1, <2>1, <2>2, <2>3, UploadLateKeeps
<1>6. CASE U!SendVideo(r)
  <2>1. sent' \in {sent, sent \cup {assembled}}
    BY <1>6 DEF U!SendVideo
  <2> QED BY <1>1, <1>2, <1>6, <2>1 DEF U!SendVideo
<1>7. CASE U!SendVideoFails(r)
  <2>1. ufaults' \in 0..UploadFaults
    BY <1>1, <1>7 DEF U!SendVideoFails, U!Fault
  <2> QED BY <1>2, <1>7, <2>1 DEF U!SendVideoFails
<1>8. CASE U!RecordDocument(r)
  <2>1. docs = 0 /\ (upload = NoUpload \/ upload.status = "complete") /\ docs' \in {0, 1}
    <3>1. ureq[r].pc = "record"
      BY <1>8 DEF U!RecordDocument
    <3>2. docs = 0 /\ (upload = NoUpload \/ upload.status = "complete")
      BY <1>1, <3>1 DEF U!RequestInv
    <3>3. docs' = docs \/ docs' = docs + 1
      BY <1>8, <3>2 DEF U!RecordDocument
    <3> QED BY <3>2, <3>3
  <2> QED BY <1>1, <1>8, <2>1, UploadAnswers DEF U!RecordDocument
<1> QED BY <1>3, <1>4, <1>5, <1>6, <1>7, <1>8

LEMMA UploadFailKeeps ==
    ASSUME U!IInv, U!OneAtATime, NEW r \in UploadRequests, U!Fail(r)
    PROVE  U!IInv'
<1>1. ufaults' \in 0..UploadFaults /\ docs \in {0, 1}
  BY UploadFacts DEF U!Fail, U!Fault, U!IInv, U!TypeOK
<1> QED BY <1>1, UploadAnswers DEF U!Fail

LEMMA UploadExpireKeeps ==
    ASSUME U!IInv, U!Expire
    PROVE  U!IInv'
<1>1. upload' = NoUpload /\ UNCHANGED <<disk, assembled, sent, docs, ureq, ufaults>>
  BY DEF U!Expire
<1>2. U!TypeOK'
  BY <1>1 DEF U!IInv, U!TypeOK
<1>3. (U!ReceivedIsKept /\ U!Unassembled /\ U!DocumentInv /\ U!FullVideoSent /\ U!OneDocument)'
  BY <1>1 DEF U!IInv, U!ReceivedIsKept, U!Unassembled, U!DocumentInv,
     U!FullVideoSent, U!OneDocument
<1>4. \A r \in UploadRequests : U!RequestInv(r)'
  BY <1>1 DEF U!IInv, U!RequestInv, U!Full
<1> QED BY <1>2, <1>3, <1>4 DEF U!IInv

LEMMA UploadNextKeeps ==
    U!OneAtATime /\ U!IInv /\ [U!Next]_U!vars => U!IInv'
<1> SUFFICES ASSUME U!OneAtATime, U!IInv, [U!Next]_U!vars
             PROVE  U!IInv'
  OBVIOUS
<1>1. CASE U!Next
  BY <1>1, UploadGetSessionKeeps, UploadWriteChunkKeeps, UploadSetReceivedKeeps,
     UploadAssembleKeeps, UploadDeleteChunksKeeps,
     UploadRouteKeeps, UploadFailKeeps, UploadExpireKeeps DEF U!Next, U!Handle
<1>2. CASE UNCHANGED U!vars
  <2>1. U!TypeOK' /\ \A r \in UploadRequests : U!RequestInv(r)'
    BY <1>2 DEF U!IInv, U!TypeOK, U!RequestInv, U!vars
  <2>2. (U!ReceivedIsKept /\ U!Unassembled /\ U!DocumentInv /\ U!FullVideoSent /\ U!OneDocument)'
    BY <1>2 DEF U!IInv, U!ReceivedIsKept, U!Unassembled, U!DocumentInv,
       U!FullVideoSent, U!OneDocument, U!vars
  <2> QED BY <2>1, <2>2 DEF U!IInv
<1> QED BY <1>1, <1>2

-----------------------------------------------------------------------------
\* The inductive invariant, for a client that waits for each answer: any number
\* of chunks, sent in any order and again and again, with failures, crashes and
\* expiry at every step.
THEOREM UploadIInv ==
    ASSUME U!OneAtATime
    PROVE  UploadSpec => []UploadInvariant
<1>1. U!Init => U!IInv
  BY UploadInitIInv
<1>2. U!IInv /\ [U!Next]_U!vars => U!IInv'
  BY UploadNextKeeps
<1> QED BY <1>1, <1>2, PTL DEF UploadSpec, UploadInvariant, U!Spec

\* Every video that is sent holds every chunk.
THEOREM UploadFullVideoSent ==
    ASSUME U!OneAtATime
    PROVE  UploadSpec => []FullVideoSent
<1>1. UploadInvariant => FullVideoSent
  BY DEF UploadInvariant, FullVideoSent, U!IInv
<1> QED BY <1>1, UploadIInv, PTL

\* One upload, one document.
THEOREM UploadOneDocument ==
    ASSUME U!OneAtATime
    PROVE  UploadSpec => []OneDocument
<1>1. UploadInvariant => OneDocument
  BY DEF UploadInvariant, OneDocument, U!IInv
<1> QED BY <1>1, UploadIInv, PTL

\* What the session reports as received is on disk or in the full video.
THEOREM UploadReceivedIsKept ==
    ASSUME U!OneAtATime
    PROVE  UploadSpec => []U!ReceivedIsKept
<1>1. UploadInvariant => U!ReceivedIsKept
  BY DEF UploadInvariant, U!IInv
<1> QED BY <1>1, UploadIInv, PTL
=============================================================================
