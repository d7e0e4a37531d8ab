------------------------ MODULE Sha256Stream_proofs ------------------------
(***************************************************************************)
(* The blocks that are hashed are the padded message, for every block      *)
(* size, every message and every way to cut it into pieces.                *)
(***************************************************************************)
EXTENDS Sha256Stream, Division_proofs

\* The blocks absorbed so far hold the message from its start.
ChainHolds ==
    \A b \in 1..Len(chain) : \A i \in Index : chain[b][i] = Data(Position(b, i))

BufferHolds ==
    \A i \in 1..chunk_size : last_chunk[i] = Data(Position(Len(chain) + 1, i))

\* Bytes in those blocks.
Base == B * Len(chain)

\* While bytes are still accepted.  What an update has left to read either
\* fits behind what is buffered, or nothing is buffered.
Reading ==
    /\ ChainHolds
    /\ BufferHolds
    /\ chunk_size < B
    /\ ptr = Base + chunk_size + 1
    /\ Base + chunk_size + size = data_size
    /\ IF pc = "ready" THEN size = 0
       ELSE chunk_size = 0 \/ chunk_size + size < B

Inv ==
    /\ TypeOK
    /\ pc # "done" => Reading
    /\ HashedIsPadded

LEMMA Constants == /\ B \in Nat /\ L \in Nat \ {0} /\ L + 1 <= B /\ B > 0
                   /\ Width \in Nat /\ MaxBytes \in Nat
                   /\ \A n \in Sizes : n \in Nat /\ n + B <= Width
BY StreamAssumption

LEMMA ByteTypes ==
    /\ Mark \in Bytes /\ Zero \in Bytes /\ Garbage \in Bytes
    /\ \A i \in Nat : Data(i) \in Bytes
    /\ \A i, n \in Nat : Length(i, n) \in Bytes
BY DEF Mark, Zero, Garbage, Data, Length, Bytes

\* One more block.
LEMMA Product == \A k \in Nat : B * k \in Nat /\ B * (k + 1) = B * k + B
BY Constants

LEMMA NextBlock ==
    ASSUME chain \in Seq([Index -> Bytes])
    PROVE  /\ Base \in Nat
           /\ \A i \in Int : Position(Len(chain) + 1, i) = Base + i
           /\ Len(chain') = Len(chain) + 1 => Base' = Base + B
<1> DEFINE k == Len(chain)
<1>1. k \in Nat
    OBVIOUS
<1>2. B \in Nat /\ Base = B * k
    BY Constants DEF Base
<1> HIDE DEF k
<1>3. (k + 1) - 1 = k
    BY <1>1
<1>4. B * k \in Nat /\ B * (k + 1) = B * k + B
    BY <1>1, Product, Zenon
<1>5. ASSUME NEW i \in Int
      PROVE  Position(k + 1, i) = Base + i
    BY <1>2, <1>3 DEF Position
<1>6. ASSUME Len(chain') = k + 1
      PROVE  Base' = Base + B
    BY <1>2, <1>4, <1>6 DEF Base
<1> QED
    BY <1>2, <1>4, <1>5, <1>6 DEF k

LEMMA ShownBytes ==
    ASSUME NEW n \in Nat, NEW i \in Index
    PROVE  i \in Nat /\ i >= 1 /\ i <= B /\ n + i \in Nat /\ Data(n + i) \in Bytes
BY Constants, ByteTypes DEF Index

LEMMA Absorbed ==
    ASSUME ChainHolds, chain \in Seq([Index -> Bytes]),
           NEW block \in [Index -> Bytes], chain' = Append(chain, block),
           \A i \in Index : block[i] = Data(Position(Len(chain) + 1, i))
    PROVE  /\ ChainHolds'
           /\ Len(chain') = Len(chain) + 1 /\ Len(chain) \in Nat
           /\ chain' \in Seq([Index -> Bytes])
<1>1. Len(chain') = Len(chain) + 1 /\ Len(chain) \in Nat
    OBVIOUS
<1>2. chain' \in Seq([Index -> Bytes])
    OBVIOUS
<1>3. ASSUME NEW b \in 1..Len(chain'), NEW i \in Index
      PROVE  chain'[b][i] = Data(Position(b, i))
    <2>1. CASE b = Len(chain) + 1
        BY <1>1, <2>1
    <2>2. CASE b \in 1..Len(chain)
        BY <2>2 DEF ChainHolds
    <2> QED
        BY <1>1, <1>3, <2>1, <2>2
<1> QED
    BY <1>1, <1>2, <1>3 DEF ChainHolds

LEMMA InvInit == Init => Inv
BY Constants, ByteTypes
   DEF Base, Init, Inv, TypeOK, Reading, ChainHolds, BufferHolds, HashedIsPadded, Index

LEMMA InvFirst ==
    ASSUME Inv, NEW n \in Sizes, UpdateFirst(n)
    PROVE  Inv'
<1> DEFINE k == Len(chain)
           block == [i \in Index |-> IF i <= chunk_size THEN last_chunk[i]
                                     ELSE Data(ptr + (i - chunk_size - 1))]
<1>0. Base \in Nat /\ k \in Nat /\ chain \in Seq([Index -> Bytes])
    BY NextBlock DEF Inv, TypeOK
<1>1. /\ pc = "ready" /\ pc' = "blocks"
      /\ data_size + n <= MaxBytes /\ data_size' = data_size + n
      /\ last_chunk' = last_chunk
    BY DEF UpdateFirst
<1>2. /\ n \in Nat /\ n + B <= Width
      /\ chunk_size \in Nat /\ data_size \in Nat /\ ptr \in Nat
      /\ k \in Nat /\ Base \in Nat
      /\ chunk_size < B /\ size = 0
      /\ ptr = Base + chunk_size + 1
      /\ Base + chunk_size = data_size
      /\ ChainHolds /\ BufferHolds
    BY <1>0, <1>1, Constants DEF Inv, TypeOK, Reading
<1>3. uint32(n + chunk_size) = n + chunk_size
    <2>1. n + chunk_size \in 0..Width - 1 /\ Width \in Int
        BY <1>2, Constants
    <2> QED
        BY <2>1, SmallRemainder DEF uint32
<1>4. CASE n + chunk_size >= B
    <2>1. /\ chain' = Append(chain, block)
          /\ ptr' = ptr + (B - chunk_size)
          /\ size' = n - (B - chunk_size)
          /\ chunk_size' = 0
        BY <1>3, <1>4 DEF UpdateFirst, sha256_calculate_chunk
    <2>2. \A i \in Index : i \in Nat /\ i >= 1 /\ i <= B
        BY Constants DEF Index
    <2>3. \A i \in Index : block[i] = Data(Position(k + 1, i))
        <3>1. SUFFICES ASSUME NEW i \in Index PROVE block[i] = Data(Position(k + 1, i))
            OBVIOUS
        <3>2. Position(k + 1, i) = Base + i /\ i \in Nat
            BY <1>0, <2>2, NextBlock
        <3>3. CASE i <= chunk_size
            BY <1>2, <2>2, <3>3 DEF BufferHolds
        <3>4. CASE i > chunk_size
            <4>1. ptr + (i - chunk_size - 1) = Base + i
                BY <1>2, <3>2
            <4> QED
                BY <1>2, <3>2, <3>4, <4>1
        <3> QED
            BY <1>2, <3>2, <3>3, <3>4
    <2>4. block \in [Index -> Bytes]
        <3>1. \A i \in Index : block[i] \in Bytes
            <4> HIDE DEF block
            <4>1. SUFFICES ASSUME NEW i \in Index PROVE block[i] \in Bytes
                OBVIOUS
            <4>2. block[i] = Data(Base + i)
                BY <1>0, <2>2, <2>3, NextBlock
            <4> QED
                BY <1>0, <4>2, ShownBytes
        <3> QED
            BY <3>1
    <2> HIDE DEF block
    <2>5. /\ ChainHolds' /\ Len(chain') = k + 1
          /\ chain' \in Seq([Index -> Bytes])
        BY <1>2, <2>1, <2>3, <2>4, Absorbed DEF Inv, TypeOK
    <2>6. Base' = Base + B
        BY <1>0, <2>5, NextBlock
    <2>7. Reading'
        BY <1>1, <1>2, <1>4, <2>1, <2>5, <2>6, Constants DEF Reading, BufferHolds
    <2>8. TypeOK'
        BY <1>1, <1>2, <1>4, <2>1, <2>5, Constants DEF Inv, TypeOK
    <2> QED
        BY <1>1, <2>7, <2>8 DEF Inv, HashedIsPadded
<1>5. CASE n + chunk_size < B
    <2>1. size' = n /\ UNCHANGED <<chain, ptr, chunk_size>>
        BY <1>2, <1>3, <1>5, Constants DEF UpdateFirst
    <2>2. Reading'
        BY <1>1, <1>2, <1>5, <2>1, Constants DEF Reading, ChainHolds, BufferHolds, Base
    <2>3. TypeOK'
        BY <1>1, <1>2, <2>1, Constants DEF Inv, TypeOK
    <2> QED
        BY <1>1, <2>2, <2>3 DEF Inv, HashedIsPadded
<1> QED
    BY <1>2, <1>4, <1>5, Constants

LEMMA InvBlock ==
    ASSUME Inv, UpdateBlock
    PROVE  Inv'
<1> DEFINE k == Len(chain)
           block == [i \in Index |-> Data(ptr + (i - 1))]
<1>0. Base \in Nat /\ k \in Nat /\ chain \in Seq([Index -> Bytes])
    BY NextBlock DEF Inv, TypeOK
<1>1. /\ pc = "blocks" /\ size >= B
      /\ chain' = Append(chain, block)
      /\ ptr' = ptr + B /\ size' = size - B
      /\ UNCHANGED <<last_chunk, chunk_size, data_size, pc>>
    BY DEF UpdateBlock, sha256_calculate_chunk
<1>2. /\ chunk_size = 0
      /\ size \in Nat /\ data_size \in Nat /\ data_size <= MaxBytes
      /\ k \in Nat /\ Base \in Nat
      /\ ptr = Base + 1 /\ Base + size = data_size
      /\ ChainHolds
    BY <1>0, <1>1, Constants DEF Inv, TypeOK, Reading
<1>3. \A i \in Index : i \in Nat /\ i >= 1 /\ block[i] = Data(Position(k + 1, i))
    <2>1. SUFFICES ASSUME NEW i \in Index
                   PROVE  i \in Nat /\ i >= 1 /\ block[i] = Data(Position(k + 1, i))
        OBVIOUS
    <2>2. i \in Nat /\ i >= 1
        BY Constants DEF Index
    <2>3. ptr + (i - 1) = Base + i
        BY <1>2, <2>2
    <2>4. Position(k + 1, i) = Base + i
        BY <1>0, <2>2, NextBlock
    <2> QED
        BY <2>2, <2>3, <2>4
<1>4. block \in [Index -> Bytes]
    <2>1. ASSUME NEW i \in Index PROVE block[i] \in Bytes
        <3>1. Position(k + 1, i) = Base + i
            BY <1>0, <1>3, NextBlock
        <3>2. Data(Base + i) \in Bytes
            BY <1>0, ShownBytes
        <3> QED
            BY <1>3, <3>1, <3>2
    <2> QED
        BY <2>1
<1> HIDE DEF block
<1>5. /\ ChainHolds' /\ Len(chain') = k + 1
      /\ chain' \in Seq([Index -> Bytes])
    BY <1>1, <1>2, <1>3, <1>4, Absorbed DEF Inv, TypeOK
<1>6. Base' = Base + B
    BY <1>0, <1>5, NextBlock
<1>7. Reading'
    BY <1>1, <1>2, <1>5, <1>6, Constants DEF Reading, BufferHolds
<1>8. TypeOK'
    BY <1>1, <1>2, <1>5, Constants DEF Inv, TypeOK
<1> QED
    BY <1>1, <1>7, <1>8 DEF Inv, HashedIsPadded

LEMMA InvTail ==
    ASSUME Inv, UpdateTail
    PROVE  Inv'
<1> DEFINE k == Len(chain)
<1>0. Base \in Nat /\ k \in Nat /\ chain \in Seq([Index -> Bytes])
    BY NextBlock DEF Inv, TypeOK
<1>1. /\ pc = "blocks" /\ pc' = "ready" /\ size < B
      /\ last_chunk' =
             [i \in Index |-> IF chunk_size < i /\ i <= chunk_size + size
                              THEN Data(ptr + (i - chunk_size - 1))
                              ELSE last_chunk[i]]
      /\ chunk_size' = chunk_size + size
      /\ ptr' = ptr + size /\ size' = 0
      /\ UNCHANGED <<chain, data_size>>
    BY DEF UpdateTail
<1>2. /\ chunk_size \in Nat /\ chunk_size < B /\ chunk_size + size < B
      /\ size \in Nat /\ data_size \in Nat /\ data_size <= MaxBytes
      /\ k \in Nat /\ Base \in Nat
      /\ ptr = Base + chunk_size + 1
      /\ Base + chunk_size + size = data_size
      /\ ChainHolds /\ BufferHolds
      /\ last_chunk \in [Index -> Bytes]
    BY <1>0, <1>1, Constants DEF Inv, TypeOK, Reading
<1>3. \A i \in Index : i \in Nat
    BY Constants DEF Index
<1>4. BufferHolds'
    <2>1. SUFFICES ASSUME NEW i \in 1..chunk_size + size
                   PROVE  last_chunk'[i] = Data(Position(k + 1, i))
        BY <1>1 DEF BufferHolds
    <2>2. i \in Index /\ i \in Nat
        BY <1>2, Constants DEF Index
    <2>3. Position(k + 1, i) = Base + i
        BY <1>0, <2>2, NextBlock
    <2>4. CASE i <= chunk_size
        BY <1>1, <1>2, <2>2, <2>4 DEF BufferHolds
    <2>5. CASE i > chunk_size
        <3>1. ptr + (i - chunk_size - 1) = Base + i
            BY <1>2, <2>2
        <3> QED
            BY <1>1, <1>2, <2>1, <2>2, <2>3, <2>5, <3>1
    <2> QED
        BY <1>2, <2>2, <2>4, <2>5
<1>5. last_chunk' \in [Index -> Bytes]
    <2>1. ASSUME NEW i \in Index PROVE last_chunk'[i] \in Bytes
        <3>1. CASE chunk_size < i /\ i <= chunk_size + size
            <4>1. ptr + (i - chunk_size - 1) \in Nat
                BY <1>2, <1>3, <3>1
            <4> QED
                BY <1>1, <3>1, <4>1, ByteTypes
        <3>2. CASE ~(chunk_size < i /\ i <= chunk_size + size)
            BY <1>1, <1>2, <3>2
        <3> QED
            BY <3>1, <3>2
    <2> QED
        BY <1>1, <2>1
<1>6. Reading'
    <2>1. Base' = Base /\ ChainHolds'
        BY <1>1, <1>2 DEF Base, ChainHolds
    <2>2. /\ chunk_size' < B /\ pc' = "ready" /\ size' = 0
          /\ ptr' = Base + chunk_size' + 1
          /\ Base + chunk_size' + size' = data_size'
        <3> HIDE DEF Base
        <3> QED
            BY <1>1, <1>2, Constants
    <2> QED
        BY <1>4, <2>1, <2>2 DEF Reading
<1>7. TypeOK'
    BY <1>1, <1>2, <1>5, Constants DEF Inv, TypeOK
<1> QED
    BY <1>1, <1>6, <1>7 DEF Inv, HashedIsPadded

-----------------------------------------------------------------------------
(* The padding *)

LEMMA TotalIs ==
    ASSUME NEW k \in Nat, NEW c \in Nat, c < B
    PROVE  Total(B * k + c) = IF c + 1 <= B - L THEN B * k + B ELSE B * k + B + B
<1> DEFINE n == B * k + c + L + B
<1>1. B * k \in Nat /\ B * (k + 1) = B * k + B /\ B * (k + 2) = B * k + B + B
    BY Constants
<1>2. n \in Int /\ B \in Int /\ B > 0 /\ L \in Int
    BY <1>1, Constants
<1>3. CASE c + 1 <= B - L
    <2>1. n = B * (k + 1) + (c + L) /\ c + L \in 0..B - 1 /\ k + 1 \in Int /\ c + L \in Int
        BY <1>1, <1>3, Constants
    <2>2. n \div B = k + 1
        BY <1>2, <2>1, Divided
    <2> QED
        BY <1>1, <1>3, <2>2 DEF Total
<1>4. CASE c + 1 > B - L
    <2>1. /\ n = B * (k + 2) + (c + L - B) /\ c + L - B \in 0..B - 1
          /\ k + 2 \in Int /\ c + L - B \in Int
        BY <1>1, <1>4, Constants
    <2>2. n \div B = k + 2
        BY <1>2, <2>1, Divided
    <2> QED
        BY <1>1, <1>4, <2>2, Constants DEF Total
<1> QED
    BY <1>3, <1>4, Constants

LEMMA BlockTypes ==
    ASSUME TypeOK
    PROVE  /\ Padded \in [Index -> Bytes] /\ Cleared \in [Index -> Bytes]
           /\ \A block \in [Index -> Bytes] : WithLength(block) \in [Index -> Bytes]
<1>1. Padded \in [Index -> Bytes]
    BY ByteTypes DEF TypeOK, Padded
<1>2. Cleared \in [Index -> Bytes]
    BY ByteTypes DEF Cleared
<1>3. ASSUME NEW block \in [Index -> Bytes]
      PROVE  WithLength(block) \in [Index -> Bytes]
    <2>1. ASSUME NEW i \in Index, i > B - L PROVE Length(i - (B - L), data_size) \in Bytes
        <3>1. i - (B - L) \in Nat /\ data_size \in Nat
            BY <2>1, Constants DEF Index, TypeOK
        <3> QED
            BY <3>1, ByteTypes
    <2> QED
        BY <2>1 DEF WithLength
<1> QED
    BY <1>1, <1>2, <1>3

LEMMA InvFinalize ==
    ASSUME Inv, sha256_finalize
    PROVE  Inv'
<1> DEFINE k == Len(chain)
           c == chunk_size
           n == data_size
           last == WithLength(IF c + 1 > B - L THEN Cleared ELSE Padded)
<1>1. /\ pc = "ready" /\ pc' = "done" /\ chunk_size' = c + 1
      /\ last_chunk' = last
      /\ chain' = IF c + 1 > B - L THEN Append(Append(chain, Padded), last)
                  ELSE Append(chain, last)
      /\ UNCHANGED <<data_size, ptr, size>>
    BY DEF sha256_finalize
<1>2. Base \in Nat /\ k \in Nat /\ chain \in Seq([Index -> Bytes])
    BY NextBlock DEF Inv, TypeOK
<1>3. /\ c \in Nat /\ c < B /\ n = Base + c /\ n \in Nat
      /\ ChainHolds /\ BufferHolds
    BY <1>1, <1>2, Constants DEF Inv, TypeOK, Reading
<1>4. Total(n) = IF c + 1 <= B - L THEN Base + B ELSE Base + B + B
    BY <1>2, <1>3, TotalIs DEF Base
<1>5. Padded \in [Index -> Bytes] /\ last \in [Index -> Bytes]
    BY BlockTypes DEF Inv
<1>6. TypeOK'
    <2>1. chain' \in Seq([Index -> Bytes])
        BY <1>1, <1>2, <1>5
    <2>2. last_chunk' \in [Index -> Bytes] /\ chunk_size' \in 0..B
        BY <1>1, <1>3, <1>5, Constants
    <2> QED
        BY <1>1, <2>1, <2>2 DEF Inv, TypeOK
<1>7. \A i \in Index : /\ i \in Nat /\ i >= 1 /\ i <= B
                       /\ Position(k + 1, i) = Base + i
                       /\ Position(k + 2, i) = Base + B + i
    <2>1. B * (k + 1) = B * k + B
        BY <1>2, Product
    <2> QED
        BY <1>2, <2>1, Constants, NextBlock DEF Index, Position, Base
<1>8. ASSUME NEW b \in 1..k, NEW i \in Index
      PROVE  chain[b][i] = PaddedByte(n, Position(b, i))
    <2>1. chain[b][i] = Data(Position(b, i))
        BY <1>3 DEF ChainHolds
    <2>2. Position(b, i) <= Base /\ Position(b, i) \in Int
        <3>1. b \in Int /\ b - 1 \in Int /\ k \in Int /\ B \in Int /\ B > 0 /\ k > b - 1
            BY <1>2, Constants
        <3>2. B * k >= B * (b - 1) + B
            BY <3>1, MulMono
        <3>3. B * (b - 1) \in Int /\ B * k \in Int
            BY <3>1
        <3> QED
            BY <1>7, <3>1, <3>2, <3>3 DEF Position, Base
    <2> QED
        BY <1>2, <1>3, <2>1, <2>2 DEF PaddedByte
<1>9. \A i \in Index : i <= c => last_chunk[i] = Data(Base + i)
    BY <1>3, <1>7 DEF BufferHolds
<1>10. CASE c + 1 <= B - L
    <2>1. /\ Len(chain') = k + 1 /\ chain'[k + 1] = last
          /\ \A b \in 1..k : chain'[b] = chain[b]
          /\ last = WithLength(Padded)
        BY <1>1, <1>2, <1>3, <1>5, <1>10, Constants
    <2>2. ASSUME NEW i \in Index PROVE last[i] = PaddedByte(n, Base + i)
        <3>1. CASE i <= c
            <4>1. last[i] = Padded[i]
                BY <1>3, <1>7, <1>10, <2>1, <3>1, Constants DEF WithLength
            <4> QED
                BY <1>2, <1>3, <1>7, <1>9, <3>1, <4>1 DEF Padded, PaddedByte
        <3>2. CASE i > c /\ i <= B - L
            <4>1. last[i] = Padded[i] /\ Base + i \in Int /\ Base + i > n
                BY <1>2, <1>3, <1>7, <2>1, <3>2, Constants DEF WithLength
            <4>2. Total(n) - L = Base + (B - L)
                BY <1>2, <1>4, <1>10, Constants
            <4>3. ~(Base + i > Total(n) - L)
                BY <1>2, <1>7, <3>2, <4>2, Constants
            <4>4. Base + i = n + 1 <=> i = c + 1
                BY <1>2, <1>3, <1>7
            <4> QED
                BY <1>2, <1>3, <1>7, <3>2, <4>1, <4>3, <4>4 DEF Padded, PaddedByte
        <3>3. CASE i > B - L
            BY <1>2, <1>3, <1>4, <1>7, <1>10, <2>1, <3>3, Constants
               DEF WithLength, Padded, PaddedByte
        <3> QED
            BY <1>3, <1>7, <3>1, <3>2, <3>3, Constants
    <2>3. B * Len(chain') = Total(n)
        BY <1>2, <1>4, <1>10, <2>1, Product DEF Base
    <2>4. ASSUME NEW b \in 1..k + 1, NEW i \in Index
          PROVE  chain'[b][i] = PaddedByte(n, Position(b, i))
        <3>1. CASE b \in 1..k
            BY <1>8, <2>1, <3>1
        <3>2. CASE b = k + 1
            BY <1>7, <2>1, <2>2, <3>2
        <3> QED
            BY <1>2, <3>1, <3>2
    <2> QED
        BY <1>1, <1>6, <2>1, <2>3, <2>4 DEF Inv, HashedIsPadded
<1>11. CASE c + 1 > B - L
    <2>1. /\ Len(chain') = k + 2 /\ chain'[k + 1] = Padded /\ chain'[k + 2] = last
          /\ \A b \in 1..k : chain'[b] = chain[b]
          /\ last = WithLength(Cleared)
        BY <1>1, <1>2, <1>3, <1>5, <1>11, Constants
    <2>2. ASSUME NEW i \in Index PROVE Padded[i] = PaddedByte(n, Base + i)
        <3>1. CASE i <= c
            BY <1>2, <1>3, <1>7, <1>9, <3>1 DEF Padded, PaddedByte
        <3>2. CASE i > c
            <4>1. Base + i \in Int /\ Base + i > n
                BY <1>2, <1>3, <1>7, <3>2
            <4>2. Total(n) - L = Base + B + (B - L)
                BY <1>2, <1>3, <1>4, <1>11, Constants
            <4>3. ~(Base + i > Total(n) - L)
                BY <1>2, <1>7, <4>2, Constants
            <4>4. Base + i = n + 1 <=> i = c + 1
                BY <1>2, <1>3, <1>7
            <4> QED
                BY <1>2, <1>3, <1>7, <3>2, <4>1, <4>3, <4>4 DEF Padded, PaddedByte
        <3> QED
            BY <1>3, <1>7, <3>1, <3>2
    <2>3. ASSUME NEW i \in Index PROVE last[i] = PaddedByte(n, Base + B + i)
        BY <1>2, <1>3, <1>4, <1>7, <1>11, <2>1, Constants
           DEF WithLength, Cleared, PaddedByte
    <2>4. B * Len(chain') = Total(n)
        <3>1. B * (k + 2) = B * k + B + B
            BY <1>2, Constants
        <3> QED
            BY <1>2, <1>3, <1>4, <1>11, <2>1, <3>1, Constants DEF Base
    <2>5. ASSUME NEW b \in 1..k + 2, NEW i \in Index
          PROVE  chain'[b][i] = PaddedByte(n, Position(b, i))
        <3>1. CASE b \in 1..k
            BY <1>8, <2>1, <3>1
        <3>2. CASE b = k + 1
            BY <1>7, <2>1, <2>2, <3>2
        <3>3. CASE b = k + 2
            BY <1>7, <2>1, <2>3, <3>3
        <3> QED
            BY <1>2, <3>1, <3>2, <3>3
    <2> QED
        BY <1>1, <1>6, <2>1, <2>4, <2>5 DEF Inv, HashedIsPadded
<1> QED
    BY <1>3, <1>10, <1>11, Constants

-----------------------------------------------------------------------------
(* Theorems *)

LEMMA Invariance == Spec => []Inv
<1>1. Inv /\ [Next]_vars => Inv'
    <2>1. ASSUME Inv, UNCHANGED vars PROVE Inv'
        BY <2>1 DEF vars, Inv, TypeOK, Reading, ChainHolds, BufferHolds,
                    HashedIsPadded, Base
    <2> QED
        BY <2>1, InvFirst, InvBlock, InvTail, InvFinalize DEF Next
<1> QED
    BY InvInit, <1>1, PTL DEF Spec

\* sha256_update and sha256_finalize keep chunk_size within the block and the
\* positions they read within the message.
THEOREM StreamTypes == Spec => []TypeOK
BY Invariance, PTL DEF Inv

\* sha256_update loses, doubles and moves no byte, whatever the pieces are.
THEOREM StreamNothingLost == Spec => []NothingLost
<1>1. Inv => NothingLost
    <2>1. SUFFICES ASSUME Inv, pc = "ready" PROVE NothingLost
        BY DEF NothingLost
    <2>2. Base \in Nat
        BY <2>1, NextBlock DEF Inv, TypeOK
    <2> QED
        BY <2>1, <2>2 DEF Inv, TypeOK, Reading, ChainHolds, BufferHolds, NothingLost, Base
<1> QED
    BY <1>1, Invariance, PTL

\* What is hashed is the padded message of the standard, at every length: two
\* equal files have equal hashes however they were read, and the cases at the
\* end of a block (sha256.c:182) are right.
THEOREM StreamIsPadded == Spec => []HashedIsPadded
BY Invariance, PTL DEF Inv
=============================================================================
