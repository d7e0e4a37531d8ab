---------------------------- MODULE Sha256Stream ----------------------------
(***************************************************************************)
(* How src/src/crypt/sha256.c cuts a message that comes in pieces into the *)
(* blocks of SHA-256: the first block of an update made of what the last   *)
(* one left over, the whole blocks, the rest kept for the next update, and *)
(* the padding at the end.                                                 *)
(*                                                                         *)
(* The hash is a function of the blocks that sha256_calculate_chunk gets,  *)
(* in their order; the arithmetic of its rounds is not modelled.  A byte   *)
(* of the message is its position, so that a lost, doubled or moved byte   *)
(* shows for messages of every content.                                    *)
(***************************************************************************)
EXTENDS Integers, Sequences

CONSTANTS
    B,          \* bytes of a block: 64
    L,          \* bytes of the length field: 8
    Width,      \* values of the size_t and uint32_t sums of sizes: 2^32
    Sizes,      \* sizes of updates; no caller hands over more than a chunk,
                \* and none of that size behind a piece that left a rest
    MaxBytes    \* bound: length of the message

ASSUME StreamAssumption ==
    /\ B \in Nat /\ L \in Nat \ {0} /\ L + 1 <= B
    /\ Width \in Nat /\ MaxBytes \in Nat
    /\ \A n \in Sizes : n \in Nat /\ n + B <= Width

VARIABLES
    chain,       \* the blocks hcomps has absorbed
    last_chunk, chunk_size,   \* data->last_chunk, data->chunk_size
    data_size,   \* data->data_size
    ptr, size,   \* position and number of the bytes still to be read
    pc           \* "ready", "blocks" (inside sha256_update), "done"

vars == <<chain, last_chunk, chunk_size, data_size, ptr, size, pc>>

Data(i)      == [is |-> "data",   at |-> i, of |-> 0]
Mark         == [is |-> "0x80",   at |-> 0, of |-> 0]
Zero         == [is |-> "0",      at |-> 0, of |-> 0]
Length(i, n) == [is |-> "length", at |-> i, of |-> 8 * n]
Garbage      == [is |-> "garbage", at |-> 0, of |-> 0]

Index == 1..B

uint32(n) == n % Width

sha256_calculate_chunk(block) == chain' = Append(chain, block)

\* sha256_compute_data_init leaves last_chunk as it is on the stack.
Init ==
    /\ chain = <<>>
    /\ last_chunk = [i \in Index |-> Garbage]
    /\ chunk_size = 0
    /\ data_size = 0
    /\ ptr = 1 /\ size = 0
    /\ pc = "ready"

\* Not the code: the buffer counts as full after its block is hashed.
UpdateFirstKeepsSize(n) ==
    /\ pc = "ready"
    /\ data_size + n <= MaxBytes
    /\ data_size' = data_size + n
    /\ pc' = "blocks"
    /\ IF uint32(n + chunk_size) >= B
       THEN /\ sha256_calculate_chunk(
                  [i \in Index |-> IF i <= chunk_size THEN last_chunk[i]
                                   ELSE Data(ptr + (i - chunk_size - 1))])
            /\ ptr' = ptr + (B - chunk_size)
            /\ size' = n - (B - chunk_size)
       ELSE size' = n /\ UNCHANGED <<chain, ptr>>
    /\ UNCHANGED <<last_chunk, chunk_size>>

\* sha256_update of n bytes begins: with the block they complete, if any.
UpdateFirst(n) ==
    /\ pc = "ready"
    /\ data_size + n <= MaxBytes
    /\ data_size' = data_size + n
    /\ pc' = "blocks"
    /\ IF uint32(n + chunk_size) >= B
       THEN /\ sha256_calculate_chunk(
                  [i \in Index |-> IF i <= chunk_size THEN last_chunk[i]
                                   ELSE Data(ptr + (i - chunk_size - 1))])
            /\ ptr' = ptr + (B - chunk_size)
            /\ size' = n - (B - chunk_size)
            /\ chunk_size' = 0
       ELSE size' = n /\ UNCHANGED <<chain, ptr, chunk_size>>
    /\ UNCHANGED last_chunk

UpdateBlock ==
    /\ pc = "blocks"
    /\ size >= B
    /\ sha256_calculate_chunk([i \in Index |-> Data(ptr + (i - 1))])
    /\ ptr' = ptr + B
    /\ size' = size - B
    /\ UNCHANGED <<last_chunk, chunk_size, data_size, pc>>

\* Not the code: the rest is put at the start of the buffer.
UpdateTailOverwrites ==
    /\ pc = "blocks"
    /\ size < B
    /\ last_chunk' = [i \in Index |-> IF i <= size THEN Data(ptr + (i - 1))
                                      ELSE last_chunk[i]]
    /\ chunk_size' = chunk_size + size
    /\ ptr' = ptr + size
    /\ size' = 0
    /\ pc' = "ready"
    /\ UNCHANGED <<chain, data_size>>

UpdateTail ==
    /\ pc = "blocks"
    /\ size < B
    /\ last_chunk' =
          [i \in Index |-> IF chunk_size < i /\ i <= chunk_size + size
                           THEN Data(ptr + (i - chunk_size - 1))
                           ELSE last_chunk[i]]
    /\ chunk_size' = chunk_size + size
    /\ ptr' = ptr + size
    /\ size' = 0
    /\ pc' = "ready"
    /\ UNCHANGED <<chain, data_size>>

\* last_chunk after 0x80 and the zeros.
Padded == [i \in Index |-> IF i <= chunk_size THEN last_chunk[i]
                           ELSE IF i = chunk_size + 1 THEN Mark
                           ELSE Zero]

Cleared == [i \in Index |-> Zero]

WithLength(block) ==
    [i \in Index |-> IF i > B - L THEN Length(i - (B - L), data_size)
                     ELSE block[i]]

\* Not the code: the length is written over a 0x80 in the place before it.
FinalizeTight ==
    /\ pc = "ready"
    /\ pc' = "done"
    /\ chunk_size' = chunk_size + 1
    /\ IF chunk_size + 1 > B - L + 1
       THEN /\ last_chunk' = WithLength(Cleared)
            /\ chain' = Append(Append(chain, Padded), last_chunk')
       ELSE /\ last_chunk' = WithLength(Padded)
            /\ chain' = Append(chain, last_chunk')
    /\ UNCHANGED <<data_size, ptr, size>>

\* The length goes into a block of its own where it no longer fits.
sha256_finalize ==
    /\ pc = "ready"
    /\ pc' = "done"
    /\ chunk_size' = chunk_size + 1
    /\ IF chunk_size + 1 > B - L
       THEN /\ last_chunk' = WithLength(Cleared)
            /\ chain' = Append(Append(chain, Padded), last_chunk')
       ELSE /\ last_chunk' = WithLength(Padded)
            /\ chain' = Append(chain, last_chunk')
    /\ UNCHANGED <<data_size, ptr, size>>

Next ==
    \/ \E n \in Sizes : UpdateFirst(n)
    \/ UpdateBlock
    \/ UpdateTail
    \/ sha256_finalize

Spec == Init /\ [][Next]_vars

-----------------------------------------------------------------------------
(* Properties *)

Bytes == [is : {"data", "0x80", "0", "length", "garbage"}, at : Nat, of : Nat]

TypeOK ==
    /\ chain \in Seq([Index -> Bytes])
    /\ last_chunk \in [Index -> Bytes]
    /\ chunk_size \in 0..B
    /\ data_size \in 0..MaxBytes
    /\ ptr \in 1..MaxBytes + 1
    /\ size \in 0..MaxBytes
    /\ pc \in {"ready", "blocks", "done"}

\* The padded message of FIPS 180-4, for a message of n bytes: the message,
\* one 0x80, zeros, the length in the last L bytes, in as few blocks as do.
Total(n) == B * ((n + L + B) \div B)

PaddedByte(n, j) ==
    IF j <= n THEN Data(j)
    ELSE IF j = n + 1 THEN Mark
    ELSE IF j > Total(n) - L THEN Length(j - (Total(n) - L), n)
    ELSE Zero

Position(b, i) == B * (b - 1) + i

\* However the message was cut into pieces, between two updates the blocks
\* absorbed and the buffer hold it whole and in order, and less than a block
\* is waiting: the buffer is never written past its end.
NothingLost ==
    pc = "ready" =>
        /\ \A b \in 1..Len(chain) : \A i \in Index :
               chain[b][i] = Data(Position(b, i))
        /\ B * Len(chain) + chunk_size = data_size
        /\ chunk_size < B
        /\ \A i \in 1..chunk_size : last_chunk[i] = Data(Position(Len(chain) + 1, i))

\* The blocks hashed are the padded message and nothing else, at every length:
\* also where 0x80 or the length no longer fit behind the last bytes.
HashedIsPadded ==
    pc = "done" =>
        /\ B * Len(chain) = Total(data_size)
        /\ \A b \in 1..Len(chain) : \A i \in Index :
               chain[b][i] = PaddedByte(data_size, Position(b, i))
=============================================================================
