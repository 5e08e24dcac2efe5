---------------------------- MODULE FilePayload -----------------------------
(***************************************************************************)
(* From the size of a file to its entry's payload: AsyncReader::submit's   *)
(* split into blocks (core/src/io/async_reader.cpp), the compression of    *)
(* each block (codec/zlib_deflate_codec.cpp), and the sizes and CRC that   *)
(* assemble() puts together (pipeline.cpp), block after block in source    *)
(* order. Pipeline shows why the order is that one, and GzipWriter writes  *)
(* the result.                                                             *)
(*                                                                         *)
(* The bytes of the file are the naturals below its size, so a stretch of  *)
(* it is an interval. Integers are 2^64 or 2^32 wide as in the code.       *)
(***************************************************************************)
EXTENDS Integers, Sequences, SequencesExt

CONSTANTS
    Totals,         \* sizes of files
    BlockSizes,     \* options.block_bytes
    DefaultBlock,   \* the block size that stands for 0
    W32, W64,       \* 2^32 and 2^64
    CrcBase, CrcMod \* the checksum's base and modulus

ASSUME WidthAssumption == W32 \in Nat \ {0} /\ W64 \in Nat \ {0} /\ DefaultBlock \in 1 .. W64 - 1
ASSUME ChecksumAssumption == CrcBase \in Nat /\ CrcMod \in Nat \ {0}
ASSUME InputAssumption == Totals \subseteq 0 .. W64 - 1 /\ BlockSizes \subseteq 0 .. W64 - 1

VARIABLES
    total,         \* entry.size_bytes
    block_bytes,   \* block_bytes_
    payload,       \* the compressed blocks
    crc, uncompressed, compressed   \* assemble's locals

payloadVars == <<total, block_bytes, payload, crc, uncompressed, compressed>>

PayloadTypeOK ==
    /\ total \in Totals
    /\ block_bytes \in 1 .. W64 - 1
    /\ \A s \in ToSet(payload) : s.from \in 0 .. W64 - 1 /\ s.upto \in s.from .. s.from + W64 - 1
    /\ crc \in 0 .. CrcMod - 1
    /\ uncompressed \in 0 .. W64 - 1
    /\ compressed \in 0 .. W64 - 1

PayloadInit ==
    /\ total \in Totals
    /\ block_bytes \in {IF b = 0 THEN DefaultBlock ELSE b : b \in BlockSizes}
    /\ payload = <<>>
    /\ crc = 0
    /\ uncompressed = 0
    /\ compressed = 0

-----------------------------------------------------------------------------
(* The split.                                                              *)

(* The sum wraps at 64 bits, and the quotient is cast to 32. *)
BlockCount ==
    IF total = 0 THEN 1 ELSE ((((total + block_bytes - 1) % W64) \div block_bytes) % W32)

Offset(idx) == (idx * block_bytes) % W64

(* Mutant of Bytes: the last block is not cut short. *)
BytesFull(idx) == block_bytes

Bytes(idx) ==
    LET rest == (total - Offset(idx)) % W64
    IN  IF rest < block_bytes THEN rest ELSE block_bytes

-----------------------------------------------------------------------------
(* Checksums (zlib's crc32 and crc32_combine): linear in the data, so that *)
(* the sum of a concatenation follows from the sums and a length.          *)

Powers(n) ==
    LET power[k \in 0 .. n] == IF k = 0 THEN 1 ELSE (CrcBase * power[k - 1]) % CrcMod
    IN  power

(* The checksums of the first bytes of a stretch that starts at from.      *)
Sums(from, n) ==
    LET sum[k \in 0 .. n] == IF k = 0 THEN 0 ELSE (sum[k - 1] * CrcBase + from + k) % CrcMod
    IN  sum

Checksum(from, upto) == Sums(from, upto - from)[upto - from]

Combine(crc1, crc2, len2) == (crc1 * Powers(len2)[len2] + crc2) % CrcMod

-----------------------------------------------------------------------------
(* A block is deflated into a stream of its own that ends with a final     *)
(* block. zlib is given 32 bits of the input's size and of the output's,   *)
(* deflateBound of the former; what it finds room for is the block's       *)
(* stream, while size and checksum are those of the whole block. A stream  *)
(* of n bytes of data takes n + 2, and the bound is n + 5.                 *)

Deflated(from, size) ==
    LET avail_in == size % W32
    IN  [from |-> from, upto |-> from + avail_in, bytes |-> avail_in + 2, final |-> TRUE]

DeflateEnds(size) == (size % W32) + 2 <= (size + 5) % W32

(* The next block of the file: read, compressed and assembled. *)
AddBlock ==
    LET idx  == Len(payload)
        size == Bytes(idx)
        from == Offset(idx)
        s    == Deflated(from, size)
    IN  /\ idx < BlockCount /\ DeflateEnds(size)
        /\ payload' = Append(payload, s)
        /\ crc' = IF uncompressed = 0 THEN Checksum(from, from + size)
                  ELSE Combine(crc, Checksum(from, from + size), size)
        /\ uncompressed' = (uncompressed + size) % W64
        /\ compressed' = (compressed + s.bytes) % W64
        /\ UNCHANGED <<total, block_bytes>>

Assembled == Len(payload) = BlockCount

(* The compression of the next block fails: no room for its output.        *)
Stuck == ~Assembled /\ ~DeflateEnds(Bytes(Len(payload)))

-----------------------------------------------------------------------------
(* Properties of the payload.                                              *)

(* No size wraps: fewer than 2^32 blocks, of less than 2^32 bytes each,    *)
(* and room to round the division up.                                      *)
Fits ==
    /\ total + block_bytes <= W64
    /\ (total + block_bytes - 1) \div block_bytes < W32
    /\ total < W32 \/ block_bytes < W32

(* architecture.md:174 "correct for arbitrary file sizes": the streams     *)
(* hold the file, all of it and in order, each at most one block; the CRC  *)
(* and the size that the writers put beside them are those of the whole    *)
(* file, whatever the split, and of an empty file too (pipeline.cpp:78:    *)
(* the first block is told by the size so far). Beyond Fits they are not,  *)
(* and nothing reports it.                                                 *)
PayloadIsFile ==
    Assembled /\ Fits =>
        /\ payload # <<>> /\ payload[1].from = 0 /\ Last(payload).upto = total
        /\ \A i \in 1 .. Len(payload) - 1 : payload[i].upto = payload[i + 1].from
        /\ \A s \in ToSet(payload) : s.upto - s.from <= block_bytes
        /\ crc = Checksum(0, total) /\ uncompressed = total
=============================================================================
