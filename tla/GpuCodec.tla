------------------------------ MODULE GpuCodec ------------------------------
(***************************************************************************)
(* NvcompDeflateCodec (core/src/codec/nvcomp_deflate_codec.cu): its ring   *)
(* of slots, their device buffers and the capacities kept for them, under  *)
(* one batch after the other, since gpu_mutex admits one task at a time.   *)
(*                                                                         *)
(* A buffer is the number of bytes allocated to it, 0 a null pointer. CUDA *)
(* and nvCOMP are external: any call of theirs may report an error, and    *)
(* the model leaves open what one given a null pointer does.               *)
(***************************************************************************)
EXTENDS Naturals

CONSTANTS
    Streams,      \* stream_count
    PerStream,    \* per_stream_device_bytes
    MaxChunk,     \* bound on the bytes of a block
    MaxBatch,     \* bound on the blocks of a batch
    MaxCalls      \* bound on the calls of compress_batch

VARIABLES
    slots,       \* slots: for each its buffers, its capacities and its stream
    next_slot,   \* next_slot
    pc,          \* new, failed, idle, or the step compress_batch is at
    slot,        \* the slot of the call
    batch,       \* the call's blocks: how many, their total and their largest size
    ensured,     \* how many buffers the call has ensured
    result,      \* of the last call
    calls

vars == <<slots, next_slot, pc, slot, batch, ensured, result, calls>>

Staging == {"d_input", "d_output", "d_temp"}
Metadata == {"d_in_ptrs", "d_in_sizes", "d_out_ptrs", "d_out_sizes_inout", "d_statuses"}
Buffers == Staging \cup Metadata

(* The buffers in the order in which compress_batch ensures them. *)
Ensured == <<"d_input", "d_output", "d_temp", "d_in_ptrs",
             "d_in_sizes", "d_out_ptrs", "d_out_sizes_inout", "d_statuses">>

ElementSize(buffer) == IF buffer = "d_statuses" THEN 4 ELSE 8

(* Each staging buffer has a capacity of its own, all metadata one.        *)
Capacity(buffer) == IF buffer \in Staging THEN buffer ELSE "d_meta"
Capacities == Staging \cup {"d_meta"}

Steps == {"ensure", "copy", "launch", "collect", "record"}

TypeOK ==
    /\ slots \in [1 .. Streams -> [mem : [Buffers -> Nat], cap : [Capacities -> Nat], queued : BOOLEAN]]
    /\ next_slot \in 1 .. Streams
    /\ pc \in {"new", "failed", "idle"} \cup Steps
    /\ slot \in 1 .. Streams
    /\ batch \in [count : Nat, total : Nat, largest : Nat]
    /\ ensured \in 0 .. 8
    /\ result \in {"none", "Ok", "CudaError", "NvcompError"}
    /\ calls \in 0 .. MaxCalls

Empty == [ mem |-> [b \in Buffers |-> 0], cap |-> [c \in Capacities |-> 0], queued |-> FALSE ]

Init ==
    /\ slots = [i \in 1 .. Streams |-> Empty]
    /\ next_slot = 1
    /\ pc = "new"
    /\ slot = 1
    /\ batch = [count |-> 0, total |-> 0, largest |-> 0]
    /\ ensured = 0
    /\ result = "none"
    /\ calls = 0

(* create: streams, events and two staging buffers for each slot.          *)
Preallocated(name) ==
    CASE name = "d_input" -> PerStream [] name = "d_output" -> 2 * PerStream [] OTHER -> 0

Create ==
    /\ pc = "new"
    /\ slots' = [i \in 1 .. Streams |->
                    [ mem    |-> [b \in Buffers |-> Preallocated(b)],
                      cap    |-> [c \in Capacities |-> Preallocated(c)],
                      queued |-> FALSE ]]
    /\ pc' = "idle"
    /\ UNCHANGED <<next_slot, slot, batch, ensured, result, calls>>

CreateFails ==
    /\ pc = "new"
    /\ pc' = "failed"
    /\ UNCHANGED <<slots, next_slot, slot, batch, ensured, result, calls>>

-----------------------------------------------------------------------------
(* compress_batch.                                                         *)

(* The next slot is taken, and its event waited for: the last use that     *)
(* recorded it has synchronised its stream before it returned.             *)
Begin(blocks) ==
    /\ pc = "idle"
    /\ calls < MaxCalls
    /\ batch' = blocks
    /\ slot' = next_slot
    /\ next_slot' = (next_slot % Streams) + 1
    /\ ensured' = 0
    /\ calls' = calls + 1
    /\ pc' = "ensure"
    /\ UNCHANGED <<slots, result>>

(* What nvCOMP asks for: room for chunks that do not shrink. *)
MaxOutChunk == batch.largest + 1
TempSize == batch.largest * batch.count

Needed(buffer) ==
    CASE buffer = "d_input"  -> batch.total
      [] buffer = "d_output" -> MaxOutChunk * batch.count
      [] buffer = "d_temp"   -> TempSize
      [] OTHER               -> batch.count * ElementSize(buffer)

(* ensure_capacity: a buffer is big enough if the capacity it is given says *)
(* so, and is else freed and allocated anew. The capacity of d_in_ptrs is  *)
(* d_meta_capacity itself, the later metadata arrays are given a copy.     *)
Enough(buffer) == slots[slot].cap[Capacity(buffer)] >= Needed(buffer)
Allocated(buffer, bytes) ==
    slots' = [slots EXCEPT ![slot].mem[buffer] = bytes,
                           ![slot].cap[Capacity(buffer)] =
                               IF buffer \in {"d_in_ptrs"} \cup Staging THEN bytes ELSE @]

Ensure ==
    /\ pc = "ensure"
    /\ LET buffer == Ensured[ensured + 1]
       IN  \/ Enough(buffer) /\ UNCHANGED slots
           \/ ~Enough(buffer) /\ Allocated(buffer, Needed(buffer))
    /\ ensured' = ensured + 1
    /\ pc' = IF ensured' = 8 THEN "copy" ELSE "ensure"
    /\ UNCHANGED <<next_slot, slot, batch, result, calls>>

Fails(error) ==
    /\ pc' = "idle"
    /\ result' = error
    /\ UNCHANGED <<next_slot, slot, batch, ensured, calls>>

(* cudaSetDevice fails: no slot is taken. *)
NoDevice == pc = "idle" /\ UNCHANGED slots /\ Fails("CudaError")

(* cudaMalloc has no memory left. *)
EnsureFails ==
    /\ pc = "ensure"
    /\ LET buffer == Ensured[ensured + 1]
       IN  ~Enough(buffer) /\ Allocated(buffer, 0)
    /\ Fails("CudaError")

(* Any other call reports an error: what is queued on the stream stays.    *)
CallFails ==
    /\ pc \in Steps
    /\ \/ pc # "copy" /\ UNCHANGED slots
       \/ pc = "copy" /\ \E queued \in BOOLEAN : slots' = [slots EXCEPT ![slot].queued = @ \/ queued]
    /\ \/ Fails("CudaError")
       \/ pc \in {"ensure", "launch"} /\ Fails("NvcompError")

Goes(from, to) ==
    /\ pc = from
    /\ pc' = to
    /\ UNCHANGED <<next_slot, slot, batch, ensured, calls>>

(* The chunks and four of the metadata arrays are queued for the device.   *)
Copy == Goes("copy", "launch") /\ slots' = [slots EXCEPT ![slot].queued = TRUE] /\ UNCHANGED result

(* The kernel is queued, and with it the copy of the sizes to the host.    *)
Launch == Goes("launch", "collect") /\ UNCHANGED <<slots, result>>

(* The stream is synchronised, and the compressed chunks are queued.       *)
Collect == Goes("collect", "record") /\ UNCHANGED <<slots, result>>

(* The event is recorded and the stream synchronised. *)
Record == Goes("record", "idle") /\ slots' = [slots EXCEPT ![slot].queued = FALSE] /\ result' = "Ok"

Done == (pc = "failed" \/ (pc = "idle" /\ calls = MaxCalls)) /\ UNCHANGED vars

Next ==
    \/ Create \/ CreateFails
    \/ \E n \in 1 .. MaxBatch, most \in 0 .. MaxChunk : \E sum \in most .. n * most :
          Begin([count |-> n, total |-> sum, largest |-> most])
    \/ NoDevice \/ Ensure \/ EnsureFails
    \/ Copy \/ Launch \/ Collect \/ Record \/ CallFails
    \/ Done

Spec == Init /\ [][Next]_vars

-----------------------------------------------------------------------------
(* Properties.                                                             *)

Mem(i, buffer) == slots[i].mem[buffer]

(* The capacity kept for a staging buffer is what it has, also after an    *)
(* allocation that failed, on whichever slot.                              *)
CapacityTrue ==
    \A i \in 1 .. Streams : \A b \in Staging : slots[i].cap[b] = Mem(i, b)

(* When the copies start, the chunks and their results have room, however  *)
(* large the batches and whatever failed before.                           *)
ChunksFit ==
    pc \in Steps \ {"ensure"} =>
        \A b \in Staging \cup {"d_in_ptrs"} : Mem(slot, b) >= Needed(b)

(* nvcomp_deflate_codec.cu:160 "d_meta_capacity is shared across all       *)
(* metadata arrays - they're equal length": each has an element for every  *)
(* block of the batch. It does not hold: once d_in_ptrs is allocated the   *)
(* capacity says that the others are too, and they stay null.              *)
MetadataFits == pc = "copy" => \A b \in Metadata : Mem(slot, b) >= Needed(b)
=============================================================================
