--------------------------- MODULE GpuCodecProofs ---------------------------
(***************************************************************************)
(* Theorems about GpuCodec.tla, for every number of streams and batches of *)
(* every size.                                                             *)
(***************************************************************************)
EXTENDS GpuCodec, TLAPS

Sizes ==
    /\ Streams \in Nat \ {0}
    /\ PerStream \in Nat
    /\ MaxChunk \in Nat
    /\ MaxBatch \in Nat
    /\ MaxCalls \in Nat

(* The capacity of the metadata is that of d_in_ptrs. *)
MetadataCapacity ==
    \A i \in 1 .. Streams : slots[i].cap["d_meta"] = Mem(i, "d_in_ptrs")

(* A call ensures the buffers in order and goes on once it has all.        *)
EnsuredSoFar ==
    /\ pc = "ensure" => ensured < 8
    /\ pc \in Steps \ {"ensure"} => ensured = 8
    /\ pc \in Steps =>
          \A k \in 1 .. ensured :
             Ensured[k] \in Staging \cup {"d_in_ptrs"} => Mem(slot, Ensured[k]) >= Needed(Ensured[k])

Inv == TypeOK /\ CapacityTrue /\ MetadataCapacity /\ EnsuredSoFar

LEMMA NeededNat ==
    ASSUME Sizes, TypeOK
    PROVE  \A b \in Buffers : Needed(b) \in Nat
<1>1. /\ batch.count \in Nat /\ batch.total \in Nat /\ batch.largest \in Nat
  BY DEF TypeOK
<1>2. \A m, n \in Nat : m * n \in Nat
  OBVIOUS
<1>3. MaxOutChunk * batch.count \in Nat /\ TempSize \in Nat
  BY <1>1, <1>2 DEF MaxOutChunk, TempSize
<1>4. \A b \in Buffers : batch.count * ElementSize(b) \in Nat
  BY <1>1, <1>2 DEF ElementSize
<1> QED
  BY <1>1, <1>3, <1>4 DEF Needed

LEMMA EnsuredBuffers ==
    /\ \A k \in 1 .. 8 : Ensured[k] \in Buffers
    /\ \A j, k \in 1 .. 8 : Ensured[j] = Ensured[k] => j = k
    /\ Ensured[1] = "d_input" /\ Ensured[2] = "d_output"
    /\ Ensured[3] = "d_temp" /\ Ensured[4] = "d_in_ptrs"
BY DEF Ensured, Buffers, Staging, Metadata

LEMMA InitInv == ASSUME Sizes, Init PROVE Inv
BY DEF Sizes, Init, Empty, Inv, TypeOK, CapacityTrue, MetadataCapacity, EnsuredSoFar,
       Mem, Steps, Buffers, Staging, Metadata, Capacities

(* What allocating a buffer for the call does to the slots.                *)
LEMMA Allocation ==
    ASSUME Sizes, Inv, NEW b \in Buffers, NEW n \in Nat, Allocated(b, n)
    PROVE  /\ slots' \in [1 .. Streams -> [mem : [Buffers -> Nat], cap : [Capacities -> Nat], queued : BOOLEAN]]
           /\ slots'[slot].mem[b] = n
           /\ \A c \in Buffers \ {b} : slots'[slot].mem[c] = Mem(slot, c)
           /\ \A i \in 1 .. Streams : \A c \in Staging : slots'[i].cap[c] = slots'[i].mem[c]
           /\ \A i \in 1 .. Streams : slots'[i].cap["d_meta"] = slots'[i].mem["d_in_ptrs"]
<1> USE DEF Inv, TypeOK, Mem
<1> DEFINE cap == IF b \in {"d_in_ptrs"} \cup Staging THEN n ELSE slots[slot].cap[Capacity(b)]
<1>1. Capacity(b) \in Capacities /\ cap \in Nat
  BY DEF Capacity, Capacities
<1>2. slots' = [slots EXCEPT ![slot].mem[b] = n, ![slot].cap[Capacity(b)] = cap]
  BY DEF Allocated
<1>3. /\ slots' \in [1 .. Streams -> [mem : [Buffers -> Nat], cap : [Capacities -> Nat], queued : BOOLEAN]]
      /\ slots'[slot].mem = [slots[slot].mem EXCEPT ![b] = n]
      /\ slots'[slot].cap = [slots[slot].cap EXCEPT ![Capacity(b)] = cap]
      /\ \A i \in 1 .. Streams : i # slot => slots'[i] = slots[i]
  BY <1>1, <1>2
<1>4. /\ \A c \in Staging : slots'[slot].cap[c] = slots'[slot].mem[c]
      /\ slots'[slot].cap["d_meta"] = slots'[slot].mem["d_in_ptrs"]
  <2>1. /\ slot \in 1 .. Streams
        /\ \A c \in Staging : slots[slot].cap[c] = slots[slot].mem[c]
        /\ slots[slot].cap["d_meta"] = slots[slot].mem["d_in_ptrs"]
    BY DEF CapacityTrue, MetadataCapacity
  <2>2. /\ slots[slot].mem \in [Buffers -> Nat] /\ slots[slot].cap \in [Capacities -> Nat]
        /\ Staging \subseteq Buffers /\ Staging \subseteq Capacities
        /\ "d_in_ptrs" \in Buffers \ Staging /\ "d_meta" \in Capacities \ Staging
    BY <2>1 DEF Buffers, Capacities, Staging, Metadata
  <2>3. CASE b \in Staging
    <3>1. Capacity(b) = b /\ cap = n
      BY <2>3 DEF Capacity
    <3> QED
      BY <1>3, <2>1, <2>2, <2>3, <3>1
  <2>4. CASE b \notin Staging
    <3>1. Capacity(b) = "d_meta" /\ cap = IF b = "d_in_ptrs" THEN n ELSE slots[slot].cap["d_meta"]
      BY <2>4 DEF Capacity
    <3> HIDE DEF cap
    <3> QED
      BY <1>3, <2>1, <2>2, <2>4, <3>1
  <2> QED
    BY <2>3, <2>4
<1>5. \A i \in 1 .. Streams :
        /\ \A c \in Staging : slots'[i].cap[c] = slots'[i].mem[c]
        /\ slots'[i].cap["d_meta"] = slots'[i].mem["d_in_ptrs"]
  <2> TAKE i \in 1 .. Streams
  <2>1. CASE i = slot
    BY <1>4, <2>1
  <2>2. CASE i # slot
    BY <1>3, <2>2 DEF CapacityTrue, MetadataCapacity
  <2> QED
    BY <2>1, <2>2
<1> QED
  BY <1>3, <1>5

LEMMA StepInv == ASSUME Sizes, Inv, [Next]_vars PROVE Inv'
<1> USE DEF Inv, Sizes
<1>1. CASE Create
  <2>1. \A name : Preallocated(name) \in Nat
    BY DEF Preallocated
  <2>2. /\ slots' \in [1 .. Streams -> [mem : [Buffers -> Nat], cap : [Capacities -> Nat], queued : BOOLEAN]]
        /\ CapacityTrue' /\ MetadataCapacity'
    <3>1. Preallocated("d_meta") = Preallocated("d_in_ptrs")
      BY DEF Preallocated
    <3>2. Staging \subseteq Buffers /\ Staging \subseteq Capacities /\ "d_in_ptrs" \in Buffers /\ "d_meta" \in Capacities
      BY DEF Buffers, Staging, Metadata, Capacities
    <3> QED
      BY <1>1, <2>1, <3>1, <3>2 DEF Create, CapacityTrue, MetadataCapacity, Mem
  <2> QED
    BY <1>1, <2>2 DEF Create, TypeOK, EnsuredSoFar, Steps
<1>2. CASE CreateFails
  BY <1>2 DEF CreateFails, TypeOK, CapacityTrue, MetadataCapacity, EnsuredSoFar, Mem, Steps
<1>3. ASSUME NEW n \in 1 .. MaxBatch, NEW most \in 0 .. MaxChunk, NEW sum \in most .. n * most,
             Begin([count |-> n, total |-> sum, largest |-> most])
      PROVE  Inv'
  <2>1. TypeOK'
    <3>1. sum \in Nat
      BY <1>3
    <3> QED
      BY <1>3, <3>1 DEF Begin, TypeOK, Steps
  <2> QED
    BY <1>3, <2>1 DEF Begin, CapacityTrue, MetadataCapacity, EnsuredSoFar, Mem, Steps
<1>4. CASE Ensure
  <2> PICK b : b = Ensured[ensured + 1]
    OBVIOUS
  <2>1. /\ pc = "ensure" /\ ensured \in 0 .. 7 /\ b \in Buffers
        /\ ensured' = ensured + 1 /\ pc' \in {"copy", "ensure"}
        /\ pc' = "copy" <=> ensured' = 8
        /\ UNCHANGED <<next_slot, slot, batch, result, calls>>
    <3>1. pc = "ensure" /\ ensured \in 0 .. 7 /\ ensured + 1 \in 1 .. 8
      BY <1>4 DEF Ensure, EnsuredSoFar, TypeOK
    <3>2. b \in Buffers
      BY <3>1, EnsuredBuffers
    <3> QED
      BY <1>4, <3>1, <3>2 DEF Ensure
  <2>2. CASE Enough(b) /\ UNCHANGED slots
    <3>1. b \in Staging \cup {"d_in_ptrs"} => Mem(slot, b) >= Needed(b)
      BY <2>2 DEF Enough, Capacity, CapacityTrue, MetadataCapacity, TypeOK, Staging
    <3>2. EnsuredSoFar'
      <4>1. \A c : Needed(c)' = Needed(c) /\ Mem(slot, c)' = Mem(slot, c)
        BY <2>1, <2>2 DEF Needed, MaxOutChunk, TempSize, Mem, ElementSize
      <4> QED
        BY <2>1, <3>1, <4>1, EnsuredBuffers DEF EnsuredSoFar, Steps
    <3> QED
      BY <2>1, <2>2, <3>2 DEF TypeOK, CapacityTrue, MetadataCapacity, Mem, Steps
  <2>3. CASE Allocated(b, Needed(b))
    <3>1. Needed(b) \in Nat
      BY <2>1, NeededNat
    <3>0. /\ slots' \in [1 .. Streams -> [mem : [Buffers -> Nat], cap : [Capacities -> Nat], queued : BOOLEAN]]
          /\ slots'[slot].mem[b] = Needed(b)
          /\ \A c \in Buffers \ {b} : slots'[slot].mem[c] = Mem(slot, c)
          /\ \A i \in 1 .. Streams : \A c \in Staging : slots'[i].cap[c] = slots'[i].mem[c]
          /\ \A i \in 1 .. Streams : slots'[i].cap["d_meta"] = slots'[i].mem["d_in_ptrs"]
      BY <2>1, <2>3, <3>1, Allocation
    <3>2. TypeOK' /\ CapacityTrue' /\ MetadataCapacity'
      <4>1. TypeOK'
        <5>1. /\ next_slot \in 1 .. Streams /\ slot \in 1 .. Streams /\ calls \in 0 .. MaxCalls
              /\ batch \in [count : Nat, total : Nat, largest : Nat]
              /\ result \in {"none", "Ok", "CudaError", "NvcompError"}
          BY DEF TypeOK
        <5>2. ensured' \in 0 .. 8 /\ pc' \in Steps
          BY <2>1 DEF Steps
        <5> QED
          BY <2>1, <3>0, <5>1, <5>2 DEF TypeOK
      <4>2. CapacityTrue' /\ MetadataCapacity'
        BY <3>0 DEF CapacityTrue, MetadataCapacity, Mem
      <4> QED
        BY <4>1, <4>2
    <3>3. EnsuredSoFar'
      <4>1. \A c : Needed(c)' = Needed(c)
        BY <2>1 DEF Needed, MaxOutChunk, TempSize, ElementSize
      <4>2. Mem(slot, b)' >= Needed(b)
        BY <2>1, <3>0, <3>1 DEF Mem
      <4>3. \A k \in 1 .. ensured : Ensured[k] \in Buffers \ {b} /\ Mem(slot, Ensured[k])' = Mem(slot, Ensured[k])
        <5> TAKE k \in 1 .. ensured
        <5>1. Ensured[k] \in Buffers /\ Ensured[k] # b
          BY <2>1, EnsuredBuffers
        <5> QED
          BY <2>1, <3>0, <5>1 DEF Mem
      <4> QED
        <5> SUFFICES ASSUME NEW k \in 1 .. ensured + 1, Ensured[k] \in Staging \cup {"d_in_ptrs"}
                     PROVE  Mem(slot, Ensured[k])' >= Needed(Ensured[k])
          BY <2>1, <4>1 DEF EnsuredSoFar, Steps
        <5>1. CASE k = ensured + 1
          <6>1. Ensured[k] = b
            BY <5>1
          <6> QED
            BY <2>1, <4>2, <6>1
        <5>2. CASE k \in 1 .. ensured
          BY <2>1, <4>3, <5>2 DEF EnsuredSoFar, Steps
        <5> QED
          BY <2>1, <5>1, <5>2
    <3> QED
      BY <3>2, <3>3
  <2> QED
    BY <1>4, <2>2, <2>3 DEF Ensure
<1>5. CASE EnsureFails
  <2> DEFINE b == Ensured[ensured + 1]
  <2>1. b \in Buffers /\ Allocated(b, 0) /\ Fails("CudaError")
    <3>1. ensured + 1 \in 1 .. 8
      BY <1>5 DEF EnsureFails, EnsuredSoFar, TypeOK
    <3> QED
      BY <1>5, <3>1, EnsuredBuffers DEF EnsureFails
  <2> HIDE DEF b
  <2> QED
    BY <2>1, Allocation DEF Fails, TypeOK, CapacityTrue, MetadataCapacity, EnsuredSoFar, Mem, Steps
<1>6. ASSUME UNCHANGED <<next_slot, slot, batch, ensured, calls>>,
             NEW q \in BOOLEAN, slots' = slots \/ slots' = [slots EXCEPT ![slot].queued = q]
      PROVE  /\ CapacityTrue' /\ MetadataCapacity'
             /\ slots' \in [1 .. Streams -> [mem : [Buffers -> Nat], cap : [Capacities -> Nat], queued : BOOLEAN]]
             /\ \A c : Mem(slot, c)' = Mem(slot, c) /\ Needed(c)' = Needed(c)
  <2>1. /\ slots' \in [1 .. Streams -> [mem : [Buffers -> Nat], cap : [Capacities -> Nat], queued : BOOLEAN]]
        /\ \A i \in 1 .. Streams : slots'[i].mem = slots[i].mem /\ slots'[i].cap = slots[i].cap
    <3> DEFINE Slot == [mem : [Buffers -> Nat], cap : [Capacities -> Nat], queued : BOOLEAN]
    <3>1. slots \in [1 .. Streams -> Slot] /\ slot \in 1 .. Streams
      BY DEF TypeOK
    <3>2. [slots[slot] EXCEPT !.queued = q] \in Slot
      BY <3>1
    <3> HIDE DEF Slot
    <3>3. slots' \in [1 .. Streams -> Slot]
      BY <1>6, <3>1, <3>2
    <3>4. \A i \in 1 .. Streams : slots'[i].mem = slots[i].mem /\ slots'[i].cap = slots[i].cap
      <4>1. CASE slots' = slots
        BY <4>1
      <4>2. CASE slots' = [slots EXCEPT ![slot].queued = q]
        BY <3>1, <4>2 DEF Slot
      <4> QED
        BY <1>6, <4>1, <4>2
    <3> QED
      BY <3>3, <3>4 DEF Slot
  <2> QED
    BY <1>6, <2>1 DEF TypeOK, CapacityTrue, MetadataCapacity, Mem, Needed, MaxOutChunk, TempSize, ElementSize
<1>7. CASE Copy \/ Launch \/ Collect \/ Record
  <2>1. /\ UNCHANGED <<next_slot, slot, batch, ensured, calls>>
        /\ \E q \in BOOLEAN : slots' = slots \/ slots' = [slots EXCEPT ![slot].queued = q]
        /\ pc \in Steps \ {"ensure"} /\ pc' \in (Steps \ {"ensure"}) \cup {"idle"}
        /\ result' \in {result, "Ok"}
    BY <1>7 DEF Copy, Launch, Collect, Record, Goes, Steps
  <2> QED
    BY <1>6, <2>1 DEF TypeOK, EnsuredSoFar, Steps
<1>8. CASE CallFails \/ NoDevice
  <2>1. /\ UNCHANGED <<next_slot, slot, batch, ensured, calls>>
        /\ \E q \in BOOLEAN : slots' = slots \/ slots' = [slots EXCEPT ![slot].queued = q]
        /\ pc' = "idle" /\ result' \in {"CudaError", "NvcompError"}
    <3>1. slots[slot].queued \in BOOLEAN
      BY DEF TypeOK
    <3> QED
      BY <1>8, <3>1 DEF CallFails, NoDevice, Fails
  <2> QED
    BY <1>6, <2>1 DEF TypeOK, EnsuredSoFar, Steps
<1>9. CASE Done \/ UNCHANGED vars
  <2>1. UNCHANGED vars
    BY <1>9 DEF Done
  <2> QED
    BY <2>1 DEF vars, TypeOK, CapacityTrue, MetadataCapacity, EnsuredSoFar, Mem, Needed,
                MaxOutChunk, TempSize, ElementSize
<1> QED
  BY <1>1, <1>2, <1>3, <1>4, <1>5, <1>7, <1>8, <1>9 DEF Next

THEOREM Invariance == Sizes => (Spec => []Inv)
<1> SUFFICES ASSUME Sizes PROVE Spec => []Inv
  OBVIOUS
<1>1. Init => Inv
  BY InitInv
<1>2. Inv /\ [Next]_vars => Inv'
  BY StepInv
<1> QED
  BY <1>1, <1>2, PTL DEF Spec

(* ensure_capacity keeps its capacities true: for each staging buffer of   *)
(* each slot the capacity is what is allocated, also after a cudaMalloc    *)
(* that failed.                                                            *)
THEOREM CapacitiesTrue == Sizes => (Spec => []CapacityTrue)
<1> SUFFICES ASSUME Sizes PROVE Spec => []CapacityTrue
  OBVIOUS
<1>1. Spec => []Inv
  BY Invariance
<1>2. Inv => CapacityTrue
  BY DEF Inv
<1> QED
  BY <1>1, <1>2, PTL

(* compress_batch starts its copies only into buffers that hold the batch: *)
(* no earlier batch, smaller or failed, leaves one too small for it.       *)
THEOREM ChunksHaveRoom == Sizes => (Spec => []ChunksFit)
<1> SUFFICES ASSUME Sizes PROVE Spec => []ChunksFit
  OBVIOUS
<1>1. Spec => []Inv
  BY Invariance
<1>2. Inv => ChunksFit
  <2> SUFFICES ASSUME Inv, pc \in Steps \ {"ensure"}, NEW b \in Staging \cup {"d_in_ptrs"}
               PROVE  Mem(slot, b) >= Needed(b)
    BY DEF ChunksFit
  <2>1. \E k \in 1 .. 4 : Ensured[k] = b
    BY EnsuredBuffers DEF Staging
  <2> QED
    BY <2>1 DEF Inv, EnsuredSoFar, Steps
<1> QED
  BY <1>1, <1>2, PTL
=============================================================================
