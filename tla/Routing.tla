------------------------------ MODULE Routing -------------------------------
(***************************************************************************)
(* Which codecs a job has and which of them a file goes to: make_codecs    *)
(* (core/src/codec/codec_factory.cpp), SizeRouter                          *)
(* (core/src/pipeline/size_router.hpp) and probe_capabilities              *)
(* (core/src/capabilities.cpp). A machine is [cuda, devices]: whether the  *)
(* build has CUDA and how many devices the driver finds.                   *)
(***************************************************************************)
EXTENDS Naturals

(* make_codecs creates a GPU codec; what the probe found is not asked.     *)
GpuWanted(machine, enable_gpu) == enable_gpu /\ machine.cuda

FormatHasCodec(format) == format \in {"zip", "gzip"}

Route(algorithm, threshold, gpu_available, size) ==
    IF /\ gpu_available
       /\ algorithm # "CpuDeflate"
       /\ algorithm \in {"GpuDeflate", "GpuGDeflate"} \/ size >= threshold
    THEN "Gpu" ELSE "Cpu"

Capabilities(machine) ==
    LET has_cuda == machine.cuda /\ machine.devices > 0
    IN  [ has_cuda  |-> has_cuda,
          supported |-> {"CpuDeflate"} \cup IF has_cuda THEN {"GpuDeflate", "GpuGDeflate"} ELSE {} ]
=============================================================================
