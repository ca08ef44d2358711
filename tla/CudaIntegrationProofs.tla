----------------------- MODULE CudaIntegrationProofs -----------------------
(***************************************************************************)
(* cuda_integration.main releases what each benchmark_transfer pins:      *)
(* CudaInv is an inductive invariant of the program composed with the     *)
(* bindings, for any sets of handles and contexts, any number of sizes    *)
(* and iterations, with or without CuPy, whatever the caller's close      *)
(* discipline and every driver outcome, provided a failed gdr_close still *)
(* releases its context (~CloseMayLeak; close_leak shows the other case). *)
(***************************************************************************)
EXTENDS CudaIntegration, GdrCopyProofs

USE ConstantsAssumption DEF Api, LiveHandle, drvVars, gdrVars, hVars

-----------------------------------------------------------------------------
(* Every step of the program is a step of the bindings or leaves them     *)
(* alone: map and the copies are called on the handle pin_buffer_v2       *)
(* returned, and a finalizer runs only on a live handle.                  *)
LEMMA CudaIsNext ==
    ASSUME CudaInv, ExNext
    PROVE  [Next]_vars
<1>1. CASE MainLoop \/ Compare \/ BandwidthFrom \/ BandwidthTo \/ Crash
    BY <1>1 DEF MainLoop, Compare, BandwidthFrom, BandwidthTo, Bandwidth,
                Crash, vars
<1>2. CASE Bench \/ BenchOpen \/ BenchPin \/ BenchClose
    BY <1>2 DEF Bench, BenchOpen, BenchPin, BenchClose, Next, PinBufferV2,
                vars
<1>3. CASE BenchMap \/ CopyFromLoop \/ CopyToLoop
    <2>1. handle \in Handles
        BY <1>3 DEF BenchMap, CopyFromLoop, CopyToLoop, CopyLoop, CudaInv,
                    InTry
    <2>2. QED
        BY <1>3, <2>1 DEF BenchMap, CopyFromLoop, CopyToLoop, CopyLoop, Next
<1>4. CASE ReturnHandle \/ ExitHandle
    <2>1. CASE HandleBound
        <3>1. handle \in Handles /\ FinalizeHandle(handle)
            BY <1>4, <2>1 DEF ReturnHandle, ExitHandle, DropHandle,
                              HandleBound, CudaInv
        <3>2. QED
            BY <3>1 DEF Next
    <2>2. CASE ~HandleBound
        BY <1>4, <2>2 DEF ReturnHandle, ExitHandle, DropHandle, vars
    <2>3. QED
        BY <2>1, <2>2
<1>5. CASE ReturnGdr \/ ExitGdr
    BY <1>5 DEF ReturnGdr, ExitGdr, DropGdr, Next, vars
<1>6. QED
    BY <1>1, <1>2, <1>3, <1>4, <1>5 DEF ExNext

(* A state where the driver holds nothing satisfies the Held conjuncts of  *)
(* CudaInv wherever the program is.                                        *)
LEMMA CudaNothingHeld ==
    ASSUME TypeOK', handle' \in Handles \cup {NULL},
           pc' \in InTry => handle' \in Handles,
           pinned' = {}, drvMapped' = {}
    PROVE  CudaInv'
BY DEF CudaInv

(* Outside benchmark_transfer's try the driver holds nothing.              *)
LEMMA NoneHeldOutsideBench ==
    ASSUME CudaInv, pc \notin InBench
    PROVE  pinned = {} /\ drvMapped = {}
BY DEF CudaInv, TypeOK

-----------------------------------------------------------------------------
(* The step of CudaInv: only a successful pin adds to what the driver      *)
(* holds, only in the open context and only in benchmark_transfer; its     *)
(* finally's close empties it before anything leaves the function.         *)
LEMMA CudaInvStep ==
    ASSUME ~CloseMayLeak, CudaInv, [ExNext]_exVars
    PROVE  CudaInv'
<1>1. TypeOK'
    <2>1. CASE ExNext
        BY <2>1, CudaIsNext, TypeStep DEF CudaInv
    <2>2. CASE UNCHANGED exVars
        BY <2>2 DEF CudaInv, TypeOK, exVars, vars
    <2>3. QED
        BY <2>1, <2>2
<1>2. CASE UNCHANGED exVars
    BY <1>2 DEF CudaInv, TypeOK, exVars, vars
<1>3. CASE MainLoop \/ Compare \/ Crash \/ Bench \/ BenchOpen
    <2>1. pc \notin InBench
        BY <1>3 DEF MainLoop, Compare, Crash, Bench, BenchOpen, InBench, InTry
    <2>2. pinned = {} /\ drvMapped = {}
        BY <2>1, NoneHeldOutsideBench
    <2>3. /\ pinned' = pinned /\ drvMapped' = drvMapped
          /\ handle' \in {handle, NULL}
          /\ pc' \notin InTry
        BY <1>3 DEF MainLoop, Compare, Crash, Bench, BenchOpen, NewGdrCopy,
                    Open, Raise, vars, InTry
    <2>4. QED
        BY <1>1, <2>2, <2>3, CudaNothingHeld DEF CudaInv
<1>4. CASE BandwidthFrom \/ BandwidthTo
    <2>1. /\ pc \in InTry /\ pc' \in InBench
          /\ UNCHANGED <<vars, handle>>
        BY <1>4 DEF BandwidthFrom, BandwidthTo, Bandwidth, InTry, InBench
    <2>2. QED
        BY <1>1, <2>1 DEF CudaInv, vars
<1>5. CASE BenchPin
    <2>1. pinned = {} /\ drvMapped = {}
        BY <1>5, NoneHeldOutsideBench DEF BenchPin, InBench, InTry
    <2>2. CASE Raised
        <3>1. /\ pinned' = pinned /\ drvMapped' = drvMapped
              /\ handle' = NULL /\ pc' = "close_raise"
            BY <1>5, <2>2, PinOutcome DEF BenchPin, PinBufferV2, Raised
        <3>2. QED
            BY <1>1, <2>1, <3>1, CudaNothingHeld DEF InTry
    <2>3. CASE ~Raised
        <3>1. PICK h \in Handles :
                /\ gdr # NULL
                /\ pinned' = pinned \cup {h}
                /\ pinCtx' = [pinCtx EXCEPT ![h] = gdr]
                /\ api' = Api("pin_buffer_v2", h, "ok")
                /\ drvMapped' = drvMapped /\ gdr' = gdr
            BY <1>5, <2>3, PinOutcome DEF BenchPin, PinBufferV2, Raised
        <3>2. handle' = h /\ pc' = "map"
            BY <1>5, <2>3, <3>1 DEF BenchPin, Raised
        <3>3. QED
            BY <1>1, <2>1, <3>1, <3>2 DEF CudaInv, TypeOK, InTry, InBench
    <2>4. QED
        BY <2>2, <2>3
<1>6. CASE CopyFromLoop \/ CopyToLoop
    <2>1. /\ pc \in InTry
          /\ UNCHANGED <<pinned, pinCtx, drvMapped, gdr, handle>>
          /\ pc' \in InTry \cup {"close_raise"}
        BY <1>6 DEF CopyFromLoop, CopyToLoop, CopyLoop, CopyFromMapping,
                    CopyToMapping, Copy, Raise, InTry
    <2>2. QED
        BY <1>1, <2>1 DEF CudaInv, InTry, InBench
<1>7. CASE BenchMap
    <2>1. /\ pc = "map" /\ pc' \in {"copy_from", "close_raise"}
          /\ handle' = handle
        BY <1>7 DEF BenchMap
    <2>2. UNCHANGED <<pinned, pinCtx, gdr>>
        BY <1>7 DEF BenchMap, Map, Raise
    <2>3. drvMapped' \subseteq drvMapped \cup (pinned \cap {handle})
        BY <1>7 DEF BenchMap, Map, MapCall, Raise, ValidToken
    <2>4. QED
        BY <1>1, <2>1, <2>2, <2>3 DEF CudaInv, InTry, InBench
<1>8. CASE BenchClose
    <2>1. pc' \in {"drop", "crash"} /\ handle' = handle
        BY <1>8 DEF BenchClose
    <2>2. pinned' = {} /\ drvMapped' = {}
        <3>1. CASE gdr = NULL
            BY <1>8, <3>1 DEF BenchClose, Close, DoClose, CudaInv
        <3>2. CASE gdr # NULL
            <4>1. ReleaseCtx(gdr)
                BY <1>8, <3>2 DEF BenchClose, Close, DoClose
            <4>2. QED
                BY <4>1 DEF ReleaseCtx, CudaInv
        <3>3. QED
            BY <3>1, <3>2
    <2>3. QED
        BY <1>1, <2>1, <2>2, CudaNothingHeld DEF CudaInv, InTry
<1>9. CASE ReturnHandle \/ ExitHandle \/ ReturnGdr \/ ExitGdr
    <2>1. /\ pc \notin InBench /\ pc' \notin InTry
          /\ handle' \in {handle, NULL}
        BY <1>9 DEF ReturnHandle, ExitHandle, ReturnGdr, ExitGdr, DropHandle,
                    DropGdr, InBench, InTry
    <2>2. pinned = {} /\ drvMapped = {}
        BY <2>1, NoneHeldOutsideBench
    <2>3. Held' \subseteq Held
        <3>1. CASE (ReturnHandle \/ ExitHandle) /\ HandleBound
            BY <3>1, FinalizersShrink DEF ReturnHandle, ExitHandle, DropHandle,
                                          HandleBound, CudaInv
        <3>2. CASE (ReturnHandle \/ ExitHandle) /\ ~HandleBound
            BY <3>2 DEF ReturnHandle, ExitHandle, DropHandle, vars, Held
        <3>3. CASE ReturnGdr \/ ExitGdr
            BY <3>3, FinalizersShrink DEF ReturnGdr, ExitGdr, DropGdr, vars,
                                          Held, CudaInv
        <3>4. QED
            BY <1>9, <3>1, <3>2, <3>3
    <2>4. QED
        BY <1>1, <2>1, <2>2, <2>3, CudaNothingHeld DEF CudaInv, Held
<1>10. QED
    BY <1>2, <1>3, <1>4, <1>5, <1>6, <1>7, <1>8, <1>9 DEF ExNext

-----------------------------------------------------------------------------
(* The program starts holding nothing.                                     *)
LEMMA CudaInvInit ==
    ExInit => CudaInv
<1> SUFFICES ASSUME ExInit PROVE CudaInv
    OBVIOUS
<1>1. TypeOK
    BY InitType DEF ExInit
<1>2. QED
    BY <1>1 DEF ExInit, Init, CudaInv, InTry, InBench

(* CudaInv holds in every state of cuda_integration.main run against the   *)
(* bindings, for every driver outcome and every size and iteration count,  *)
(* provided a failed gdr_close still releases its context.                 *)
THEOREM CudaInvariant ==
    ASSUME ~CloseMayLeak
    PROVE  ExSpec => []CudaInv
BY CudaInvInit, CudaInvStep, PTL DEF ExSpec

=============================================================================
