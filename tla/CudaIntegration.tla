--------------------------- MODULE CudaIntegration ---------------------------
(***************************************************************************)
(* src/python/examples/cuda_integration.py run against the bindings.      *)
(* main() calls benchmark_transfer once per size in three loops, the      *)
(* second through compare_with_cupy_transfer.  Each call makes its own    *)
(* GDRCopy, opens it, pins and maps one buffer, copies Iterations times    *)
(* each way, and closes the GDRCopy in a finally; it never unmaps or       *)
(* unpins.  On a normal return its locals are dropped: `handle` first,    *)
(* then `gdr`.  main catches nothing, so any exception ends the program;  *)
(* its traceback keeps benchmark_transfer's frame, and the finalizers of  *)
(* that frame's objects run at interpreter shutdown, or never.           *)
(* Sizes, flags, timings and bandwidths are left out, except that a       *)
(* bandwidth division may raise ZeroDivisionError when the measured time  *)
(* is zero.                                                               *)
(***************************************************************************)
EXTENDS GdrCopy, Naturals

CONSTANTS
    Sizes,          \* len(sizes) in main (4 in the code)
    Iterations      \* iterations of each copy loop (10 in the code)

ASSUME ExampleAssumption ==
    /\ Sizes \in Nat \ {0}
    /\ Iterations \in Nat \ {0}

VARIABLES
    pc,         \* the statement the program is about to run
    cupy,       \* `import cupy` succeeds
    run,        \* calls of benchmark_transfer or compare_with_cupy_transfer begun
    handle,     \* benchmark_transfer's local `handle`
    copies      \* index of the running copy loop

exVars == <<vars, pc, cupy, run, handle, copies>>

\* the bindings call of this step raised an exception
Raised == api'.out \in {"RuntimeError", "GDRError", "TypeError"}

ExInit ==
    /\ Init
    /\ pc = "main"
    /\ cupy \in BOOLEAN
    /\ run = 0
    /\ handle = NULL
    /\ copies = 0

-----------------------------------------------------------------------------
(****************************** main() ***********************************)

(* lines 136-137, 145-146, 156-157: the next iteration of the three      *)
(* loops, the second through compare_with_cupy_transfer; after the last,  *)
(* main returns.                                                          *)
MainLoop ==
    /\ pc = "main"
    /\ \/ /\ run < 3 * Sizes
          /\ run' = run + 1
          /\ pc' = IF Sizes <= run /\ run < 2 * Sizes THEN "compare" ELSE "bench"
       \/ /\ run = 3 * Sizes
          /\ pc' = "done"
          /\ UNCHANGED run
    /\ UNCHANGED <<vars, cupy, handle, copies>>

(* compare_with_cupy_transfer, lines 92-119: without CuPy it returns      *)
(* None; otherwise it times cp.asnumpy, whose bandwidth division by the    *)
(* measured time (line 116) may raise, and then calls benchmark_transfer.  *)
Compare ==
    /\ pc = "compare"
    /\ pc' \in IF cupy THEN {"bench", "crash"} ELSE {"main"}
    /\ UNCHANGED <<vars, cupy, run, handle, copies>>

-----------------------------------------------------------------------------
(************************* benchmark_transfer() ***************************)

(* lines 29-48: without CuPy return (None, None); otherwise allocate the   *)
(* arrays and make gdr = GDRCopy().                                       *)
Bench ==
    /\ pc = "bench"
    /\ \/ /\ ~cupy
          /\ pc' = "main"
          /\ UNCHANGED <<vars, handle>>
       \/ /\ cupy
          /\ NewGdrCopy
          /\ handle' = NULL
          /\ pc' = "open"
    /\ UNCHANGED <<cupy, run, copies>>

\* line 49: gdr.open() is before the try; an exception leaves main at once
BenchOpen ==
    /\ pc = "open"
    /\ Open
    /\ pc' = IF Raised THEN "crash" ELSE "pin"
    /\ UNCHANGED <<cupy, run, handle, copies>>

\* lines 53-54: handle = gdr.pin_buffer_v2(...)
BenchPin ==
    /\ pc = "pin"
    /\ PinBufferV2
    /\ handle' = IF Raised THEN NULL ELSE api'.h
    /\ pc' = IF Raised THEN "close_raise" ELSE "map"
    /\ UNCHANGED <<cupy, run, copies>>

(* Mutant of BenchMap: an exception of map skips the finally, as if the   *)
(* try started after it.                                                  *)
BenchMapNoFinally ==
    /\ pc = "map"
    /\ Map(handle)
    /\ pc' = IF Raised THEN "crash" ELSE "copy_from"
    /\ copies' = 0
    /\ UNCHANGED <<cupy, run, handle>>

\* line 57: mapped_ptr = handle.map(...)
BenchMap ==
    /\ pc = "map"
    /\ Map(handle)
    /\ pc' = IF Raised THEN "close_raise" ELSE "copy_from"
    /\ copies' = 0
    /\ UNCHANGED <<cupy, run, handle>>

(* lines 62-63 and 70-71: one iteration of a copy loop; after the last,   *)
(* the bandwidth is computed at `done`.                                   *)
CopyLoop(at, Method(_), done) ==
    /\ pc = at
    /\ Method(handle)
    /\ copies' = copies + 1
    /\ pc' = IF Raised THEN "close_raise"
             ELSE IF copies + 1 = Iterations THEN done ELSE at
    /\ UNCHANGED <<cupy, run, handle>>

CopyFromLoop == CopyLoop("copy_from", CopyFromMapping, "bw_from")
CopyToLoop == CopyLoop("copy_to", CopyToMapping, "bw_to")

(* lines 64-66 and 72-74: elapsed time over iterations, then size over    *)
(* that time: ZeroDivisionError when the clock did not advance.           *)
Bandwidth(at, next) ==
    /\ pc = at
    /\ pc' \in {next, "close_raise"}
    /\ copies' = 0
    /\ UNCHANGED <<vars, cupy, run, handle>>

BandwidthFrom == Bandwidth("bw_from", "copy_to")
BandwidthTo == Bandwidth("bw_to", "close_ret")

(* lines 78-80: finally: gdr.close(), after `return` (close_ret) or on an *)
(* exception (close_raise).  An exception, the pending one or close's     *)
(* own, leaves main; otherwise the function returns.                      *)
BenchClose ==
    /\ pc \in {"close_ret", "close_raise"}
    /\ Close
    /\ pc' = IF pc = "close_ret" /\ ~Raised THEN "drop" ELSE "crash"
    /\ UNCHANGED <<cupy, run, handle, copies>>

-----------------------------------------------------------------------------
(***************************** finalizers *********************************)

\* `handle` is bound to a GDRHandle that has not been finalized
HandleBound == handle # NULL /\ LiveHandle(handle)

(* Dropping `handle` runs GDRHandle.__del__ if the handle is still live. *)
DropHandle(at, next) ==
    /\ pc = at
    /\ \/ /\ HandleBound
          /\ FinalizeHandle(handle)
       \/ /\ ~HandleBound
          /\ UNCHANGED vars
    /\ pc' = next
    /\ UNCHANGED <<cupy, run, handle, copies>>

(* Dropping `gdr` after the handle released it runs GDRCopy.__del__; the  *)
(* frame's locals are gone afterwards.                                    *)
DropGdr(at, next) ==
    /\ pc = at
    /\ \/ FinalizeGdr
       \/ ~gdrAlive /\ UNCHANGED vars
    /\ pc' = next
    /\ handle' = NULL
    /\ UNCHANGED <<cupy, run, copies>>

\* benchmark_transfer returned: its frame is freed and main's loop goes on
ReturnHandle == DropHandle("drop", "drop_gdr")
ReturnGdr == DropGdr("drop_gdr", "main")

(* An uncaught exception ends the program.  The traceback holds the       *)
(* frame, so its objects are finalized at interpreter shutdown or never.  *)
Crash ==
    /\ pc = "crash"
    /\ pc' \in {"exit_handle", "done"}
    /\ UNCHANGED <<vars, cupy, run, handle, copies>>

ExitHandle == DropHandle("exit_handle", "exit_gdr")
ExitGdr == DropGdr("exit_gdr", "done")

-----------------------------------------------------------------------------
\* the whole program, main() at lines 124-163 with the functions it calls
ExNext ==
    \/ MainLoop \/ Compare
    \/ Bench \/ BenchOpen \/ BenchPin \/ BenchMap
    \/ CopyFromLoop \/ CopyToLoop \/ BandwidthFrom \/ BandwidthTo
    \/ BenchClose \/ ReturnHandle \/ ReturnGdr
    \/ Crash \/ ExitHandle \/ ExitGdr

(* One thread runs the program to its end and reference counting runs a  *)
(* finalizer as soon as a frame is freed: the program is weakly fair.     *)
(* Whether shutdown finalizes the crashed frame is a choice in Crash, not *)
(* a step fairness could force.                                          *)
ExSpec == ExInit /\ [][ExNext]_exVars /\ WF_exVars(ExNext)


-----------------------------------------------------------------------------
(******************************** Safety ***********************************)

\* benchmark_transfer's statements that use `handle`: map, the copy loops
InTry == {"map", "copy_from", "copy_to", "bw_from", "bw_to"}

\* benchmark_transfer's statements from map to its finally's gdr.close()
InBench == InTry \cup {"close_ret", "close_raise"}

(* Specification section 9 for cuda_integration.main: all that the driver *)
(* holds is the running benchmark_transfer call's `handle`, pinned in the  *)
(* context its gdr has open, and nothing outside that call's try: its      *)
(* finally's close() releases the pin before main goes on, and before an   *)
(* exception ends the program, whose finalizers may never run.  The        *)
(* conjuncts before the last make the invariant inductive.                 *)
CudaInv ==
    /\ TypeOK
    /\ handle \in Handles \cup {NULL}
    /\ pc \in InTry => handle \in Handles
    /\ pinned \cup drvMapped \subseteq {handle}
    /\ \A t \in pinned \cup drvMapped : gdr # NULL /\ pinCtx[t] = gdr
    /\ pc \notin InBench => pinned \cup drvMapped = {}

=============================================================================
