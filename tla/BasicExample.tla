---------------------------- MODULE BasicExample ----------------------------
(***************************************************************************)
(* src/python/examples/basic_example.py, main(), run against the bindings. *)
(* The program is a single thread: `pc` is the statement it is at and     *)
(* `handle` its local variable of that name.  Every statement that calls  *)
(* the bindings is the GdrCopy action of that method, conjoined with the  *)
(* control flow that follows from its outcome: an exception inside the    *)
(* inner try goes to its finally (gdr.close()), any exception then goes   *)
(* to the outer `except Exception`, which prints and returns.  When main   *)
(* returns, CPython drops its locals: `handle` (whose __del__ runs at once *)
(* by reference counting) and then `gdr`, which `handle` kept alive.       *)
(* CuPy's allocation, the printing and the host array are left out: they  *)
(* neither call the bindings nor decide the control flow.                 *)
(***************************************************************************)
EXTENDS GdrCopy

VARIABLES
    pc,         \* the statement main() is about to run
    handle      \* main's local `handle`: the GDRHandle pin_buffer_v2 returned

exVars == <<vars, pc, handle>>

\* the bindings call of this step raised an exception
Raised == api'.out \in {"RuntimeError", "GDRError", "TypeError"}

ExInit == Init /\ pc = "version" /\ handle = NULL

\* lines 20-21: major, minor = get_version()
Version ==
    /\ pc = "version"
    /\ GetVersion
    /\ pc' = "import"
    /\ UNCHANGED handle

(* lines 24-25 and 74-77: without CuPy, main prints a hint and returns     *)
(* before any GDRCopy object exists.                                      *)
ImportCupy ==
    /\ pc = "import"
    /\ pc' \in {"new", "done"}
    /\ UNCHANGED <<vars, handle>>

\* line 35: gdr = GDRCopy()
New ==
    /\ pc = "new"
    /\ NewGdrCopy
    /\ pc' = "open"
    /\ UNCHANGED handle

(* line 36: gdr.open() runs before the inner try, so its exception skips  *)
(* the finally and reaches the outer except at once.                      *)
OpenStep ==
    /\ pc = "open"
    /\ Open
    /\ pc' = IF Raised THEN "drop" ELSE "pin"
    /\ UNCHANGED handle

\* line 40: handle = gdr.pin_buffer_v2(...); a raise leaves `handle` unbound
PinStep ==
    /\ pc = "pin"
    /\ PinBufferV2
    /\ handle' = IF Raised THEN NULL ELSE api'.h
    /\ pc' = IF Raised THEN "close" ELSE "info"

(* lines 43, 47, 55 and 64: get_info, map, copy_from_mapping and          *)
(* copy_to_mapping in turn; any exception goes to the finally.            *)
HandleStep(at, Method(_), next) ==
    /\ pc = at
    /\ Method(handle)
    /\ pc' = IF Raised THEN "close" ELSE next
    /\ UNCHANGED handle

InfoStep == HandleStep("info", GetInfo, "map")
MapStep == HandleStep("map", Map, "copy_from")
CopyFromStep == HandleStep("copy_from", CopyFromMapping, "copy_to")
CopyToStep == HandleStep("copy_to", CopyToMapping, "close")

(* lines 70-72: finally: gdr.close(); whether it raises or not, main then  *)
(* returns (an exception through the outer except).                       *)
CloseStep ==
    /\ pc = "close"
    /\ Close
    /\ pc' = "drop"
    /\ UNCHANGED handle

(* main returns: `handle` is dropped first (GDRHandle.__del__), then      *)
(* `gdr`, whose last reference the handle held (GDRCopy.__del__).         *)
DropHandle ==
    /\ pc = "drop"
    /\ \/ /\ handle # NULL
          /\ FinalizeHandle(handle)
       \/ /\ handle = NULL
          /\ UNCHANGED vars
    /\ pc' = "drop_gdr"
    /\ UNCHANGED handle

DropGdr ==
    /\ pc = "drop_gdr"
    /\ FinalizeGdr
    /\ pc' = "done"
    /\ UNCHANGED handle

\* main(): the statements in program order, lines 16-84
ExNext ==
    \/ Version \/ ImportCupy \/ New \/ OpenStep \/ PinStep
    \/ InfoStep \/ MapStep \/ CopyFromStep \/ CopyToStep
    \/ CloseStep \/ DropHandle \/ DropGdr

(* The interpreter runs main to its end: the only thread never stops      *)
(* while a statement is left, so the whole program is weakly fair.        *)
ExSpec == ExInit /\ [][ExNext]_exVars /\ WF_exVars(ExNext)


-----------------------------------------------------------------------------
(******************************** Safety ***********************************)

\* the statements of main before pin_buffer_v2 has bound `handle`
BeforePin == {"version", "import", "new", "open", "pin"}

\* the handle methods called inside the inner try
InTry == {"info", "map", "copy_from", "copy_to"}

\* main's statements once the finally has run
AfterClose == {"drop", "drop_gdr", "done"}

(* Specification section 9 for basic_example.main: all that the driver    *)
(* holds is main's `handle`, pinned in the context gdr currently has, and  *)
(* nothing at all once the finally's gdr.close() has run, so that main     *)
(* leaves nothing pinned or mapped on whichever path it returns.  The      *)
(* conjuncts before the last make the invariant inductive.                 *)
ExitInv ==
    /\ TypeOK
    /\ handle \in Handles \cup {NULL}
    /\ pc \in BeforePin => handle = NULL
    /\ pc \in InTry => handle \in Handles
    /\ pinned \cup drvMapped \subseteq {handle}
    /\ \A t \in pinned \cup drvMapped : gdr # NULL /\ pinCtx[t] = gdr
    /\ pc \in AfterClose => pinned \cup drvMapped = {}

=============================================================================
