------------------------- MODULE BasicExampleProofs -------------------------
(***************************************************************************)
(* basic_example.main releases what it pins: ExitInv is an inductive       *)
(* invariant of the program composed with the bindings, for any sets of    *)
(* handles and contexts and every driver outcome, provided a failed        *)
(* gdr_close still releases its context (~CloseMayLeak; see close_leak     *)
(* for the other case).  The bindings' steps keep TypeOK by TypeStep,      *)
(* because every step of the program is a step of GdrCopy.                 *)
(***************************************************************************)
EXTENDS BasicExample, GdrCopyProofs

USE ConstantsAssumption DEF Api, LiveHandle, drvVars, gdrVars, hVars

-----------------------------------------------------------------------------
(* Every step of main is a step of the bindings or leaves them alone: the  *)
(* handle methods are only called on the handle pin_buffer_v2 returned.    *)
LEMMA BasicIsNext ==
    ASSUME ExitInv, ExNext
    PROVE  [Next]_vars
<1>1. CASE Version \/ New \/ OpenStep \/ PinStep \/ CloseStep \/ DropGdr
    BY <1>1 DEF Version, New, OpenStep, PinStep, CloseStep, DropGdr, Next,
                PinBufferV2
<1>2. CASE ImportCupy
    BY <1>2 DEF ImportCupy, vars
<1>3. CASE InfoStep \/ MapStep \/ CopyFromStep \/ CopyToStep
    <2>1. handle \in Handles
        BY <1>3 DEF InfoStep, MapStep, CopyFromStep, CopyToStep, HandleStep,
                    ExitInv, InTry
    <2>2. QED
        BY <1>3, <2>1 DEF InfoStep, MapStep, CopyFromStep, CopyToStep, HandleStep,
                          Next
<1>4. CASE DropHandle
    <2>1. CASE handle # NULL
        <3>1. handle \in Handles /\ FinalizeHandle(handle)
            BY <1>4, <2>1 DEF DropHandle, ExitInv
        <3>2. QED
            BY <3>1 DEF Next
    <2>2. CASE handle = NULL
        BY <1>4, <2>2 DEF DropHandle, vars
    <2>3. QED
        BY <2>1, <2>2
<1>5. QED
    BY <1>1, <1>2, <1>3, <1>4 DEF ExNext

(* A state where the driver holds nothing satisfies the Held conjuncts of  *)
(* ExitInv whatever main is doing.                                         *)
LEMMA NothingHeld ==
    ASSUME TypeOK', handle' \in Handles \cup {NULL},
           pc' \in BeforePin => handle' = NULL,
           pc' \in InTry => handle' \in Handles,
           pinned' = {}, drvMapped' = {}
    PROVE  ExitInv'
BY DEF ExitInv

(* Before pin_buffer_v2 has returned, and once the finally has run, main   *)
(* has nothing pinned.                                                     *)
LEMMA NoneHeldOutsideTry ==
    ASSUME ExitInv, pc \in BeforePin \cup AfterClose
    PROVE  pinned = {} /\ drvMapped = {}
BY DEF ExitInv, TypeOK, BeforePin, AfterClose

-----------------------------------------------------------------------------
(* The step of ExitInv: each statement of main, with the bindings' action  *)
(* it runs, keeps it.  Only the successful pin adds to what the driver     *)
(* holds, and only in the open context; the finally's close empties it.    *)
LEMMA ExitInvStep ==
    ASSUME ~CloseMayLeak, ExitInv, [ExNext]_exVars
    PROVE  ExitInv'
<1>1. TypeOK'
    <2>1. CASE ExNext
        BY <2>1, BasicIsNext, TypeStep DEF ExitInv
    <2>2. CASE UNCHANGED exVars
        BY <2>2 DEF ExitInv, TypeOK, exVars, vars
    <2>3. QED
        BY <2>1, <2>2
<1>2. CASE UNCHANGED exVars
    BY <1>2 DEF ExitInv, TypeOK, exVars, vars
<1>3. CASE Version \/ ImportCupy \/ New \/ OpenStep
    <2>1. pc \in BeforePin /\ handle = NULL
        BY <1>3 DEF Version, ImportCupy, New, OpenStep, BeforePin, ExitInv
    <2>2. pinned = {} /\ drvMapped = {}
        BY <2>1, NoneHeldOutsideTry
    <2>3. /\ pinned' = pinned /\ drvMapped' = drvMapped /\ handle' = handle
          /\ pc' \in BeforePin \cup {"drop", "done"}
        BY <1>3 DEF Version, ImportCupy, New, OpenStep, GetVersion, NewGdrCopy,
                    Open, Raise, vars, BeforePin
    <2>4. QED
        BY <1>1, <2>1, <2>2, <2>3, NothingHeld DEF BeforePin, InTry
<1>4. CASE PinStep
    <2>1. handle = NULL /\ pinned = {} /\ drvMapped = {}
        BY <1>4, NoneHeldOutsideTry DEF PinStep, BeforePin, ExitInv
    <2>2. CASE Raised
        <3>1. /\ pinned' = pinned /\ drvMapped' = drvMapped
              /\ handle' = NULL /\ pc' = "close"
            BY <1>4, <2>2, PinOutcome DEF PinStep, PinBufferV2, Raised
        <3>2. QED
            BY <1>1, <2>1, <3>1, NothingHeld DEF BeforePin, InTry
    <2>3. CASE ~Raised
        <3>1. PICK h \in Handles :
                /\ gdr # NULL
                /\ pinned' = pinned \cup {h}
                /\ pinCtx' = [pinCtx EXCEPT ![h] = gdr]
                /\ api' = Api("pin_buffer_v2", h, "ok")
                /\ drvMapped' = drvMapped /\ gdr' = gdr
            BY <1>4, <2>3, PinOutcome DEF PinStep, PinBufferV2, Raised
        <3>2. handle' = h /\ pc' = "info"
            BY <1>4, <2>3, <3>1 DEF PinStep, Raised
        <3>3. QED
            BY <1>1, <2>1, <3>1, <3>2 DEF ExitInv, TypeOK, BeforePin, InTry,
                                          AfterClose
    <2>4. QED
        BY <2>2, <2>3
<1>5. CASE InfoStep \/ CopyFromStep \/ CopyToStep
    <2>1. /\ pc \in InTry
          /\ UNCHANGED <<pinned, pinCtx, drvMapped, gdr, handle>>
          /\ pc' \in InTry \cup {"close"}
        BY <1>5 DEF InfoStep, CopyFromStep, CopyToStep, HandleStep, GetInfo,
                    CopyFromMapping, CopyToMapping, Copy, Raise, InTry
    <2>2. QED
        BY <1>1, <2>1 DEF ExitInv, InTry, BeforePin, AfterClose
<1>6. CASE MapStep
    <2>1. /\ pc = "map" /\ pc' \in {"copy_from", "close"}
          /\ handle' = handle
        BY <1>6 DEF MapStep, HandleStep
    <2>2. UNCHANGED <<pinned, pinCtx, gdr>>
        BY <1>6 DEF MapStep, HandleStep, Map, Raise
    <2>3. drvMapped' \subseteq drvMapped \cup (pinned \cap {handle})
        BY <1>6 DEF MapStep, HandleStep, Map, MapCall, Raise, ValidToken
    <2>4. QED
        BY <1>1, <2>1, <2>2, <2>3 DEF ExitInv, InTry, BeforePin, AfterClose
<1>7. CASE CloseStep
    <2>1. pc' = "drop" /\ handle' = handle
        BY <1>7 DEF CloseStep
    <2>2. pinned' = {} /\ drvMapped' = {}
        <3>1. CASE gdr = NULL
            BY <1>7, <3>1 DEF CloseStep, Close, DoClose, ExitInv
        <3>2. CASE gdr # NULL
            <4>1. ReleaseCtx(gdr)
                BY <1>7, <3>2 DEF CloseStep, Close, DoClose
            <4>2. QED
                BY <4>1 DEF ReleaseCtx, ExitInv
        <3>3. QED
            BY <3>1, <3>2
    <2>3. QED
        BY <1>1, <2>1, <2>2, NothingHeld DEF ExitInv, BeforePin, InTry
<1>8. CASE DropHandle \/ DropGdr
    <2>1. /\ pc \in AfterClose /\ pc' \in AfterClose /\ handle' = handle
        BY <1>8 DEF DropHandle, DropGdr, AfterClose
    <2>2. pinned = {} /\ drvMapped = {}
        BY <2>1, NoneHeldOutsideTry
    <2>3. Held' \subseteq Held
        <3>1. CASE DropHandle /\ handle # NULL
            BY <3>1, FinalizersShrink DEF DropHandle, ExitInv
        <3>2. CASE DropHandle /\ handle = NULL
            BY <3>2 DEF DropHandle, vars, Held
        <3>3. CASE DropGdr
            BY <3>3, FinalizersShrink DEF DropGdr, ExitInv
        <3>4. QED
            BY <1>8, <3>1, <3>2, <3>3
    <2>4. QED
        BY <1>1, <2>1, <2>2, <2>3, NothingHeld DEF ExitInv, Held, BeforePin,
                                                   InTry, AfterClose
<1>10. QED
    BY <1>2, <1>3, <1>4, <1>5, <1>6, <1>7, <1>8 DEF ExNext

(* main starts holding nothing, with `handle` unbound.                     *)
LEMMA ExitInvInit ==
    ExInit => ExitInv
<1> SUFFICES ASSUME ExInit PROVE ExitInv
    OBVIOUS
<1>1. TypeOK
    BY InitType DEF ExInit
<1>2. QED
    BY <1>1 DEF ExInit, Init, ExitInv, BeforePin, InTry, AfterClose

(* ExitInv holds in every state of basic_example.main run against the      *)
(* bindings, whatever gdr_open, pin, map and the copies return, provided a *)
(* failed gdr_close still releases its context.                            *)
THEOREM BasicExitInvariant ==
    ASSUME ~CloseMayLeak
    PROVE  ExSpec => []ExitInv
BY ExitInvInit, ExitInvStep, PTL DEF ExSpec

=============================================================================
