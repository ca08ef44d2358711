------------------------------- MODULE GdrCopy -------------------------------
(***************************************************************************)
(* The Python bindings of GDRCopy (src/python/build/lib/gdrcopy/gdrcopy.py)*)
(* together with the native driver boundary they call through cffi.       *)
(*                                                                         *)
(*  - GDRCopy  : one device-context object; its field _handle is `gdr`.    *)
(*  - GDRHandle: one object per successful pin; its fields _handle,        *)
(*               _mapped_ptr and _info are `mh`, `mapped` and `info`.      *)
(*  - driver   : what libgdrapi holds: contexts, pinned tokens and live    *)
(*               host mappings.  The driver is not in the repository; its  *)
(*               behaviour is taken from the specification (section 6).    *)
(*                                                                         *)
(* Every method is one atomic step: the bindings are synchronous and not   *)
(* thread-safe, so the caller serialises calls.  A finalizer (__del__) is  *)
(* a step the garbage collector may take whenever an object is dropped.    *)
(* A token is identified with the GDRHandle object that wraps it.          *)
(***************************************************************************)
EXTENDS FiniteSets

CONSTANTS
    Handles,            \* GDRHandle objects that pins may create
    Ctxs,               \* driver context ids that gdr_open may return
    NULL,               \* None / a NULL cdata pointer
    CloseWithLivePins,  \* may the caller close a context whose handles still hold pins?
    CloseMayLeak        \* may a gdr_close that reports an error keep the context alive?

ASSUME ConstantsAssumption ==
    /\ NULL \notin Handles \cup Ctxs
    /\ CloseWithLivePins \in BOOLEAN
    /\ CloseMayLeak \in BOOLEAN

VARIABLES
    ctxState,   \* driver: context id -> "unused" | "open" | "closed"
    pinned,     \* driver: tokens it holds pinned
    pinCtx,     \* driver: the context each token was pinned in
    drvMapped,  \* driver: tokens with a live host mapping
    gdr,        \* GDRCopy._handle
    gdrAlive,   \* a GDRCopy object exists (constructed, not yet finalized)
    hState,     \* GDRHandle object: "none" (not created) | "live" | "dead" (finalized)
    mh,         \* GDRHandle._handle is truthy (still holds its token)
    mapped,     \* GDRHandle._mapped_ptr is truthy
    info,       \* GDRHandle._info: "none" | "mapped" | "unmapped" (its `mapped` flag)
    api,        \* the last method called: operation, handle and outcome
    calls       \* the driver calls that method made

drvVars == <<ctxState, pinned, pinCtx, drvMapped>>
gdrVars == <<gdr, gdrAlive>>
hVars   == <<hState, mh, mapped, info>>
vars    == <<drvVars, gdrVars, hVars, api, calls>>

-----------------------------------------------------------------------------
(* Outcomes of a method: return, or the exception it raises.  get_info     *)
(* returns the `mapped` flag of its snapshot.                              *)
Outcomes == {"ok", "RuntimeError", "GDRError", "TypeError",
             "info_mapped", "info_unmapped"}

\* the methods and finalizers of the bindings ("init" before the first)
ApiOps == {"init", "open", "close", "pin_buffer", "pin_buffer_v2",
           "get_attribute", "get_driver_version", "get_version", "del_gdr",
           "unpin", "get_info", "map", "unmap", "copy_to_mapping",
           "copy_from_mapping", "get_callback_flag", "del_handle"}

\* driver calls that take a gdr_t context argument
CtxOps == {"close", "pin", "unpin", "get_info", "map", "unmap",
           "cb_flag", "attr", "drv_version"}
CallOps == CtxOps \cup {"open", "copy_to", "copy_from"}

Api(op, h, out) == [op |-> op, h |-> h, out |-> out]
Call(op, c, h) == [op |-> op, ctx |-> c, h |-> h]

\* _check_error: a non-zero status raises GDRError
Status(ok) == IF ok THEN "ok" ELSE "GDRError"

CtxOpen(c) == c \in Ctxs /\ ctxState[c] = "open"

\* a call on token h through context c that the driver can honour
ValidToken(c, h) == CtxOpen(c) /\ h \in pinned /\ pinCtx[h] = c
ValidMapping(c, h) == CtxOpen(c) /\ h \in drvMapped /\ pinCtx[h] = c

(* The driver state after a release of x from S.  A failed release may    *)
(* have released before reporting the error; a call on an invalid context *)
(* or token is undefined in the driver and releases nothing here.         *)
Released(S, x, valid, ok) ==
    IF ~valid THEN {S}
    ELSE IF ok THEN {S \ {x}}
    ELSE {S, S \ {x}}

\* gdr_close releases the context and with it every pin and mapping made in it
ReleaseCtx(c) ==
    /\ ctxState' = [ctxState EXCEPT ![c] = "closed"]
    /\ pinned' = {t \in pinned : pinCtx[t] # c}
    /\ drvMapped' = {t \in drvMapped : pinCtx[t] # c}

LiveHandle(h) == hState[h] = "live"

-----------------------------------------------------------------------------
Init ==
    /\ ctxState = [c \in Ctxs |-> "unused"]
    /\ pinned = {}
    /\ pinCtx = [h \in Handles |-> NULL]
    /\ drvMapped = {}
    /\ gdr = NULL
    /\ gdrAlive = FALSE
    /\ hState = [h \in Handles |-> "none"]
    /\ mh = [h \in Handles |-> FALSE]
    /\ mapped = [h \in Handles |-> FALSE]
    /\ info = [h \in Handles |-> "none"]
    /\ api = Api("init", NULL, "ok")
    /\ calls = {}

\* a method that raises before any driver call and changes nothing
Raise(op, h, exc) ==
    /\ api' = Api(op, h, exc)
    /\ calls' = {}
    /\ UNCHANGED <<drvVars, gdrVars, hVars>>

-----------------------------------------------------------------------------
(*************************** GDRCopy methods ******************************)

(* GDRCopy(): __init__ sets _handle to None.  One GDRCopy object exists at *)
(* a time; a new one is made once the previous one has been finalized.    *)
NewGdrCopy ==
    /\ ~gdrAlive
    /\ gdrAlive' = TRUE
    /\ gdr' = NULL
    /\ api' = Api("init", NULL, "ok")
    /\ calls' = {}
    /\ UNCHANGED <<drvVars, hVars>>

Open ==
    /\ gdrAlive
    /\ \/ /\ gdr # NULL
          /\ Raise("open", NULL, "RuntimeError")
       \/ /\ gdr = NULL
          /\ calls' = {Call("open", NULL, NULL)}
          /\ \/ \E c \in Ctxs :
                  /\ ctxState[c] = "unused"
                  /\ ctxState' = [ctxState EXCEPT ![c] = "open"]
                  /\ gdr' = c
                  /\ api' = Api("open", NULL, "ok")
             \/ /\ api' = Api("open", NULL, "GDRError")
                /\ UNCHANGED <<ctxState, gdr>>
          /\ UNCHANGED <<pinned, pinCtx, drvMapped, gdrAlive, hVars>>

(* Mutant of DoClose: _handle cleared before the driver call, so         *)
(* gdr_close receives None and releases nothing.                          *)
DoCloseClearsFirst(op) ==
    \/ /\ gdr = NULL
       /\ api' = Api(op, NULL, "ok")
       /\ calls' = {}
       /\ UNCHANGED <<drvVars, gdr, hVars>>
    \/ /\ gdr # NULL
       /\ calls' = {Call("close", NULL, NULL)}
       /\ gdr' = NULL
       /\ \E ok \in BOOLEAN : api' = Api(op, NULL, Status(ok))
       /\ UNCHANGED <<drvVars, hVars>>

(* close(), also the body of GDRCopy.__del__ (op "del_gdr").  _handle is  *)
(* cleared before the status is checked.                                  *)
DoClose(op) ==
    \/ /\ gdr = NULL
       /\ api' = Api(op, NULL, "ok")
       /\ calls' = {}
       /\ UNCHANGED <<drvVars, gdr, hVars>>
    \/ /\ gdr # NULL
       /\ calls' = {Call("close", gdr, NULL)}
       /\ gdr' = NULL
       /\ \E ok \in BOOLEAN :
             /\ api' = Api(op, NULL, Status(ok))
             /\ \/ ReleaseCtx(gdr)
                \/ ~ok /\ CloseMayLeak /\ UNCHANGED <<ctxState, pinned, drvMapped>>
       /\ UNCHANGED <<pinCtx, hVars>>

\* the caller's discipline: no live handle still holds a pin of this context
CloseAllowed ==
    CloseWithLivePins \/ \A h \in Handles : LiveHandle(h) => ~mh[h]

Close ==
    /\ gdrAlive
    /\ CloseAllowed
    /\ DoClose("close")
    /\ UNCHANGED gdrAlive

(* pin_buffer and pin_buffer_v2 differ only in the arguments passed to    *)
(* the driver; a successful pin wraps the new token in a GDRHandle.       *)
Pin(op) ==
    /\ gdrAlive
    /\ \/ /\ gdr = NULL
          /\ Raise(op, NULL, "RuntimeError")
       \/ /\ gdr # NULL
          /\ calls' = {Call("pin", gdr, NULL)}
          /\ \/ \E h \in Handles :
                  /\ hState[h] = "none"
                  /\ CtxOpen(gdr)
                  /\ pinned' = pinned \cup {h}
                  /\ pinCtx' = [pinCtx EXCEPT ![h] = gdr]
                  /\ hState' = [hState EXCEPT ![h] = "live"]
                  /\ mh' = [mh EXCEPT ![h] = TRUE]
                  /\ api' = Api(op, h, "ok")
                  /\ UNCHANGED <<mapped, info>>
             \/ /\ api' = Api(op, NULL, "GDRError")
                /\ UNCHANGED <<pinned, pinCtx, hVars>>
          /\ UNCHANGED <<ctxState, drvMapped, gdrVars>>

PinBuffer == Pin("pin_buffer")
PinBufferV2 == Pin("pin_buffer_v2")

\* get_attribute: a read of the driver through the open context
GetAttribute ==
    /\ gdrAlive
    /\ \/ /\ gdr = NULL
          /\ Raise("get_attribute", NULL, "RuntimeError")
       \/ /\ gdr # NULL
          /\ calls' = {Call("attr", gdr, NULL)}
          /\ \E ok \in BOOLEAN : api' = Api("get_attribute", NULL, Status(ok))
          /\ UNCHANGED <<drvVars, gdrVars, hVars>>

\* module function get_driver_version(gdr): reads gdr._handle unchecked
GetDriverVersion ==
    /\ gdrAlive
    /\ calls' = {Call("drv_version", gdr, NULL)}
    /\ \E ok \in BOOLEAN : api' = Api("get_driver_version", NULL, Status(ok))
    /\ UNCHANGED <<drvVars, gdrVars, hVars>>

\* module function get_version(): no context, cannot fail
GetVersion ==
    /\ api' = Api("get_version", NULL, "ok")
    /\ calls' = {}
    /\ UNCHANGED <<drvVars, gdrVars, hVars>>

(* GDRCopy.__del__: every handle refers to the GDRCopy object, so it is    *)
(* collected only after all of them.                                      *)
FinalizeGdr ==
    /\ gdrAlive
    /\ \A h \in Handles : ~LiveHandle(h)
    /\ gdrAlive' = FALSE
    /\ DoClose("del_gdr")

-----------------------------------------------------------------------------
(************************** GDRHandle methods *****************************)

(* Mutant of UnpinCall: _handle cleared only after _check_error.          *)
UnpinCallKeepsTokenOnError(h, ok) ==
    /\ pinned' \in Released(pinned, h, ValidToken(gdr, h), ok)
    /\ mh' = [mh EXCEPT ![h] = ~ok]

(* The unpin body: the call goes through the owner's current context;     *)
(* _handle is cleared before the status is checked.                       *)
UnpinCall(h, ok) ==
    /\ pinned' \in Released(pinned, h, ValidToken(gdr, h), ok)
    /\ mh' = [mh EXCEPT ![h] = FALSE]

Unpin(h) ==
    /\ LiveHandle(h)
    /\ \/ /\ ~mh[h]
          /\ Raise("unpin", h, "ok")
       \/ /\ mh[h]
          /\ calls' = {Call("unpin", gdr, h)}
          /\ \E ok \in BOOLEAN :
                /\ UnpinCall(h, ok)
                /\ api' = Api("unpin", h, Status(ok))
          /\ UNCHANGED <<ctxState, pinCtx, drvMapped, gdrVars,
                         hState, mapped, info>>

(* get_info queries the driver only while nothing is cached, and caches   *)
(* the first successful snapshot for good.  A None _handle cannot be      *)
(* converted to gdr_mh_t: cffi raises TypeError before the call.          *)
GetInfo(h) ==
    /\ LiveHandle(h)
    /\ \/ /\ info[h] # "none"
          /\ Raise("get_info", h, IF info[h] = "mapped" THEN "info_mapped"
                                                        ELSE "info_unmapped")
       \/ /\ info[h] = "none"
          /\ ~mh[h]
          /\ Raise("get_info", h, "TypeError")
       \/ /\ info[h] = "none"
          /\ mh[h]
          /\ calls' = {Call("get_info", gdr, h)}
          /\ \/ /\ ValidToken(gdr, h)
                /\ info' = [info EXCEPT ![h] =
                              IF h \in drvMapped THEN "mapped" ELSE "unmapped"]
                /\ api' = Api("get_info", h, IF h \in drvMapped THEN "info_mapped"
                                                                 ELSE "info_unmapped")
             \/ /\ api' = Api("get_info", h, "GDRError")
                /\ UNCHANGED info
          /\ UNCHANGED <<drvVars, gdrVars, hState, mh, mapped>>

(* Mutant of MapCall: the record set before _check_error, so a failed    *)
(* map still leaves _mapped_ptr set.                                      *)
MapCallRecordsOnError(h) ==
    /\ \/ /\ ValidToken(gdr, h)
          /\ h \notin drvMapped
          /\ drvMapped' = drvMapped \cup {h}
          /\ api' = Api("map", h, "ok")
       \/ /\ api' = Api("map", h, "GDRError")
          /\ UNCHANGED drvMapped
    /\ mapped' = [mapped EXCEPT ![h] = TRUE]

\* the map call: the record is set only after the status check
MapCall(h) ==
    \/ /\ ValidToken(gdr, h)
       /\ h \notin drvMapped
       /\ drvMapped' = drvMapped \cup {h}
       /\ mapped' = [mapped EXCEPT ![h] = TRUE]
       /\ api' = Api("map", h, "ok")
    \/ /\ api' = Api("map", h, "GDRError")
       /\ UNCHANGED <<drvMapped, mapped>>

Map(h) ==
    /\ LiveHandle(h)
    /\ \/ /\ mapped[h]
          /\ Raise("map", h, "RuntimeError")
       \/ /\ ~mapped[h]
          /\ ~mh[h]
          /\ Raise("map", h, "TypeError")
       \/ /\ ~mapped[h]
          /\ mh[h]
          /\ calls' = {Call("map", gdr, h)}
          /\ MapCall(h)
          /\ UNCHANGED <<ctxState, pinned, pinCtx, gdrVars, hState, mh, info>>

(* Mutant of UnmapCall: the record cleared only after _check_error, so an *)
(* unmap the driver failed keeps it.                                      *)
UnmapCallKeepsRecordOnError(h, ok) ==
    /\ drvMapped' \in Released(drvMapped, h, ValidMapping(gdr, h), ok)
    /\ mapped' = [mapped EXCEPT ![h] = ~ok]

\* the unmap body: the record is cleared before the status is checked
UnmapCall(h, ok) ==
    /\ drvMapped' \in Released(drvMapped, h, ValidMapping(gdr, h), ok)
    /\ mapped' = [mapped EXCEPT ![h] = FALSE]

Unmap(h) ==
    /\ LiveHandle(h)
    /\ \/ /\ ~mapped[h]
          /\ Raise("unmap", h, "ok")
       \/ /\ mapped[h]
          /\ ~mh[h]
          /\ Raise("unmap", h, "TypeError")
       \/ /\ mapped[h]
          /\ mh[h]
          /\ calls' = {Call("unmap", gdr, h)}
          /\ \E ok \in BOOLEAN :
                /\ UnmapCall(h, ok)
                /\ api' = Api("unmap", h, Status(ok))
          /\ UNCHANGED <<ctxState, pinned, pinCtx, gdrVars, hState, mh, info>>

(* copy_to_mapping / copy_from_mapping: the driver copy takes the token   *)
(* and the mapped pointer, no context.                                    *)
Copy(op, drvOp, h) ==
    /\ LiveHandle(h)
    /\ \/ /\ ~mapped[h]
          /\ Raise(op, h, "RuntimeError")
       \/ /\ mapped[h]
          /\ ~mh[h]
          /\ Raise(op, h, "TypeError")
       \/ /\ mapped[h]
          /\ mh[h]
          /\ calls' = {Call(drvOp, NULL, h)}
          /\ \E ok \in BOOLEAN : api' = Api(op, h, Status(ok))
          /\ UNCHANGED <<drvVars, gdrVars, hVars>>

CopyToMapping(h) == Copy("copy_to_mapping", "copy_to", h)
CopyFromMapping(h) == Copy("copy_from_mapping", "copy_from", h)

\* get_callback_flag: no check at all before the driver call
GetCallbackFlag(h) ==
    /\ LiveHandle(h)
    /\ \/ /\ ~mh[h]
          /\ Raise("get_callback_flag", h, "TypeError")
       \/ /\ mh[h]
          /\ calls' = {Call("cb_flag", gdr, h)}
          /\ \E ok \in BOOLEAN : api' = Api("get_callback_flag", h, Status(ok))
          /\ UNCHANGED <<drvVars, gdrVars, hVars>>

(* GDRHandle.__del__: self.unmap(); self.unpin().  An exception raised by  *)
(* unmap ends __del__ (Python reports and ignores it), so unpin is skipped.*)
FinalizeHandle(h) ==
    /\ LiveHandle(h)
    /\ hState' = [hState EXCEPT ![h] = "dead"]
    /\ api' = Api("del_handle", h, "ok")
    /\ \/ /\ ~mapped[h]
          /\ ~mh[h]
          /\ calls' = {}
          /\ UNCHANGED <<drvVars, mh, mapped>>
       \/ /\ ~mapped[h]
          /\ mh[h]
          /\ calls' = {Call("unpin", gdr, h)}
          /\ \E ok \in BOOLEAN : UnpinCall(h, ok)
          /\ UNCHANGED <<ctxState, pinCtx, drvMapped, mapped>>
       \/ /\ mapped[h]
          /\ ~mh[h]
          /\ calls' = {}
          /\ UNCHANGED <<drvVars, mh, mapped>>
       \/ /\ mapped[h]
          /\ mh[h]
          /\ \E okU \in BOOLEAN :
                /\ UnmapCall(h, okU)
                /\ \/ /\ okU
                      /\ calls' = {Call("unmap", gdr, h), Call("unpin", gdr, h)}
                      /\ \E okP \in BOOLEAN : UnpinCall(h, okP)
                   \/ /\ ~okU
                      /\ calls' = {Call("unmap", gdr, h)}
                      /\ UNCHANGED <<pinned, mh>>
          /\ UNCHANGED <<ctxState, pinCtx>>
    /\ UNCHANGED <<gdrVars, info>>

-----------------------------------------------------------------------------
Next ==
    \/ NewGdrCopy \/ Open \/ Close \/ PinBuffer \/ PinBufferV2
    \/ GetAttribute \/ GetDriverVersion \/ GetVersion \/ FinalizeGdr
    \/ \E h \in Handles :
          \/ Unpin(h) \/ GetInfo(h) \/ Map(h) \/ Unmap(h)
          \/ CopyToMapping(h) \/ CopyFromMapping(h)
          \/ GetCallbackFlag(h) \/ FinalizeHandle(h)

Spec == Init /\ [][Next]_vars

-----------------------------------------------------------------------------
(******************************* Invariants ********************************)

TypeOK ==
    /\ ctxState \in [Ctxs -> {"unused", "open", "closed"}]
    /\ pinned \subseteq Handles
    /\ pinCtx \in [Handles -> Ctxs \cup {NULL}]
    /\ drvMapped \subseteq Handles
    /\ gdr \in Ctxs \cup {NULL}
    /\ gdrAlive \in BOOLEAN
    /\ hState \in [Handles -> {"none", "live", "dead"}]
    /\ mh \in [Handles -> BOOLEAN]
    /\ mapped \in [Handles -> BOOLEAN]
    /\ info \in [Handles -> {"none", "mapped", "unmapped"}]
    /\ api \in [op : ApiOps, h : Handles \cup {NULL}, out : Outcomes]
    /\ calls \subseteq [op : CallOps, ctx : Ctxs \cup {NULL}, h : Handles \cup {NULL}]

(* A live handle that still holds its token holds a token the driver has  *)
(* pinned, in the context its GDRCopy currently has open.                 *)
TokenValid ==
    \A h \in Handles : LiveHandle(h) /\ mh[h] => ValidToken(gdr, h)

(* A live handle whose record says mapped, and which still holds its      *)
(* token, has a live driver mapping behind the record.                    *)
MappingRecordSound ==
    \A h \in Handles : LiveHandle(h) /\ mh[h] /\ mapped[h] => h \in drvMapped

(* A GDRHandle object not yet created by a pin holds no token and no      *)
(* mapping record.                                                        *)
NoneFresh ==
    \A h \in Handles : hState[h] = "none" => ~mh[h] /\ ~mapped[h]

(* A live GDRHandle keeps its GDRCopy object alive through _gdr, so no    *)
(* new GDRCopy is made, and its finalizer does not run, while one is live.*)
OwnerAlive ==
    \A h \in Handles : LiveHandle(h) => gdrAlive

(* The inductive invariant behind the safety properties below; it holds   *)
(* under the caller discipline CloseAllowed.                              *)
IInv == TypeOK /\ NoneFresh /\ OwnerAlive /\ TokenValid /\ MappingRecordSound

-----------------------------------------------------------------------------
(*************************** Refinement mapping ****************************)

(* The section 4.2 state a GDRHandle object is in: "none" before the pin   *)
(* that creates it; UNPINNED once its _handle is cleared or the object is  *)
(* finalized; otherwise MAPPED or PINNED after its _mapped_ptr.           *)
Lifecycle(h) ==
    IF hState[h] = "none" THEN "none"
    ELSE IF hState[h] = "dead" \/ ~mh[h] THEN "unpinned"
    ELSE IF mapped[h] THEN "mapped"
    ELSE "pinned"

HL == INSTANCE HandleLifecycle
        WITH lifecycle <- [h \in Handles |-> Lifecycle(h)], event <- api

(* GDRHandle implements the Buffer Handle state machine of section 4.2:   *)
(* pin_buffer, map, unmap, unpin and __del__ move it along the machine's  *)
(* edges only, map and pin only when they succeed, and no other method    *)
(* or failure changes its state.                                          *)
ImplementsLifecycle == HL!Spec

-----------------------------------------------------------------------------
(**************************** Action properties ****************************)

(* No double release: unpin (GDRHandle.unpin and __del__) only ever asks  *)
(* the driver to release a token it still holds, and unmap only a mapping *)
(* that is still live, whatever driver errors came before.                *)
ReleaseOnlyHeld ==
    [][\A c \in calls' :
          /\ c.op = "unpin" => c.h \in pinned
          /\ c.op = "unmap" => c.h \in drvMapped]_vars

(* copy_to_mapping and copy_from_mapping reach the driver only through a  *)
(* mapping that is live on a token that is still pinned.                  *)
CopyThroughLiveMapping ==
    [][\A c \in calls' :
          c.op \in {"copy_to", "copy_from"} => c.h \in pinned \cap drvMapped]_vars

(* Specification section 9: a resource is released no later than when its *)
(* owner goes out of scope.  Every pin and every mapping a program makes  *)
(* is eventually released by the driver: through close(), unmap()/unpin() *)
(* or the finalizers, on every exit path of the program.                  *)
EventuallyReleased ==
    \A h \in Handles : (h \in pinned \cup drvMapped) ~> (h \notin pinned \cup drvMapped)

(* Specification section 7: destructor-time cleanup unmaps and then       *)
(* unpins, swallowing secondary errors.  Whenever GDRHandle.__del__       *)
(* finalizes a handle that still holds its token, it calls the driver's   *)
(* unpin for it.                                                          *)
FinalizerUnpins ==
    [][\A h \in Handles :
          LiveHandle(h) /\ hState'[h] = "dead" /\ mh[h]
             => Call("unpin", gdr, h) \in calls']_vars

(* Specification sections 4.2 and 8: get_info reports the mapping state   *)
(* the driver has when it is called (mapped=true after a map).            *)
InfoReflectsDriver ==
    [][api'.op = "get_info" /\ api'.out \in {"info_mapped", "info_unmapped"}
         => ((api'.out = "info_mapped") <=> api'.h \in drvMapped)]_vars

(* Specification section 8: unmap is idempotent.  Whatever an unmap call   *)
(* returns, it leaves no mapping record behind, so that the next unmap    *)
(* of the same handle is a no-op that cannot raise.                       *)
UnmapLeavesNoRecord ==
    api.op = "unmap" => ~mapped[api.h]

(* Specification sections 4.1 and 5: a driver call that takes a context   *)
(* is made only with a context that is open, never with NULL or a closed  *)
(* one (the driver would dereference it).                                 *)
NoInvalidContextCall ==
    [][\A c \in calls' : c.op \in CtxOps => CtxOpen(c.ctx)]_vars

=============================================================================
