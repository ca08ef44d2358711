---------------------------- MODULE GdrCopyProofs ----------------------------
(***************************************************************************)
(* Proofs about GdrCopy for every value of the constants.  Each action is  *)
(* split into the code paths of its method (early raise, driver success,   *)
(* driver failure): a whole action at once is too large an obligation.     *)
(***************************************************************************)
EXTENDS GdrCopy, TLAPS

USE ConstantsAssumption DEF Api, Call, Status, CtxOpen, ValidToken, ValidMapping,
                            Released, LiveHandle, drvVars, gdrVars, hVars

\* the type of the driver calls a method made
CallType == [op : CallOps, ctx : Ctxs \cup {NULL}, h : Handles \cup {NULL}]

-----------------------------------------------------------------------------
(* A method that raises before calling the driver keeps the type.         *)
LEMMA RaiseType ==
    ASSUME TypeOK, NEW op \in ApiOps, NEW h \in Handles \cup {NULL},
           NEW exc \in Outcomes, Raise(op, h, exc)
    PROVE  TypeOK'
BY DEF Raise, TypeOK

\* A driver status is mapped to an outcome: return or GDRError.
LEMMA StatusType == \A ok \in BOOLEAN : Status(ok) \in Outcomes
BY DEF Outcomes

(* close() and GDRCopy.__del__ share this body.                           *)
LEMMA DoCloseType ==
    ASSUME TypeOK, NEW op \in {"close", "del_gdr"}, DoClose(op),
           gdrAlive' \in BOOLEAN
    PROVE  TypeOK'
<1>1. CASE gdr = NULL
    BY <1>1 DEF DoClose, TypeOK, ApiOps, Outcomes
<1>2. CASE gdr # NULL
    <2>1. PICK ok \in BOOLEAN :
             /\ api' = Api(op, NULL, Status(ok))
             /\ \/ ReleaseCtx(gdr)
                \/ ~ok /\ CloseMayLeak /\ UNCHANGED <<ctxState, pinned, drvMapped>>
        BY <1>2 DEF DoClose
    <2>2. calls' = {Call("close", gdr, NULL)} /\ gdr' = NULL /\ UNCHANGED <<pinCtx, hVars>>
        BY <1>2 DEF DoClose
    <2>3. api' \in [op : ApiOps, h : Handles \cup {NULL}, out : Outcomes]
        BY <2>1, StatusType DEF ApiOps
    <2>4. calls' \subseteq [op : CallOps, ctx : Ctxs \cup {NULL}, h : Handles \cup {NULL}]
        BY <2>2 DEF TypeOK, CallOps, CtxOps
    <2>5. ctxState' \in [Ctxs -> {"unused", "open", "closed"}]
          /\ pinned' \subseteq Handles /\ drvMapped' \subseteq Handles
        BY <2>1 DEF ReleaseCtx, TypeOK
    <2>6. QED
        BY <2>2, <2>3, <2>4, <2>5 DEF TypeOK
<1>3. QED
    BY <1>1, <1>2

\* open() keeps the type.
LEMMA OpenType == TypeOK /\ Open => TypeOK'
<1> SUFFICES ASSUME TypeOK, Open PROVE TypeOK'
    OBVIOUS
<1>1. CASE gdr # NULL
    BY <1>1, RaiseType DEF Open, ApiOps, Outcomes
<1>2. CASE gdr = NULL
    <2>1. calls' \subseteq CallType /\ UNCHANGED <<pinned, pinCtx, drvMapped, gdrAlive, hVars>>
        BY <1>2 DEF Open, CallType, CallOps
    <2>2. CASE \E c \in Ctxs : /\ ctxState[c] = "unused"
                               /\ ctxState' = [ctxState EXCEPT ![c] = "open"]
                               /\ gdr' = c
                               /\ api' = Api("open", NULL, "ok")
        BY <2>1, <2>2 DEF TypeOK, CallType, ApiOps, Outcomes
    <2>3. CASE api' = Api("open", NULL, "GDRError") /\ UNCHANGED <<ctxState, gdr>>
        BY <2>1, <2>3 DEF TypeOK, CallType, ApiOps, Outcomes
    <2>4. QED
        BY <1>2, <2>2, <2>3 DEF Open
<1>3. QED
    BY <1>1, <1>2

\* pin_buffer and pin_buffer_v2 keep the type.
LEMMA PinType ==
    ASSUME TypeOK, NEW op \in {"pin_buffer", "pin_buffer_v2"}, Pin(op)
    PROVE  TypeOK'
<1>1. CASE gdr = NULL
    BY <1>1, RaiseType DEF Pin, ApiOps, Outcomes
<1>2. CASE gdr # NULL
    <2>1. /\ calls' = {Call("pin", gdr, NULL)}
          /\ UNCHANGED <<ctxState, drvMapped, gdrVars>>
          /\ \/ \E h \in Handles :
                  /\ hState[h] = "none"
                  /\ pinned' = pinned \cup {h}
                  /\ pinCtx' = [pinCtx EXCEPT ![h] = gdr]
                  /\ hState' = [hState EXCEPT ![h] = "live"]
                  /\ mh' = [mh EXCEPT ![h] = TRUE]
                  /\ api' = Api(op, h, "ok")
                  /\ UNCHANGED <<mapped, info>>
             \/ api' = Api(op, NULL, "GDRError") /\ UNCHANGED <<pinned, pinCtx, hVars>>
        BY <1>2 DEF Pin
    <2>2. calls' \subseteq CallType
        BY <1>2, <2>1 DEF CallType, CallOps, CtxOps, TypeOK
    <2>3. CASE api' = Api(op, NULL, "GDRError") /\ UNCHANGED <<pinned, pinCtx, hVars>>
        BY <2>1, <2>2, <2>3 DEF TypeOK, CallType, ApiOps, Outcomes
    <2>4. ASSUME NEW h \in Handles,
                 /\ pinned' = pinned \cup {h}
                 /\ pinCtx' = [pinCtx EXCEPT ![h] = gdr]
                 /\ hState' = [hState EXCEPT ![h] = "live"]
                 /\ mh' = [mh EXCEPT ![h] = TRUE]
                 /\ api' = Api(op, h, "ok")
                 /\ UNCHANGED <<mapped, info>>
          PROVE  TypeOK'
        BY <1>2, <2>1, <2>2, <2>4 DEF TypeOK, CallType, ApiOps, Outcomes
    <2>5. QED
        BY <2>1, <2>3, <2>4
<1>3. QED
    BY <1>1, <1>2

\* get_attribute, get_driver_version and get_version keep the type.
LEMMA ReadType ==
    TypeOK /\ (GetAttribute \/ GetDriverVersion \/ GetVersion) => TypeOK'
<1> SUFFICES ASSUME TypeOK, GetAttribute \/ GetDriverVersion \/ GetVersion
             PROVE TypeOK'
    OBVIOUS
<1>1. CASE GetAttribute /\ gdr = NULL
    BY <1>1, RaiseType DEF GetAttribute, ApiOps, Outcomes
<1>2. CASE GetAttribute /\ gdr # NULL
    <2>1. /\ calls' = {Call("attr", gdr, NULL)}
          /\ \E ok \in BOOLEAN : api' = Api("get_attribute", NULL, Status(ok))
          /\ UNCHANGED <<drvVars, gdrVars, hVars>>
        BY <1>2 DEF GetAttribute
    <2>2. QED
        BY <1>2, <2>1, StatusType DEF TypeOK, ApiOps, CallOps, CtxOps
<1>3. CASE GetDriverVersion
    <2>1. /\ calls' = {Call("drv_version", gdr, NULL)}
          /\ \E ok \in BOOLEAN : api' = Api("get_driver_version", NULL, Status(ok))
          /\ UNCHANGED <<drvVars, gdrVars, hVars>>
        BY <1>3 DEF GetDriverVersion
    <2>2. QED
        BY <2>1, StatusType DEF TypeOK, ApiOps, CallOps, CtxOps
<1>4. CASE GetVersion
    BY <1>4, RaiseType DEF GetVersion, Raise, ApiOps, Outcomes
<1>5. QED
    BY <1>1, <1>2, <1>3, <1>4
(* Whatever a release call of x does, the driver holds no more than       *)
(* before, and still holds everything but x.                              *)
LEMMA ReleasedSubset ==
    ASSUME NEW S, NEW x, NEW valid \in BOOLEAN, NEW ok \in BOOLEAN,
           NEW T \in Released(S, x, valid, ok)
    PROVE  T \subseteq S /\ S \ {x} \subseteq T
BY DEF Released

\* GDRHandle.unpin keeps the type.
LEMMA UnpinType ==
    ASSUME TypeOK, NEW h \in Handles, Unpin(h)
    PROVE  TypeOK'
<1>1. CASE ~mh[h]
    BY <1>1, RaiseType DEF Unpin, ApiOps, Outcomes
<1>2. CASE mh[h]
    <2>1. PICK ok \in BOOLEAN :
             /\ calls' = {Call("unpin", gdr, h)}
             /\ UnpinCall(h, ok)
             /\ api' = Api("unpin", h, Status(ok))
             /\ UNCHANGED <<ctxState, pinCtx, drvMapped, gdrVars, hState, mapped, info>>
        BY <1>2 DEF Unpin
    <2>2. pinned' \subseteq Handles
        BY <2>1, ReleasedSubset DEF UnpinCall, TypeOK
    <2>3. QED
        BY <2>1, <2>2, StatusType DEF UnpinCall, TypeOK, ApiOps, CallOps, CtxOps
<1>3. QED
    BY <1>1, <1>2

\* GDRHandle.get_info keeps the type.
LEMMA GetInfoType ==
    ASSUME TypeOK, NEW h \in Handles, GetInfo(h)
    PROVE  TypeOK'
<1>1. CASE info[h] # "none"
    BY <1>1, RaiseType DEF GetInfo, ApiOps, Outcomes
<1>2. CASE info[h] = "none" /\ ~mh[h]
    BY <1>2, RaiseType DEF GetInfo, ApiOps, Outcomes
<1>3. CASE info[h] = "none" /\ mh[h]
    <2>1. /\ calls' = {Call("get_info", gdr, h)}
          /\ UNCHANGED <<drvVars, gdrVars, hState, mh, mapped>>
          /\ \/ /\ info' = [info EXCEPT ![h] =
                              IF h \in drvMapped THEN "mapped" ELSE "unmapped"]
                /\ api' = Api("get_info", h, IF h \in drvMapped THEN "info_mapped"
                                                                 ELSE "info_unmapped")
             \/ api' = Api("get_info", h, "GDRError") /\ UNCHANGED info
        BY <1>3 DEF GetInfo
    <2>2. QED
        BY <2>1 DEF TypeOK, ApiOps, Outcomes, CallOps, CtxOps
<1>4. QED
    BY <1>1, <1>2, <1>3

\* GDRHandle.map keeps the type.
LEMMA MapType ==
    ASSUME TypeOK, NEW h \in Handles, Map(h)
    PROVE  TypeOK'
<1>1. CASE mapped[h] \/ ~mh[h]
    BY <1>1, RaiseType DEF Map, ApiOps, Outcomes
<1>2. CASE ~mapped[h] /\ mh[h]
    <2>1. /\ calls' = {Call("map", gdr, h)}
          /\ MapCall(h)
          /\ UNCHANGED <<ctxState, pinned, pinCtx, gdrVars, hState, mh, info>>
        BY <1>2 DEF Map
    <2>2. calls' \subseteq CallType
        BY <2>1 DEF TypeOK, CallType, CallOps, CtxOps
    <2>3. CASE /\ drvMapped' = drvMapped \cup {h}
               /\ mapped' = [mapped EXCEPT ![h] = TRUE]
               /\ api' = Api("map", h, "ok")
        BY <2>1, <2>2, <2>3 DEF TypeOK, CallType, ApiOps, Outcomes
    <2>4. CASE api' = Api("map", h, "GDRError") /\ UNCHANGED <<drvMapped, mapped>>
        BY <2>1, <2>2, <2>4 DEF TypeOK, CallType, ApiOps, Outcomes
    <2>5. QED
        BY <2>1, <2>3, <2>4 DEF MapCall
<1>3. QED
    BY <1>1, <1>2

\* GDRHandle.unmap keeps the type.
LEMMA UnmapType ==
    ASSUME TypeOK, NEW h \in Handles, Unmap(h)
    PROVE  TypeOK'
<1>1. CASE ~mapped[h] \/ ~mh[h]
    BY <1>1, RaiseType DEF Unmap, ApiOps, Outcomes
<1>2. CASE mapped[h] /\ mh[h]
    <2>1. PICK ok \in BOOLEAN :
             /\ calls' = {Call("unmap", gdr, h)}
             /\ UnmapCall(h, ok)
             /\ api' = Api("unmap", h, Status(ok))
             /\ UNCHANGED <<ctxState, pinned, pinCtx, gdrVars, hState, mh, info>>
        BY <1>2 DEF Unmap
    <2>2. drvMapped' \subseteq Handles
        BY <2>1, ReleasedSubset DEF UnmapCall, TypeOK
    <2>3. QED
        BY <2>1, <2>2, StatusType DEF UnmapCall, TypeOK, ApiOps, CallOps, CtxOps
<1>3. QED
    BY <1>1, <1>2

\* copy_to_mapping and copy_from_mapping keep the type.
LEMMA CopyType ==
    ASSUME TypeOK, NEW h \in Handles,
           NEW op \in {"copy_to_mapping", "copy_from_mapping"},
           NEW drvOp \in {"copy_to", "copy_from"}, Copy(op, drvOp, h)
    PROVE  TypeOK'
<1>1. CASE ~mapped[h] \/ ~mh[h]
    BY <1>1, RaiseType DEF Copy, ApiOps, Outcomes
<1>2. CASE mapped[h] /\ mh[h]
    <2>1. /\ calls' = {Call(drvOp, NULL, h)}
          /\ \E ok \in BOOLEAN : api' = Api(op, h, Status(ok))
          /\ UNCHANGED <<drvVars, gdrVars, hVars>>
        BY <1>2 DEF Copy
    <2>2. QED
        BY <2>1, StatusType DEF TypeOK, ApiOps, CallOps
<1>3. QED
    BY <1>1, <1>2

\* GDRHandle.get_callback_flag keeps the type.
LEMMA CallbackFlagType ==
    ASSUME TypeOK, NEW h \in Handles, GetCallbackFlag(h)
    PROVE  TypeOK'
<1>1. CASE ~mh[h]
    BY <1>1, RaiseType DEF GetCallbackFlag, ApiOps, Outcomes
<1>2. CASE mh[h]
    <2>1. /\ calls' = {Call("cb_flag", gdr, h)}
          /\ \E ok \in BOOLEAN : api' = Api("get_callback_flag", h, Status(ok))
          /\ UNCHANGED <<drvVars, gdrVars, hVars>>
        BY <1>2 DEF GetCallbackFlag
    <2>2. QED
        BY <2>1, StatusType DEF TypeOK, ApiOps, CallOps, CtxOps
<1>3. QED
    BY <1>1, <1>2

\* GDRHandle.__del__ keeps the type.
LEMMA FinalizeHandleType ==
    ASSUME TypeOK, NEW h \in Handles, FinalizeHandle(h)
    PROVE  TypeOK'
<1>1. /\ hState' = [hState EXCEPT ![h] = "dead"]
      /\ api' = Api("del_handle", h, "ok")
      /\ UNCHANGED <<gdrVars, info>>
    BY DEF FinalizeHandle
<1>2. /\ hState' \in [Handles -> {"none", "live", "dead"}]
      /\ api' \in [op : ApiOps, h : Handles \cup {NULL}, out : Outcomes]
      /\ gdr' \in Ctxs \cup {NULL} /\ gdrAlive' \in BOOLEAN
      /\ info' \in [Handles -> {"none", "mapped", "unmapped"}]
    BY <1>1 DEF TypeOK, ApiOps, Outcomes
<1>3. CASE ~mh[h]
    <2>1. calls' = {} /\ UNCHANGED <<drvVars, mh, mapped>>
        BY <1>3 DEF FinalizeHandle
    <2>2. QED
        BY <1>2, <2>1 DEF TypeOK
<1>4. CASE ~mapped[h] /\ mh[h]
    <2>1. PICK ok \in BOOLEAN :
             /\ calls' = {Call("unpin", gdr, h)}
             /\ UnpinCall(h, ok)
             /\ UNCHANGED <<ctxState, pinCtx, drvMapped, mapped>>
        BY <1>4 DEF FinalizeHandle
    <2>2. pinned' \subseteq Handles
        BY <2>1, ReleasedSubset DEF UnpinCall, TypeOK
    <2>3. QED
        BY <1>2, <2>1, <2>2 DEF UnpinCall, TypeOK, CallOps, CtxOps
<1>5. CASE mapped[h] /\ mh[h]
    <2>1. PICK okU \in BOOLEAN :
             /\ UnmapCall(h, okU)
             /\ \/ /\ okU
                   /\ calls' = {Call("unmap", gdr, h), Call("unpin", gdr, h)}
                   /\ \E okP \in BOOLEAN : UnpinCall(h, okP)
                \/ /\ ~okU
                   /\ calls' = {Call("unmap", gdr, h)}
                   /\ UNCHANGED <<pinned, mh>>
             /\ UNCHANGED <<ctxState, pinCtx>>
        BY <1>5 DEF FinalizeHandle
    <2>2. drvMapped' \subseteq Handles /\ mapped' \in [Handles -> BOOLEAN]
        BY <2>1, ReleasedSubset DEF UnmapCall, TypeOK
    <2>3. pinned' \subseteq Handles /\ mh' \in [Handles -> BOOLEAN]
        <3>1. CASE UNCHANGED <<pinned, mh>>
            BY <3>1 DEF TypeOK
        <3>2. CASE \E okP \in BOOLEAN : UnpinCall(h, okP)
            BY <3>2, ReleasedSubset DEF UnpinCall, TypeOK
        <3>3. QED
            BY <2>1, <3>1, <3>2
    <2>4. calls' \subseteq [op : CallOps, ctx : Ctxs \cup {NULL}, h : Handles \cup {NULL}]
        BY <2>1 DEF TypeOK, CallOps, CtxOps
    <2>5. QED
        BY <1>2, <2>1, <2>2, <2>3, <2>4 DEF TypeOK
<1>6. QED
    BY <1>3, <1>4, <1>5

(* Every action keeps every variable within its type.                     *)
LEMMA TypeStep == TypeOK /\ [Next]_vars => TypeOK'
<1> SUFFICES ASSUME TypeOK, [Next]_vars PROVE TypeOK'
    OBVIOUS
<1>0. CASE NewGdrCopy
    BY <1>0 DEF NewGdrCopy, TypeOK, ApiOps, Outcomes
<1>1. CASE Open
    BY <1>1, OpenType
<1>2. CASE Close
    BY <1>2, DoCloseType DEF Close, TypeOK
<1>3. CASE PinBuffer \/ PinBufferV2
    BY <1>3, PinType DEF PinBuffer, PinBufferV2
<1>4. CASE GetAttribute \/ GetDriverVersion \/ GetVersion
    BY <1>4, ReadType
<1>5. CASE FinalizeGdr
    BY <1>5, DoCloseType DEF FinalizeGdr
<1>6. ASSUME NEW h \in Handles,
             \/ Unpin(h) \/ GetInfo(h) \/ Map(h) \/ Unmap(h)
             \/ CopyToMapping(h) \/ CopyFromMapping(h)
             \/ GetCallbackFlag(h) \/ FinalizeHandle(h)
      PROVE  TypeOK'
    BY <1>6, UnpinType, GetInfoType, MapType, UnmapType, CopyType,
       CallbackFlagType, FinalizeHandleType DEF CopyToMapping, CopyFromMapping
<1>7. CASE UNCHANGED vars
    BY <1>7 DEF vars, TypeOK
<1>8. QED
    BY <1>0, <1>1, <1>2, <1>3, <1>4, <1>5, <1>6, <1>7 DEF Next

\* The initial state, before any GDRCopy object exists, is well typed.
LEMMA InitType == Init => TypeOK
<1> SUFFICES ASSUME Init PROVE TypeOK
    OBVIOUS
<1>1. gdrAlive \in BOOLEAN
    BY Zenon DEF Init
<1>2. QED
    BY <1>1 DEF Init, TypeOK, ApiOps, Outcomes

(* Type correctness of the bindings and of the driver state they drive.   *)
THEOREM TypeCorrect == Spec => []TypeOK
BY InitType, TypeStep, PTL DEF Spec
-----------------------------------------------------------------------------
\* what the driver holds
Held == pinned \cup drvMapped

(* GDRHandle.__del__ and GDRCopy.__del__ only release: the driver holds    *)
(* no more after them than before.                                         *)
LEMMA FinalizersShrink ==
    ASSUME TypeOK, FinalizeGdr \/ \E h \in Handles : FinalizeHandle(h)
    PROVE  Held' \subseteq Held
<1>1. CASE FinalizeGdr
    BY <1>1 DEF FinalizeGdr, DoClose, ReleaseCtx, Held
<1>2. ASSUME NEW h \in Handles, FinalizeHandle(h)
      PROVE  Held' \subseteq Held
    <2>2. pinned' \subseteq pinned
        <3>1. CASE ~mh[h]
            BY <1>2, <3>1 DEF FinalizeHandle
        <3>2. CASE mh[h]
            <4>1. \/ \E ok \in BOOLEAN : UnpinCall(h, ok)
                  \/ UNCHANGED pinned
                BY <1>2, <3>2 DEF FinalizeHandle
            <4>2. ASSUME NEW ok \in BOOLEAN, UnpinCall(h, ok)
                  PROVE  pinned' \subseteq pinned
                <5>1. pinned' \in Released(pinned, h, ValidToken(gdr, h), ok)
                    BY <4>2 DEF UnpinCall
                <5>2. ValidToken(gdr, h) \in BOOLEAN
                    BY DEF ValidToken, CtxOpen
                <5>3. QED
                    BY <5>1, <5>2, ReleasedSubset
            <4>3. QED
                BY <4>1, <4>2
        <3>3. QED
            BY <3>1, <3>2
    <2>3. drvMapped' \subseteq drvMapped
        <3>1. CASE ~(mapped[h] /\ mh[h])
            BY <1>2, <3>1 DEF FinalizeHandle
        <3>2. CASE mapped[h] /\ mh[h]
            <4>1. \E ok \in BOOLEAN : UnmapCall(h, ok)
                BY <1>2, <3>2 DEF FinalizeHandle
            <4>2. ASSUME NEW ok \in BOOLEAN, UnmapCall(h, ok)
                  PROVE  drvMapped' \subseteq drvMapped
                <5>1. drvMapped' \in Released(drvMapped, h, ValidMapping(gdr, h), ok)
                    BY <4>2 DEF UnmapCall
                <5>2. ValidMapping(gdr, h) \in BOOLEAN
                    BY DEF ValidMapping, CtxOpen
                <5>3. QED
                    BY <5>1, <5>2, ReleasedSubset
            <4>3. QED
                BY <4>1, <4>2
        <3>3. QED
            BY <3>1, <3>2
    <2>4. QED
        BY <2>2, <2>3 DEF Held
<1>3. QED
    BY <1>1, <1>2

(* pin_buffer and pin_buffer_v2 either raise with the driver unchanged,  *)
(* or pin a fresh handle in the context gdr has and return it.            *)
LEMMA PinOutcome ==
    ASSUME NEW op, Pin(op)
    PROVE  \/ /\ api'.out \in {"RuntimeError", "GDRError"}
              /\ UNCHANGED <<pinned, pinCtx, drvMapped, gdr>>
           \/ \E h \in Handles :
                /\ gdr # NULL
                /\ pinned' = pinned \cup {h}
                /\ pinCtx' = [pinCtx EXCEPT ![h] = gdr]
                /\ api' = Api(op, h, "ok")
                /\ drvMapped' = drvMapped /\ gdr' = gdr
<1>1. CASE gdr = NULL
    BY <1>1 DEF Pin, Raise
<1>2. CASE gdr # NULL /\ api' = Api(op, NULL, "GDRError")
    BY <1>2 DEF Pin
<1>3. CASE gdr # NULL /\ api' # Api(op, NULL, "GDRError")
    <2>1. PICK h \in Handles :
              /\ pinned' = pinned \cup {h}
              /\ pinCtx' = [pinCtx EXCEPT ![h] = gdr]
              /\ api' = Api(op, h, "ok")
        BY <1>3 DEF Pin
    <2>2. drvMapped' = drvMapped /\ gdr' = gdr
        BY <1>3 DEF Pin, gdrVars
    <2>3. QED
        BY <1>3, <2>1, <2>2
<1>4. QED
    BY <1>1, <1>2, <1>3

-----------------------------------------------------------------------------
(* The safety part of IInv.                                               *)
SafeCore == NoneFresh /\ TokenValid /\ MappingRecordSound
Safe == OwnerAlive /\ SafeCore

(* No step makes a handle live without its GDRCopy object, or ends that   *)
(* object while a handle is live: pin needs the object, GDRCopy.__del__   *)
(* waits for every handle, and handle methods only ever kill a handle.    *)
LEMMA OwnerAliveStep ==
    ASSUME TypeOK, OwnerAlive, [Next]_vars
    PROVE  OwnerAlive'
<1> USE DEF OwnerAlive
<1>1. CASE NewGdrCopy
    BY <1>1 DEF NewGdrCopy
<1>2. CASE FinalizeGdr
    BY <1>2 DEF FinalizeGdr, DoClose
<1>3. CASE PinBuffer \/ PinBufferV2
    BY <1>3 DEF PinBuffer, PinBufferV2, Pin, Raise
<1>4. CASE Open \/ Close \/ GetAttribute \/ GetDriverVersion \/ GetVersion
    BY <1>4 DEF Open, Close, DoClose, GetAttribute, GetDriverVersion, GetVersion, Raise
<1>5. ASSUME NEW h \in Handles,
             \/ Unpin(h) \/ GetInfo(h) \/ Map(h) \/ Unmap(h)
             \/ CopyToMapping(h) \/ CopyFromMapping(h)
             \/ GetCallbackFlag(h) \/ FinalizeHandle(h)
      PROVE  OwnerAlive'
    <2>1. gdrAlive' = gdrAlive
        BY <1>5 DEF Unpin, GetInfo, Map, Unmap, CopyToMapping, CopyFromMapping,
                    Copy, GetCallbackFlag, FinalizeHandle, Raise
    <2>2. \A g \in Handles : hState'[g] = "live" => hState[g] = "live"
        BY <1>5 DEF Unpin, GetInfo, Map, Unmap, CopyToMapping, CopyFromMapping,
                    Copy, GetCallbackFlag, FinalizeHandle, Raise, TypeOK
    <2>3. QED
        BY <2>1, <2>2
<1>6. CASE UNCHANGED vars
    BY <1>6 DEF vars
<1>7. QED
    BY <1>1, <1>2, <1>3, <1>4, <1>5, <1>6 DEF Next

(* Under the caller discipline (close only after the context's handles    *)
(* have given up their tokens) every action preserves Safe.               *)
LEMMA SafeStep ==
    ASSUME ~CloseWithLivePins, TypeOK, TypeOK', Safe, [Next]_vars
    PROVE  Safe'
<1>a. OwnerAlive'
    BY OwnerAliveStep DEF Safe
<1> SUFFICES SafeCore'
    BY <1>a DEF Safe
<1> USE DEF Safe, SafeCore, NoneFresh, TokenValid, MappingRecordSound
<1>0. CASE NewGdrCopy
    <2>1. \A h \in Handles : ~LiveHandle(h)
        BY <1>0 DEF NewGdrCopy, OwnerAlive
    <2>2. UNCHANGED hVars /\ gdrAlive'
        BY <1>0 DEF NewGdrCopy
    <2>3. QED
        BY <2>1, <2>2
<1>1. CASE Open
    <2>1. CASE gdr # NULL
        BY <1>1, <2>1 DEF Open, Raise
    <2>2. CASE gdr = NULL
        <3>1. \A h \in Handles : ~(LiveHandle(h) /\ mh[h])
            BY <2>2 DEF TypeOK
        <3>2. UNCHANGED <<pinned, pinCtx, drvMapped, hVars>>
            BY <1>1, <2>2 DEF Open
        <3>3. QED
            BY <3>1, <3>2
    <2>3. QED
        BY <2>1, <2>2
<1>2. CASE Close
    <2>1. \A h \in Handles : ~(LiveHandle(h) /\ mh[h])
        BY <1>2 DEF Close, CloseAllowed
    <2>2. UNCHANGED <<hVars, gdrAlive>>
        BY <1>2 DEF Close, DoClose
    <2>3. QED
        BY <2>1, <2>2
<1>12. CASE FinalizeGdr
    <2>1. \A h \in Handles : ~LiveHandle(h)
        BY <1>12 DEF FinalizeGdr
    <2>2. UNCHANGED hVars
        BY <1>12 DEF FinalizeGdr, DoClose
    <2>3. QED
        BY <2>1, <2>2
<1>3. CASE PinBuffer \/ PinBufferV2
    <2>1. PICK op \in {"pin_buffer", "pin_buffer_v2"} : Pin(op)
        BY <1>3 DEF PinBuffer, PinBufferV2
    <2>2. CASE gdr = NULL
        BY <2>1, <2>2 DEF Pin, Raise
    <2>3. CASE gdr # NULL
        <3>1. UNCHANGED <<ctxState, drvMapped, gdr>>
            BY <2>1, <2>3 DEF Pin
        <3>2. CASE UNCHANGED <<pinned, pinCtx, hVars>>
            BY <3>1, <3>2
        <3>3. ASSUME NEW h \in Handles,
                     /\ hState[h] = "none"
                     /\ CtxOpen(gdr)
                     /\ pinned' = pinned \cup {h}
                     /\ pinCtx' = [pinCtx EXCEPT ![h] = gdr]
                     /\ hState' = [hState EXCEPT ![h] = "live"]
                     /\ mh' = [mh EXCEPT ![h] = TRUE]
                     /\ UNCHANGED <<mapped, info>>
              PROVE  SafeCore'
            BY <3>1, <3>3 DEF TypeOK
        <3>4. QED
            BY <2>1, <2>3, <3>2, <3>3 DEF Pin
    <2>4. QED
        BY <2>2, <2>3
<1>4. CASE GetAttribute \/ GetDriverVersion \/ GetVersion
    BY <1>4 DEF GetAttribute, GetDriverVersion, GetVersion, Raise
<1>5. ASSUME NEW h \in Handles, Unpin(h) PROVE SafeCore'
    <2>1. CASE ~mh[h]
        BY <1>5, <2>1 DEF Unpin, Raise
    <2>2. CASE mh[h]
        <3>1. PICK ok \in BOOLEAN :
                 /\ UnpinCall(h, ok)
                 /\ UNCHANGED <<ctxState, pinCtx, drvMapped, gdr, hState, mapped>>
            BY <1>5, <2>2 DEF Unpin
        <3>2. pinned \ {h} \subseteq pinned'
            BY <3>1, ReleasedSubset DEF UnpinCall, TypeOK
        <3>3. QED
            BY <3>1, <3>2 DEF UnpinCall, TypeOK
    <2>3. QED
        BY <2>1, <2>2
<1>6. ASSUME NEW h \in Handles,
             GetInfo(h) \/ CopyToMapping(h) \/ CopyFromMapping(h) \/ GetCallbackFlag(h)
      PROVE  SafeCore'
    <2>1. UNCHANGED <<drvVars, gdr, hState, mh, mapped>>
        BY <1>6 DEF GetInfo, CopyToMapping, CopyFromMapping, Copy, GetCallbackFlag, Raise
    <2>2. QED
        BY <2>1
<1>7. ASSUME NEW h \in Handles, Map(h) PROVE SafeCore'
    <2>1. CASE mapped[h] \/ ~mh[h]
        BY <1>7, <2>1 DEF Map, Raise
    <2>2. CASE ~mapped[h] /\ mh[h]
        <3>1. /\ LiveHandle(h)
              /\ MapCall(h)
              /\ UNCHANGED <<ctxState, pinned, pinCtx, gdr, hState, mh>>
            BY <1>7, <2>2 DEF Map
        <3>2. CASE /\ drvMapped' = drvMapped \cup {h}
                   /\ mapped' = [mapped EXCEPT ![h] = TRUE]
            BY <3>1, <3>2 DEF TypeOK
        <3>3. CASE UNCHANGED <<drvMapped, mapped>>
            BY <3>1, <3>3
        <3>4. QED
            BY <3>1, <3>2, <3>3 DEF MapCall
    <2>3. QED
        BY <2>1, <2>2
<1>8. ASSUME NEW h \in Handles, Unmap(h) PROVE SafeCore'
    <2>1. CASE ~mapped[h] \/ ~mh[h]
        BY <1>8, <2>1 DEF Unmap, Raise
    <2>2. CASE mapped[h] /\ mh[h]
        <3>1. PICK ok \in BOOLEAN :
                 /\ UnmapCall(h, ok)
                 /\ UNCHANGED <<ctxState, pinned, pinCtx, gdr, hState, mh>>
            BY <1>8, <2>2 DEF Unmap
        <3>2. drvMapped \ {h} \subseteq drvMapped'
            BY <3>1, ReleasedSubset DEF UnmapCall, TypeOK
        <3>3. QED
            BY <3>1, <3>2 DEF UnmapCall, TypeOK
    <2>3. QED
        BY <2>1, <2>2
<1>9. ASSUME NEW h \in Handles, FinalizeHandle(h) PROVE SafeCore'
    <2>1. hState' = [hState EXCEPT ![h] = "dead"] /\ UNCHANGED <<ctxState, pinCtx, gdr>>
        BY <1>9 DEF FinalizeHandle
    <2>2. /\ pinned \ {h} \subseteq pinned'
          /\ drvMapped \ {h} \subseteq drvMapped'
        <3>1. CASE ~mh[h]
            BY <1>9, <3>1 DEF FinalizeHandle
        <3>2. CASE ~mapped[h] /\ mh[h]
            <4>1. PICK ok \in BOOLEAN : UnpinCall(h, ok) /\ UNCHANGED drvMapped
                BY <1>9, <3>2 DEF FinalizeHandle
            <4>2. QED
                BY <4>1, ReleasedSubset DEF UnpinCall, TypeOK
        <3>3. CASE mapped[h] /\ mh[h]
            <4>1. PICK okU \in BOOLEAN :
                     /\ UnmapCall(h, okU)
                     /\ \/ \E okP \in BOOLEAN : UnpinCall(h, okP)
                        \/ UNCHANGED pinned
                BY <1>9, <3>3 DEF FinalizeHandle
            <4>2. drvMapped \ {h} \subseteq drvMapped'
                BY <4>1, ReleasedSubset DEF UnmapCall, TypeOK
            <4>3. pinned \ {h} \subseteq pinned'
                BY <4>1, ReleasedSubset DEF UnpinCall, TypeOK
            <4>4. QED
                BY <4>2, <4>3
        <3>4. QED
            BY <3>1, <3>2, <3>3
    <2>3. \A g \in Handles \ {h} : mh'[g] = mh[g] /\ mapped'[g] = mapped[g]
        <3>1. CASE ~mh[h]
            BY <1>9, <3>1 DEF FinalizeHandle
        <3>2. CASE ~mapped[h] /\ mh[h]
            <4>1. PICK ok \in BOOLEAN : UnpinCall(h, ok) /\ UNCHANGED mapped
                BY <1>9, <3>2 DEF FinalizeHandle
            <4>2. QED
                BY <4>1 DEF UnpinCall, TypeOK
        <3>3. CASE mapped[h] /\ mh[h]
            <4>1. PICK okU \in BOOLEAN :
                     /\ UnmapCall(h, okU)
                     /\ \/ \E okP \in BOOLEAN : UnpinCall(h, okP)
                        \/ UNCHANGED mh
                BY <1>9, <3>3 DEF FinalizeHandle
            <4>2. QED
                BY <4>1 DEF UnmapCall, UnpinCall, TypeOK
        <3>4. QED
            BY <3>1, <3>2, <3>3
    <2>4. QED
        BY <2>1, <2>2, <2>3 DEF TypeOK
<1>10. CASE UNCHANGED vars
    BY <1>10 DEF vars
<1>11. QED
    BY <1>0, <1>1, <1>2, <1>12, <1>3, <1>4, <1>5, <1>6, <1>7, <1>8, <1>9, <1>10 DEF Next

\* IInv is inductive under the caller discipline.
LEMMA IInvStep ==
    ASSUME ~CloseWithLivePins
    PROVE  IInv /\ [Next]_vars => IInv'
BY TypeStep, SafeStep DEF IInv, Safe, SafeCore

(* The core safety invariant: under the caller discipline, every token a  *)
(* live handle holds is pinned in the driver in its GDRCopy's open        *)
(* context, and every mapping record of such a handle has a live driver   *)
(* mapping behind it.                                                     *)
THEOREM SafetyInvariant ==
    ASSUME ~CloseWithLivePins
    PROVE  Spec => []IInv
<1>1. Init => IInv
    <2> SUFFICES ASSUME Init PROVE IInv
        OBVIOUS
    <2>1. TypeOK
        BY InitType
    <2>2. NoneFresh /\ OwnerAlive /\ TokenValid /\ MappingRecordSound
        BY DEF Init, NoneFresh, OwnerAlive, TokenValid, MappingRecordSound
    <2>3. QED
        BY <2>1, <2>2 DEF IInv
<1>2. QED
    BY <1>1, IInvStep, PTL DEF Spec

-----------------------------------------------------------------------------
\* the driver calls that release a resource or go through a mapping
HandleOps == {"unpin", "unmap", "copy_to", "copy_from"}

(* Where the release and copy calls of a step come from: unpin only from  *)
(* a live handle holding its token, unmap and the copies only from one    *)
(* that also holds a mapping record.                                      *)
FromHandles ==
    \A c \in calls' :
       c.op \in HandleOps =>
          /\ c.h \in Handles /\ LiveHandle(c.h) /\ mh[c.h]
          /\ c.op # "unpin" => mapped[c.h]

\* Every release or copy call of a step comes from a handle in the state FromHandles names.
LEMMA HandleCalls ==
    ASSUME TypeOK, Next
    PROVE  FromHandles
<1> USE DEF FromHandles, HandleOps
<1>1. CASE NewGdrCopy \/ Open \/ Close \/ FinalizeGdr \/ PinBuffer \/ PinBufferV2
    <2>1. calls' \subseteq {Call("open", NULL, NULL), Call("close", gdr, NULL),
                            Call("pin", gdr, NULL)}
        BY <1>1 DEF NewGdrCopy, Open, Close, FinalizeGdr, DoClose, PinBuffer, PinBufferV2,
                    Pin, Raise
    <2>2. QED
        BY <2>1
<1>2. CASE GetAttribute \/ GetDriverVersion \/ GetVersion
    <2>1. calls' \subseteq {Call("attr", gdr, NULL), Call("drv_version", gdr, NULL)}
        BY <1>2 DEF GetAttribute, GetDriverVersion, GetVersion, Raise
    <2>2. QED
        BY <2>1
<1>3. ASSUME NEW h \in Handles, Unpin(h) PROVE FromHandles
    <2>1. calls' \subseteq {Call("unpin", gdr, h)} /\ (calls' # {} => mh[h] /\ LiveHandle(h))
        <3>1. CASE ~mh[h]
            BY <1>3, <3>1 DEF Unpin, Raise
        <3>2. CASE mh[h]
            BY <1>3, <3>2 DEF Unpin
        <3>3. QED
            BY <3>1, <3>2
    <2>2. QED
        <3> SUFFICES ASSUME NEW c \in calls', c.op \in HandleOps
                     PROVE  /\ c.h \in Handles /\ LiveHandle(c.h) /\ mh[c.h]
                            /\ c.op # "unpin" => mapped[c.h]
            OBVIOUS
        <3>1. c = Call("unpin", gdr, h) /\ mh[h] /\ LiveHandle(h)
            BY <2>1
        <3>2. QED
            BY <3>1
<1>4. ASSUME NEW h \in Handles, GetInfo(h) \/ Map(h) \/ GetCallbackFlag(h)
      PROVE  FromHandles
    <2>1. calls' \subseteq {Call("get_info", gdr, h), Call("map", gdr, h),
                            Call("cb_flag", gdr, h)}
        BY <1>4 DEF GetInfo, Map, GetCallbackFlag, Raise
    <2>2. QED
        BY <2>1
<1>5. ASSUME NEW h \in Handles, Unmap(h) PROVE FromHandles
    <2>1. calls' \subseteq {Call("unmap", gdr, h)}
          /\ (calls' # {} => mh[h] /\ mapped[h] /\ LiveHandle(h))
        <3>1. CASE ~(mapped[h] /\ mh[h])
            BY <1>5, <3>1 DEF Unmap, Raise
        <3>2. CASE mapped[h] /\ mh[h]
            BY <1>5, <3>2 DEF Unmap
        <3>3. QED
            BY <3>1, <3>2
    <2>2. QED
        <3> SUFFICES ASSUME NEW c \in calls', c.op \in HandleOps
                     PROVE  /\ c.h \in Handles /\ LiveHandle(c.h) /\ mh[c.h]
                            /\ c.op # "unpin" => mapped[c.h]
            OBVIOUS
        <3>1. c = Call("unmap", gdr, h) /\ mh[h] /\ mapped[h] /\ LiveHandle(h)
            BY <2>1
        <3>2. QED
            BY <3>1
<1>6. ASSUME NEW h \in Handles, CopyToMapping(h) \/ CopyFromMapping(h)
      PROVE  FromHandles
    <2>1. calls' \subseteq {Call("copy_to", NULL, h), Call("copy_from", NULL, h)}
          /\ (calls' # {} => mh[h] /\ mapped[h] /\ LiveHandle(h))
        BY <1>6 DEF CopyToMapping, CopyFromMapping, Copy, Raise
    <2>2. QED
        BY <2>1
<1>7. ASSUME NEW h \in Handles, FinalizeHandle(h) PROVE FromHandles
    <2>1. calls' \subseteq {Call("unmap", gdr, h), Call("unpin", gdr, h)}
          /\ (calls' # {} => mh[h] /\ LiveHandle(h))
          /\ (Call("unmap", gdr, h) \in calls' => mapped[h])
        BY <1>7 DEF FinalizeHandle
    <2>2. QED
        BY <2>1
<1>8. QED
    BY <1>1, <1>2, <1>3, <1>4, <1>5, <1>6, <1>7 DEF Next

(* No double release: the driver is asked to unpin only tokens it still  *)
(* holds and to unmap only live mappings, through explicit calls and      *)
(* __del__ alike, whatever errors the driver returned before.             *)
THEOREM NoDoubleRelease ==
    ASSUME ~CloseWithLivePins
    PROVE  Spec => ReleaseOnlyHeld
<1>1. IInv /\ [Next]_vars => [\A c \in calls' :
                                  /\ c.op = "unpin" => c.h \in pinned
                                  /\ c.op = "unmap" => c.h \in drvMapped]_vars
    <2> SUFFICES ASSUME IInv, [Next]_vars PROVE [\A c \in calls' :
                                      /\ c.op = "unpin" => c.h \in pinned
                                      /\ c.op = "unmap" => c.h \in drvMapped]_vars
        OBVIOUS
    <2>1. CASE Next
        <3>1. FromHandles
            BY <2>1, HandleCalls DEF IInv
        <3>2. QED
            BY <3>1 DEF IInv, FromHandles, HandleOps, TokenValid, MappingRecordSound
    <2>2. CASE UNCHANGED vars
        BY <2>2 DEF vars
    <2>3. QED
        BY <2>1, <2>2
<1>2. Spec => []IInv
    BY SafetyInvariant
<1>3. QED
    BY <1>1, <1>2, PTL DEF ReleaseOnlyHeld, Spec

(* Copies reach the driver only through a live mapping of a pinned token. *)
THEOREM CopySafety ==
    ASSUME ~CloseWithLivePins
    PROVE  Spec => CopyThroughLiveMapping
<1>1. IInv /\ [Next]_vars =>
         [\A c \in calls' :
             c.op \in {"copy_to", "copy_from"} => c.h \in pinned \cap drvMapped]_vars
    <2> SUFFICES ASSUME IInv, [Next]_vars PROVE [\A c \in calls' :
                 c.op \in {"copy_to", "copy_from"} => c.h \in pinned \cap drvMapped]_vars
        OBVIOUS
    <2>1. CASE Next
        <3>1. FromHandles
            BY <2>1, HandleCalls DEF IInv
        <3>2. QED
            BY <3>1 DEF IInv, FromHandles, HandleOps, TokenValid, MappingRecordSound
    <2>2. CASE UNCHANGED vars
        BY <2>2 DEF vars
    <2>3. QED
        BY <2>1, <2>2
<1>2. Spec => []IInv
    BY SafetyInvariant
<1>3. QED
    BY <1>1, <1>2, PTL DEF CopyThroughLiveMapping, Spec
=============================================================================
