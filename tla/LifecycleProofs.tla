--------------------------- MODULE LifecycleProofs ---------------------------
(***************************************************************************)
(* GdrCopy implements HandleLifecycle under the mapping Lifecycle: every  *)
(* step of the bindings is a step of the Buffer Handle state machine of   *)
(* specification section 4.2 or leaves every handle's state alone.  The    *)
(* proof needs no caller discipline: it holds whether or not the caller    *)
(* closes with live pins, and whatever the driver returns.                 *)
(***************************************************************************)
EXTENDS GdrCopy, TLAPS

USE ConstantsAssumption DEF Api, LiveHandle, drvVars, gdrVars, hVars

\* the types of the GDRHandle fields the mapping reads
HTypeOK ==
    /\ hState \in [Handles -> {"none", "live", "dead"}]
    /\ mh \in [Handles -> BOOLEAN]
    /\ mapped \in [Handles -> BOOLEAN]

\* the abstract state of every handle
LC == [h \in Handles |-> Lifecycle(h)]

(* A step that leaves every handle's abstract state alone is an HL step,  *)
(* unless it is a fail-safe operation on a handle it should have moved.   *)
LEMMA OtherStep ==
    ASSUME \A g \in Handles : Lifecycle(g)' = Lifecycle(g),
           \/ api'.op \notin {"unmap", "unpin", "del_handle"}
           \/ Lifecycle(api'.h) = "unpinned"
           \/ api'.op = "unmap" /\ Lifecycle(api'.h) = "pinned"
    PROVE  [HL!Next]_<<LC, api>>
<1>1. \A g \in Handles : ~HL!Undoes(g)
    BY DEF LC, HL!Undoes, HL!Performed
<1>2. QED
    BY <1>1 DEF LC, HL!Next, HL!Other

\* A step that changes the abstract state of h alone updates LC at h.
LEMMA Edge ==
    ASSUME NEW h \in Handles, NEW s,
           \A g \in Handles \ {h} : Lifecycle(g)' = Lifecycle(g),
           Lifecycle(h)' = s
    PROVE  LC' = [LC EXCEPT ![h] = s]
BY DEF LC

(* A method other than unmap, unpin and __del__ that changes no handle    *)
(* field is an HL stutter of the handles.                                 *)
LEMMA FieldsUnchanged ==
    ASSUME UNCHANGED <<hState, mh, mapped>>,
           api'.op \notin {"unmap", "unpin", "del_handle"}
    PROVE  [HL!Next]_<<LC, api>>
BY OtherStep DEF Lifecycle

(* A pin creates only the handle it picks; every other step touches only   *)
(* live handles, so objects not yet created stay without token or record.  *)
LEMMA NoneFreshStep ==
    ASSUME HTypeOK, NoneFresh, [Next]_vars
    PROVE  HTypeOK' /\ NoneFresh'
<1> USE DEF NoneFresh, HTypeOK
<1>1. CASE PinBuffer \/ PinBufferV2
    BY <1>1 DEF PinBuffer, PinBufferV2, Pin, Raise, HTypeOK
<1>2. CASE NewGdrCopy \/ Open \/ Close \/ GetAttribute \/ GetDriverVersion
           \/ GetVersion \/ FinalizeGdr
    BY <1>2 DEF NewGdrCopy, Open, Close, DoClose, GetAttribute, GetDriverVersion,
                GetVersion, FinalizeGdr, Raise
<1>3. ASSUME NEW h \in Handles,
             \/ Unpin(h) \/ GetInfo(h) \/ Map(h) \/ Unmap(h)
             \/ CopyToMapping(h) \/ CopyFromMapping(h)
             \/ GetCallbackFlag(h) \/ FinalizeHandle(h)
      PROVE  HTypeOK' /\ NoneFresh'
    <2>1. /\ hState' = [hState EXCEPT ![h] = hState'[h]]
          /\ mh' = [mh EXCEPT ![h] = mh'[h]]
          /\ mapped' = [mapped EXCEPT ![h] = mapped'[h]]
          /\ hState'[h] \in {"live", "dead"}
          /\ mh'[h] \in BOOLEAN /\ mapped'[h] \in BOOLEAN
        BY <1>3 DEF Unpin, UnpinCall, GetInfo, Map, MapCall, Unmap, UnmapCall,
                    CopyToMapping, CopyFromMapping, Copy, GetCallbackFlag,
                    FinalizeHandle, Raise, HTypeOK
    <2>2. QED
        BY <2>1 DEF HTypeOK
<1>4. CASE UNCHANGED vars
    BY <1>4 DEF vars
<1>5. QED
    BY <1>1, <1>2, <1>3, <1>4 DEF Next

(* NoneFresh holds in every behaviour, with or without the discipline.    *)
LEMMA NoneFreshInvariant == Spec => [](HTypeOK /\ NoneFresh)
<1>1. Init => HTypeOK /\ NoneFresh
    BY DEF Init, HTypeOK, NoneFresh
<1>2. HTypeOK /\ NoneFresh /\ [Next]_vars => (HTypeOK /\ NoneFresh)'
    BY NoneFreshStep
<1>3. QED
    BY <1>1, <1>2, PTL DEF Spec


(* Every step of the bindings is a step of HandleLifecycle: pin creates   *)
(* the handle it picks, map and unmap toggle a held token's record, unpin  *)
(* and __del__ end a handle that held its token; every raise, failure and  *)
(* other method leaves every handle's abstract state alone.                *)
LEMMA LifecycleStep ==
    ASSUME HTypeOK, NoneFresh, [Next]_vars
    PROVE  [HL!Next]_<<LC, api>>
<1>1. CASE UNCHANGED vars
    BY <1>1 DEF vars, LC, Lifecycle
<1>2. CASE NewGdrCopy \/ Open \/ Close \/ GetAttribute \/ GetDriverVersion
           \/ GetVersion \/ FinalizeGdr
    <2>1. /\ UNCHANGED <<hState, mh, mapped>>
          /\ api'.op \notin {"unmap", "unpin", "del_handle"}
        BY <1>2 DEF NewGdrCopy, Open, Close, DoClose, GetAttribute,
                    GetDriverVersion, GetVersion, FinalizeGdr, Raise
    <2>2. QED
        BY <2>1, FieldsUnchanged
<1>3. CASE PinBuffer \/ PinBufferV2
    <2>1. PICK op \in {"pin_buffer", "pin_buffer_v2"} : Pin(op)
        BY <1>3 DEF PinBuffer, PinBufferV2
    <2>2. CASE UNCHANGED <<hState, mh, mapped>>
        <3>1. api'.op \in {"pin_buffer", "pin_buffer_v2"}
            <4>1. CASE gdr = NULL
                BY <2>1, <4>1 DEF Pin, Raise
            <4>2. CASE gdr # NULL
                <5>1. \/ \E h \in Handles : api' = Api(op, h, "ok")
                      \/ api' = Api(op, NULL, "GDRError")
                    BY <2>1, <4>2 DEF Pin
                <5>2. QED
                    BY <2>1, <5>1
            <4>3. QED
                BY <4>1, <4>2
        <3>2. QED
            BY <2>2, <3>1, FieldsUnchanged
    <2>3. CASE ~UNCHANGED <<hState, mh, mapped>>
        <3>1. PICK h \in Handles :
                 /\ hState[h] = "none"
                 /\ hState' = [hState EXCEPT ![h] = "live"]
                 /\ mh' = [mh EXCEPT ![h] = TRUE]
                 /\ mapped' = mapped
                 /\ api' = Api(op, h, "ok")
            BY <2>1, <2>3 DEF Pin, Raise
        <3>2. \A g \in Handles \ {h} : Lifecycle(g)' = Lifecycle(g)
            BY <3>1 DEF HTypeOK, Lifecycle
        <3>3. Lifecycle(h)' = "pinned"
            BY <3>1 DEF HTypeOK, NoneFresh, Lifecycle
        <3>4. LC' = [LC EXCEPT ![h] = "pinned"]
            BY <3>2, <3>3, Edge
        <3>5. HL!Pin(h)
            BY <2>1, <3>1, <3>4 DEF HL!Pin, HL!Performed, HL!Become, LC, Lifecycle
        <3>6. QED
            BY <3>5 DEF HL!Next
    <2>4. QED
        BY <2>2, <2>3
<1>4. ASSUME NEW h \in Handles, Unpin(h)
      PROVE  [HL!Next]_<<LC, api>>
    <2>1. CASE ~mh[h]
        <3>1. /\ UNCHANGED <<hState, mh, mapped>>
              /\ api' = Api("unpin", h, "ok") /\ LiveHandle(h)
            BY <1>4, <2>1 DEF Unpin, Raise
        <3>2. Lifecycle(h) = "unpinned"
            BY <2>1, <3>1 DEF Lifecycle
        <3>3. QED
            BY <3>1, <3>2, OtherStep DEF Lifecycle
    <2>2. CASE mh[h]
        <3>1. /\ LiveHandle(h)
              /\ mh' = [mh EXCEPT ![h] = FALSE]
              /\ UNCHANGED <<hState, mapped>>
              /\ api'.op = "unpin" /\ api'.h = h
            BY <1>4, <2>2 DEF Unpin, UnpinCall, Raise
        <3>2. \A g \in Handles \ {h} : Lifecycle(g)' = Lifecycle(g)
            BY <3>1 DEF HTypeOK, Lifecycle
        <3>3. Lifecycle(h)' = "unpinned" /\ Lifecycle(h) \in {"pinned", "mapped"}
            BY <2>2, <3>1 DEF HTypeOK, Lifecycle
        <3>4. LC' = [LC EXCEPT ![h] = "unpinned"]
            BY <3>2, <3>3, Edge
        <3>5. HL!Unpin(h)
            BY <3>1, <3>3, <3>4 DEF HL!Unpin, HL!Performed, HL!Become, LC
        <3>6. QED
            BY <3>5 DEF HL!Next
    <2>3. QED
        BY <2>1, <2>2
<1>5. ASSUME NEW h \in Handles, Map(h)
      PROVE  [HL!Next]_<<LC, api>>
    <2>1. CASE UNCHANGED <<hState, mh, mapped>>
        <3>1. api'.op = "map"
            BY <1>5 DEF Map, MapCall, Raise
        <3>2. QED
            BY <2>1, <3>1, FieldsUnchanged
    <2>2. CASE ~UNCHANGED <<hState, mh, mapped>>
        <3>1. /\ LiveHandle(h) /\ mh[h] /\ ~mapped[h]
              /\ mapped' = [mapped EXCEPT ![h] = TRUE]
              /\ UNCHANGED <<hState, mh>>
              /\ api' = Api("map", h, "ok")
            BY <1>5, <2>2 DEF Map, MapCall, Raise
        <3>2. \A g \in Handles \ {h} : Lifecycle(g)' = Lifecycle(g)
            BY <3>1 DEF HTypeOK, Lifecycle
        <3>3. Lifecycle(h)' = "mapped" /\ Lifecycle(h) = "pinned"
            BY <3>1 DEF HTypeOK, Lifecycle
        <3>4. LC' = [LC EXCEPT ![h] = "mapped"]
            BY <3>2, <3>3, Edge
        <3>5. HL!Map(h)
            BY <3>1, <3>3, <3>4 DEF HL!Map, HL!Performed, HL!Become, LC
        <3>6. QED
            BY <3>5 DEF HL!Next
    <2>3. QED
        BY <2>1, <2>2
<1>6. ASSUME NEW h \in Handles, Unmap(h)
      PROVE  [HL!Next]_<<LC, api>>
    <2>1. CASE ~(mapped[h] /\ mh[h])
        <3>1. /\ UNCHANGED <<hState, mh, mapped>>
              /\ api'.op = "unmap" /\ api'.h = h /\ LiveHandle(h)
            BY <1>6, <2>1 DEF Unmap, Raise
        <3>2. Lifecycle(h) \in {"pinned", "unpinned"}
            BY <2>1, <3>1 DEF Lifecycle
        <3>3. QED
            BY <3>1, <3>2, OtherStep DEF Lifecycle
    <2>2. CASE mapped[h] /\ mh[h]
        <3>1. /\ LiveHandle(h)
              /\ mapped' = [mapped EXCEPT ![h] = FALSE]
              /\ UNCHANGED <<hState, mh>>
              /\ api'.op = "unmap" /\ api'.h = h
            BY <1>6, <2>2 DEF Unmap, UnmapCall, Raise
        <3>2. \A g \in Handles \ {h} : Lifecycle(g)' = Lifecycle(g)
            BY <3>1 DEF HTypeOK, Lifecycle
        <3>3. Lifecycle(h)' = "pinned" /\ Lifecycle(h) = "mapped"
            BY <2>2, <3>1 DEF HTypeOK, Lifecycle
        <3>4. LC' = [LC EXCEPT ![h] = "pinned"]
            BY <3>2, <3>3, Edge
        <3>5. HL!Unmap(h)
            BY <3>1, <3>3, <3>4 DEF HL!Unmap, HL!Performed, HL!Become, LC
        <3>6. QED
            BY <3>5 DEF HL!Next
    <2>3. QED
        BY <2>1, <2>2
<1>7. ASSUME NEW h \in Handles, FinalizeHandle(h)
      PROVE  [HL!Next]_<<LC, api>>
    <2>1. /\ LiveHandle(h)
          /\ hState' = [hState EXCEPT ![h] = "dead"]
          /\ api' = Api("del_handle", h, "ok")
          /\ mh' = [mh EXCEPT ![h] = mh'[h]]
          /\ mapped' = [mapped EXCEPT ![h] = mapped'[h]]
        BY <1>7 DEF FinalizeHandle, UnpinCall, UnmapCall, HTypeOK
    <2>2. \A g \in Handles \ {h} : Lifecycle(g)' = Lifecycle(g)
        BY <2>1 DEF HTypeOK, Lifecycle
    <2>3. Lifecycle(h)' = "unpinned"
        BY <2>1 DEF HTypeOK, Lifecycle
    <2>4. CASE ~mh[h]
        <3>1. Lifecycle(h) = "unpinned"
            BY <2>1, <2>4 DEF Lifecycle
        <3>2. QED
            BY <2>1, <2>2, <2>3, <3>1, OtherStep
    <2>5. CASE mh[h]
        <3>1. Lifecycle(h) \in {"pinned", "mapped"}
            BY <2>1, <2>5 DEF HTypeOK, Lifecycle
        <3>2. LC' = [LC EXCEPT ![h] = "unpinned"]
            BY <2>2, <2>3, Edge
        <3>3. HL!Unpin(h)
            BY <2>1, <3>1, <3>2 DEF HL!Unpin, HL!Performed, HL!Become, LC
        <3>4. QED
            BY <3>3 DEF HL!Next
    <2>6. QED
        BY <2>4, <2>5
<1>8. ASSUME NEW h \in Handles,
             GetInfo(h) \/ CopyToMapping(h) \/ CopyFromMapping(h) \/ GetCallbackFlag(h)
      PROVE  [HL!Next]_<<LC, api>>
    <2>1. /\ UNCHANGED <<hState, mh, mapped>>
          /\ api'.op \notin {"unmap", "unpin", "del_handle"}
        BY <1>8 DEF GetInfo, CopyToMapping, CopyFromMapping, Copy,
                    GetCallbackFlag, Raise
    <2>2. QED
        BY <2>1, FieldsUnchanged
<1>9. QED
    BY <1>1, <1>2, <1>3, <1>4, <1>5, <1>6, <1>7, <1>8 DEF Next

(* GDRHandle implements the Buffer Handle state machine of section 4.2,   *)
(* for every caller and every driver outcome (ImplementsLifecycle).       *)
THEOREM Refinement == Spec => ImplementsLifecycle
<1>1. Init => HL!Init
    BY DEF Init, HL!Init, Lifecycle
<1>2. Spec => [](HTypeOK /\ NoneFresh)
    BY NoneFreshInvariant
<1>3. HTypeOK /\ NoneFresh /\ [Next]_vars => [HL!Next]_<<LC, api>>
    BY LifecycleStep
<1>4. QED
    BY <1>1, <1>2, <1>3, PTL DEF Spec, ImplementsLifecycle, HL!Spec, LC

=============================================================================
