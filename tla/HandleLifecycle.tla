--------------------------- MODULE HandleLifecycle ---------------------------
(***************************************************************************)
(* What a Buffer Handle promises (specification section 4.2): the state    *)
(* machine none -> PINNED <-> MAPPED -> UNPINNED, where UNPINNED is        *)
(* terminal and is reached from PINNED or from MAPPED.  `event` is the     *)
(* operation last performed, with the handle it was performed on and its   *)
(* outcome.  A handle is created, and becomes mapped, only by an operation *)
(* that succeeded; unmap and unpin are fail-safe, so they leave the state  *)
(* they undo whatever the driver returned (sections 4.2 and 7), and the   *)
(* destructor unpins.  Every other operation leaves every handle alone.    *)
(***************************************************************************)
CONSTANT Handles

VARIABLES
    lifecycle,  \* handle -> "none" | "pinned" | "mapped" | "unpinned"
    event       \* [op, h, out]: the last operation, its handle and its outcome

\* the last operation was one of ops, applied to handle h
Performed(ops, h) == event'.op \in ops /\ event'.h = h

Become(h, s) == lifecycle' = [lifecycle EXCEPT ![h] = s]

Init == lifecycle = [h \in Handles |-> "none"]

Pin(h) ==
    /\ lifecycle[h] = "none"
    /\ Performed({"pin_buffer", "pin_buffer_v2"}, h)
    /\ event'.out = "ok"
    /\ Become(h, "pinned")

Map(h) ==
    /\ lifecycle[h] = "pinned"
    /\ Performed({"map"}, h)
    /\ event'.out = "ok"
    /\ Become(h, "mapped")

Unmap(h) ==
    /\ lifecycle[h] = "mapped"
    /\ Performed({"unmap"}, h)
    /\ Become(h, "pinned")

Unpin(h) ==
    /\ lifecycle[h] \in {"pinned", "mapped"}
    /\ Performed({"unpin", "del_handle"}, h)
    /\ Become(h, "unpinned")

(* An unmap of a mapped handle, or an unpin or destruction of a handle    *)
(* that holds its token: fail-safe operations that move h whatever the    *)
(* driver returned.                                                       *)
Undoes(h) ==
    \/ Performed({"unmap"}, h) /\ lifecycle[h] = "mapped"
    \/ Performed({"unpin", "del_handle"}, h) /\ lifecycle[h] \in {"pinned", "mapped"}

(* any other operation, or one that failed before changing anything; never *)
(* a fail-safe operation that should have moved its handle                *)
Other ==
    /\ UNCHANGED lifecycle
    /\ \A h \in Handles : ~Undoes(h)

Next == (\E h \in Handles : Pin(h) \/ Map(h) \/ Unmap(h) \/ Unpin(h)) \/ Other

Spec == Init /\ [][Next]_<<lifecycle, event>>

=============================================================================
