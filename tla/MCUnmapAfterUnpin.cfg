\* Expected violation: unmap after unpin raises TypeError and keeps its record.
CONSTANTS
    h1 = h1
    h2 = h2
    c1 = c1
    c2 = c2
    NULL = NULL
    Handles <- MCHandles
    Ctxs <- MCCtxs
    CloseWithLivePins = FALSE
    CloseMayLeak = TRUE
SPECIFICATION Spec
INVARIANT UnmapLeavesNoRecord
