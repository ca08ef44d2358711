\* Expected violation: __del__ skips unpin when unmap raises.
CONSTANTS
    h1 = h1
    h2 = h2
    c1 = c1
    c2 = c2
    NULL = NULL
    Handles <- MCHandles
    Ctxs <- MCCtxs
    CloseWithLivePins = FALSE
    CloseMayLeak = TRUE
SPECIFICATION Spec
PROPERTY FinalizerUnpins
