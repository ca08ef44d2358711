\* Expected violation: get_info returns a snapshot cached before map.
CONSTANTS
    h1 = h1
    h2 = h2
    c1 = c1
    c2 = c2
    NULL = NULL
    Handles <- MCHandles
    Ctxs <- MCCtxs
    CloseWithLivePins = FALSE
    CloseMayLeak = TRUE
SPECIFICATION Spec
PROPERTY InfoReflectsDriver
