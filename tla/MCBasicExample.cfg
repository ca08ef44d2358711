\* basic_example.main against a driver that may fail any call; a failed
\* gdr_close still tears the context down.  The program ends, so a final
\* state without successors is expected.
CONSTANTS
    h1 = h1
    h2 = h2
    c1 = c1
    c2 = c2
    NULL = NULL
    Handles <- MCHandles
    Ctxs <- MCCtxs
    CloseWithLivePins = TRUE
    CloseMayLeak = FALSE
SPECIFICATION ExSpec
INVARIANT ExitInv
PROPERTY EventuallyReleased
CHECK_DEADLOCK FALSE
