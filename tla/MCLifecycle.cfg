\* The refinement run: GDRHandle follows the section 4.2 state machine for
\* any caller, including one that closes with live pins, with one context.
CONSTANTS
    h1 = h1
    h2 = h2
    c1 = c1
    c2 = c2
    NULL = NULL
    Handles <- MCHandles
    Ctxs <- MCLifecycleCtxs
    CloseWithLivePins = TRUE
    CloseMayLeak = TRUE
SPECIFICATION Spec
PROPERTY ImplementsLifecycle
