# TLA+ models of the GDRCopy Python bindings

This directory holds a formal model of the Python bindings in
`src/python/build/lib/gdrcopy/gdrcopy.py` (abbreviated `gdrcopy.py` below)
and of the boundary to the native library `libgdrapi` that they call through
cffi. It contains TLC runs that check the model on small instances and TLAPS
proofs of its main safety properties for every instance.

## 1. The system

| Part | Source | State | Operations |
|---|---|---|---|
| `GDRCopy` (device context) | `gdrcopy.py:260-344` | `_handle` (a `gdr_t` or None) | `__init__`, `open`, `close`, `pin_buffer`, `pin_buffer_v2`, `get_attribute`, `__del__` |
| `GDRHandle` (one pinned buffer) | `gdrcopy.py:141-257` | `_gdr` (back-reference), `_handle` (`gdr_mh_t` or None), `_mapped_ptr`, `_mapped_size`, `_info` (cache) | `unpin`, `get_info`, `map`, `unmap`, `copy_to_mapping`, `copy_from_mapping`, `get_callback_flag`, `__del__` |
| Module functions | `gdrcopy.py:99-138` | none | `get_version`, `get_driver_version`, `_check_error`/`GDRError` |
| Driver `libgdrapi` | not in the repository (spec.md section 6) | open contexts, pinned tokens, live mappings | `gdr_open`, `gdr_close`, `gdr_pin_buffer[_v2]`, `gdr_unpin_buffer`, `gdr_get_info_v2`, `gdr_map`, `gdr_unmap`, copies, `gdr_get_callback_flag`, attribute and version queries |
| Library loading | `gdrcopy.py:77-96` | the loaded `_lib` | import-time `dlopen` with an environment override and a fallback |
| Examples | `src/python/examples/basic_example.py`, `cuda_integration.py` | the program counter, the local `handle` | fixed call sequences: open, pin, get_info, map, copies, then `close()` only; locals dropped on return |

How the parts interact:
- Every `GDRHandle` calls the driver through `self._gdr._handle`. That is
  the owner's *current* context, not the one the token was pinned in.
- `close()` releases the context, and with it every pin and mapping the
  driver holds in that context. It does not touch the handles.
- Handles keep their `_handle` and `_mapped_ptr` after a close. Their
  finalizers run later.

The behaviours that make this code hard to test:
- Each release method clears its field before it checks the driver's
  status, so a failed release is never retried.
- `__del__` stops at the first exception it meets.
- `get_info` caches its first snapshot for good.
- A None `gdr_mh_t` makes cffi raise `TypeError` before the driver is called.
- The garbage collector may run a finalizer between any two calls.
- Every driver call may fail. A failed release may or may not have released.

The bindings are synchronous and not thread-safe. The model therefore treats
every method as one atomic step, and lets the caller and the garbage
collector interleave at the granularity of whole methods.

## 2. Modules

- **`GdrCopy.tla`** is the core model. Its variables fall into groups:
  - The driver: `ctxState`, `pinned`, `pinCtx`, `drvMapped`. This part is
    spec-modelled, because the driver is not in the repository.
  - `GDRCopy`: `gdr` is `_handle`, and `gdrAlive` records that the object has
    not been finalized.
  - `GDRHandle`, one entry per object in `Handles`: `hState` (not yet
    created, live, or finalized), `mh` (`_handle` is truthy), `mapped`
    (`_mapped_ptr` is truthy), and `info` (the cached `mapped` flag).
  - The observation: `api` holds the last method, its handle and its
    outcome; `calls` holds the driver calls that method made.

  There is one action per method, and each action models the whole method:
  - every early return and every `raise` is a disjunct;
  - a driver status goes through `Status` (`_check_error`);
  - the clear-before-check order of `unpin` and `unmap` is kept.

  Shared bodies are separate operators. `DoClose` is shared by `close` and
  `GDRCopy.__del__`. `UnpinCall`, `UnmapCall` and `MapCall` are shared by the
  methods and by `GDRHandle.__del__`. `FinalizeHandle` models `__del__`,
  including the exception from `unmap` that skips `unpin`.

  The constant `CloseWithLivePins` chooses the caller's discipline:
  - `FALSE`: the caller closes only after unpinning every live handle, as
    spec.md sections 5 and 9 ask.
  - `TRUE`: the caller may close at any time, as the examples do.

  The data is abstracted away: addresses, sizes, flags, attribute ids and the
  bytes copied. No decision the bindings make depends on them.
  The constant `CloseMayLeak` says whether a `gdr_close` that reports an
  error may keep the context, and with it its pins, alive.
  `NewGdrCopy` is `GDRCopy()`. One object exists at a time, and
  `OwnerAlive` records that a live handle keeps its `GDRCopy` alive.
- **`HandleLifecycle.tla`** is the abstract specification of one buffer
  handle, from spec.md section 4.2. Each handle is "none", PINNED, MAPPED or
  UNPINNED. Pin and map change the state only when they succeed. Unmap of
  a MAPPED handle, and unpin or `__del__` of a PINNED or MAPPED one, always
  move it, whatever the driver returns: the step `Other`, which leaves
  every state alone, excludes them (`Undoes(h)`). Every other step leaves
  the state alone. `GdrCopy` maps onto it through `Lifecycle(h)`,
  computed from `hState`, `mh` and `mapped`, and through `event <- api`. The
  refinement is the property `ImplementsLifecycle == HL!Spec`.
- **`BasicExample.tla`** and **`CudaIntegration.tla`** compose the example
  programs with `GdrCopy`. Each statement that calls the bindings is the
  `GdrCopy` action of that method, conjoined with the program-counter step
  its outcome selects: `Raised` when the method raised, otherwise the next
  statement. `try`/`finally`, `except`, `return` and uncaught exceptions
  follow the source. When a function returns, CPython frees its frame:
  `handle` is dropped first and runs `GDRHandle.__del__`, then `gdr`, which
  the handle kept alive, runs `GDRCopy.__del__`. In `cuda_integration.py`
  an uncaught exception ends the program. Its traceback keeps the frame, so
  those finalizers run at interpreter shutdown or never (`Crash`). The
  bandwidth divisions may raise `ZeroDivisionError` (`Bandwidth`).
- **`MCGdrCopy.tla`** instantiates the model for TLC with two handles and two
  contexts. The second context lets a close followed by an open hand out a
  fresh context.
- **`MCBasicExample.tla`** and **`MCCudaIntegration.tla`** instantiate the
  example models; the cuda run has three handles and three contexts, one
  per benchmark call that can pin.
- **`GdrCopyProofs.tla`**, **`LifecycleProofs.tla`**,
  **`BasicExampleProofs.tla`** and **`CudaIntegrationProofs.tla`** hold
  the TLAPS proofs (section 5).

## 3. Runs

The runs of `MCGdrCopy` and `MCBasicExample` use `Handles = {h1, h2}` and
`Ctxs = {c1, c2}`, with model values. The runs of `MCCudaIntegration` use
three of each, with `Sizes = 1` (three benchmark calls) and `Iterations = 2`.
There is no symmetry reduction, because the action properties are checked on
concrete transitions.

These bounds cover every case the properties talk about:
- two handles, one mapped and one not, or one finalized and one still live;
- a context closed and a second one opened, so that `GDRCopy.open` after
  `close` hands out a fresh context. In `core_safety` the discipline closes
  only when no live handle holds a token, so a stale token never meets the
  fresh context there (hazard at `gdrcopy.py:165`, left without a property);
- every driver call succeeding or failing at every step.

`core_safety` takes about 35 seconds and reaches 922,444 distinct
states. `lifecycle_refinement` uses a single context and reaches 113,597.
The lifecycle does not depend on which context a handle was pinned in, and
one context still lets a close come before, between and after the handle
operations. `basic_example_release` reaches 110 distinct states and
`cuda_release` about 10,000. One size per loop is enough for the examples:
every call of `benchmark_transfer` makes a fresh `GDRCopy`, so a second size
repeats the same paths. Two copy iterations cover both the loop's repetition
and its exit.

| Run (cfg) | Expect | Properties | What it shows |
|---|---|---|---|
| `core_safety` (`MCGdrCopy.cfg`) | pass | `IInv`, `ReleaseOnlyHeld`, `CopyThroughLiveMapping` | Under the unpin-before-close discipline, with arbitrary driver errors and finalizers, these three properties hold. A live handle that holds its token holds a pinned token of the open context, and its mapping record is backed by a live mapping. No unpin or unmap releases what was already released. Copies go only through live mappings. |
| `lifecycle_refinement` (`MCLifecycle.cfg`) | pass | `ImplementsLifecycle` | With one context, for a caller that may close with live pins, every handle follows the section 4.2 state machine, and a fail-safe unmap, unpin or `__del__` always moves its handle: `GdrCopy` refines `HandleLifecycle`. |
| `finalizer_skips_unpin` (`MCFinalizerUnpins.cfg`) | violation | `FinalizerUnpins` | `GDRHandle.__del__` skips `unpin` when `unmap` raises, so the pin leaks. |
| `info_cache_stale` (`MCInfoStale.cfg`) | violation | `InfoReflectsDriver` | Called after `map`, `get_info` returns the snapshot it cached before `map` (`mapped=False`). |
| `unmap_after_unpin` (`MCUnmapAfterUnpin.cfg`) | violation | `UnmapLeavesNoRecord` | After `map` and then `unpin`, every `unmap` raises `TypeError` and keeps its record. |
| `driver_version_null_ctx` (`MCDriverVersionNull.cfg`) | violation | `NoInvalidContextCall` | `get_driver_version` passes a NULL `gdr_t` when the object is not open. |
| `close_with_live_pins` (`MCCloseLivePins.cfg`) | violation | `CopyThroughLiveMapping` | If the caller closes while mapped, as `basic_example.py` does, later copies go through released mappings. |
| `basic_example_release` (`MCBasicExample.cfg`) | pass | `ExitInv`, `EventuallyReleased` | `basic_example.main` releases every pin and mapping on every exit path, with every driver error (through `close()` in its `finally`). The driver holds nothing once `main` has returned, and before that at most `main`'s own `handle`, in the context `gdr` has open. |
| `basic_example_null_ctx` (`MCBasicNullCtx.cfg`) | violation | `NoInvalidContextCall` | After that `close()`, the handle's `__del__` calls `gdr_unpin_buffer` with a NULL context when `main` returns. |
| `cuda_release` (`MCCudaIntegration.cfg`) | pass | `CudaInv`, `EventuallyReleased` | `cuda_integration.main`, with or without CuPy, with driver errors and zero-time divisions, releases every pin and mapping. The driver holds nothing between two calls of `benchmark_transfer` or when the program has ended, by return or by crash, and inside a call at most that call's `handle`. |
| `close_leak` (`MCCloseLeak.cfg`) | violation | `EventuallyReleased` | If a failed `gdr_close` keeps the context, the pin of a `benchmark_transfer` that raised is never released. `close()` has already cleared `_handle`, so nothing can retry. |

The seven violations are recorded as findings in `PROJECT.json`. Each
property of a passing run is broken by a mutant of the code that mirrors a
plausible bug:
- `UnpinCallKeepsTokenOnError` clears `_handle` only after the status check.
  It breaks `IInv`, and also `ImplementsLifecycle`, because a failed unpin
  then leaves the handle PINNED.
- `UnmapCallKeepsRecordOnError` clears `_mapped_ptr` only after the status
  check. It breaks `ReleaseOnlyHeld` (and `ImplementsLifecycle` the same
  way).
- `MapCallRecordsOnError` sets the record before the status check. It
  breaks `CopyThroughLiveMapping`, and also `ImplementsLifecycle`, because a
  failed map then moves the handle to MAPPED.
- `DoCloseClearsFirst` clears `_handle` before calling `gdr_close`, so the
  close releases nothing and `basic_example`'s pin leaks. This breaks both
  properties of `basic_example_release`.
- `BenchMapNoFinally` lets an exception from `map` skip the `finally`, so
  `cuda_integration`'s context and pin are never released. This breaks both
  properties of `cuda_release`.

Fairness. `GdrCopy` alone assumes none: nothing forces an arbitrary caller
to release anything. The example programs assume weak fairness of the
whole program, `WF_exVars(ExNext)`. This is justified because each program
is a single thread that runs to its end, and CPython's reference counting
runs a finalizer as soon as the frame holding the last reference is freed.
Whether shutdown finalizes a frame kept by an uncaught exception is not
forced by fairness. It is a nondeterministic choice in `Crash`.

`EventuallyReleased` is checked with `CloseMayLeak = FALSE`. The real
context is a file descriptor, and Linux `close()` releases the descriptor
even when it reports an error. `close_leak` shows what happens without this
assumption. The example runs use `CloseWithLivePins = TRUE`, because the
examples close with live pins. `CHECK_DEADLOCK` is off in them because the
programs end.

## 4. Driver assumptions (spec-modelled)

The driver is modelled from spec.md:
- `CtxOpen`, `ValidToken` and `ValidMapping` decide when the driver can
  honour a call.
- `Released` gives the driver state after a release. A release on an invalid
  argument releases nothing. A failed release may or may not have released.
- `ReleaseCtx` models `gdr_close`: it releases every pin and mapping of the
  context. spec.md says that closing releases the context's pins; that the
  live mappings go with them is this model's reading, since a mapping
  cannot outlive its context's pin. The examples never unmap, so the
  "no mapping left" part of `ExitInv`, `CudaInv` and `EventuallyReleased`
  rests on this assumption.
- `CloseAllowed` is the caller's contract, chosen by `CloseWithLivePins`.

Two more assumptions come from CPython rather than from the driver:
- `GDRCopy.__del__` runs only after every handle is finalized, because each
  handle references its `GDRCopy`.
- A successful `gdr_map` returns a non-NULL pointer.

## 5. Proofs (checked by tlapm)

| Theorem | Assumptions | Statement |
|---|---|---|
| `TypeCorrect` | `ConstantsAssumption` | `Spec => []TypeOK` |
| `SafetyInvariant` | `~CloseWithLivePins` | `Spec => []IInv` |
| `NoDoubleRelease` | `~CloseWithLivePins` | `Spec => ReleaseOnlyHeld` |
| `CopySafety` | `~CloseWithLivePins` | `Spec => CopyThroughLiveMapping` |
| `Refinement` (`LifecycleProofs`) | `ConstantsAssumption` only | `Spec => ImplementsLifecycle`, i.e. `Spec => HL!Spec` |
| `BasicExitInvariant` (`BasicExampleProofs`) | `~CloseMayLeak` | `ExSpec => []ExitInv` |
| `CudaInvariant` (`CudaIntegrationProofs`) | `~CloseMayLeak` | `ExSpec => []CudaInv` |

The first four theorems are in `GdrCopyProofs.tla`. Every theorem holds for
every set of handles and contexts. The example theorems also hold for every
`Sizes` and `Iterations`, with or without CuPy, and for both values of
`CloseWithLivePins`.

`IInv` is the conjunction of `TypeOK`, `NoneFresh`, `OwnerAlive`,
`TokenValid` and `MappingRecordSound`. `OwnerAlive` is needed because
`GDRCopy()` sets `_handle` to None: the proof must know that no live handle
still holds a token when a new object is made. Neither `TokenValid` nor `MappingRecordSound` is
inductive alone:
- `Pin` may pick any object in state "none". Without `NoneFresh`, that object
  could carry a stale `mh` or `mapped` flag into life.
- `MappingRecordSound` needs `TokenValid`, so that `unmap` and `close` are
  known to act on the handle's own, open context.

The proof goes as follows:
- One type lemma per action, then `TypeStep`.
- `SafeStep` proves that every action preserves `NoneFresh`, `TokenValid`
  and `MappingRecordSound`. It has one case per action, split by code path.
  The key facts are these. `unpin` and `unmap` clear their field whatever the
  driver returns, so a failed release leaves no stale record. `map` records
  only on success. `close` is allowed only when no live handle holds a token,
  so it invalidates nothing a handle still claims.
- The two action properties follow from `IInv` in the pre-state and from
  `HandleCalls`. `HandleCalls` says that every unpin, unmap or copy call of a
  step comes from a live handle whose flags allowed the call.

The refinement follows the standard layout:
- `Init` maps to `HL!Init`: every handle is "none".
- `LifecycleStep`: from `HTypeOK /\ NoneFresh`, every `[Next]_vars` step is
  a `[HL!Next]` step. There is one case per method, split by code path. The
  generic lemma `Edge` turns "only `h` changed, to `s`" into
  `LC' = [LC EXCEPT ![h] = s]`. `NoneFresh` is needed so that a pin gives
  PINNED, not MAPPED. A step that changes no handle's state is an `HL!Other`
  step only if it is not a fail-safe unmap, unpin or destruction of a handle
  that holds something. The lemma `OtherStep` proves this from the
  operation the step records and the state of its handle. The leaves that
  use it are the error paths that change nothing: an unpin or `__del__`
  without a token, and an unmap without a mapping.
- `NoneFreshInvariant`: `NoneFresh` is inductive together with `HTypeOK`,
  the types of `hState`, `mh` and `mapped` alone. The
  refinement therefore needs no caller discipline and holds for
  `basic_example`'s close-first pattern too.

TLC checks `IInv` in `core_safety` and `ImplementsLifecycle` in
`lifecycle_refinement` as well, so the run and the proofs state
the same invariant.

The example programs. What section 9 asks of them is the last conjunct of
`ExitInv` and `CudaInv`: outside the `try` that pinned (for
`basic_example`, once the `finally` has run) the driver holds nothing, so
that nothing is left when `main` returns or an exception ends the program.
That conjunct is not inductive alone. The invariants say four things:
- the driver holds at most the running function's own `handle`;
- whatever it holds lies in the context that function's `gdr` has open;
- the handle methods run only on a bound handle;
- outside the `try` (for `basic_example`, once the `finally` has run) the
  driver holds nothing.

TLC checks both strengthenings in the example runs before they are proved.
The proofs go through these steps:
- `BasicIsNext` and `CudaIsNext` show that every program step is a
  `[Next]_vars` step of `GdrCopy`, so `TypeStep` gives the type.
- Two lemmas in `GdrCopyProofs` cover the bindings' steps. `PinOutcome`
  says a pin either raises with the driver unchanged or pins one fresh
  handle in `gdr`'s context. `FinalizersShrink` says the two `__del__`
  methods never make the driver hold more.
- One case per statement. The close in the `finally` is the case that
  matters. Every held token was pinned in `gdr`, so `ReleaseCtx(gdr)`
  empties what the driver holds.
- `~CloseMayLeak` rules out the one branch of `DoClose` where a failed
  close keeps the context. This is the assumption under which the runs
  check `EventuallyReleased` (section 3), and `close_leak` shows the
  property fails without it.

What stays with TLC:
- every violation run;
- `IInv` and the action properties under `CloseWithLivePins = TRUE`;
- `EventuallyReleased` in the example runs (TLAPS cannot reason about
  ENABLED or fairness).

## 6. Not modelled, and why

- **Library loading** (`gdrcopy.py:77-96`). It runs once, at import time,
  before any object exists. The path choice is pure string and I/O work.
- **Data**: sizes, offsets and the bytes copied. The bindings pass them
  through unchanged, with no check of their own.
- **`setup.py` and `__init__.py`**: setuptools metadata, dependencies and
  re-exports. They have no state and no behaviour at run time.
- **The examples' printing, timings and array contents.** No control
  decision depends on them, except a zero elapsed time, which is kept as
  the choice to raise `ZeroDivisionError`.
- **Reference cycles and the collector's order within a cycle.**
- **Threads.** The bindings are not thread-safe, and nothing in the
  repository calls them concurrently.

## 7. Plan for later sittings

1. A context-count resource bound and several `GDRCopy` objects sharing the
   driver, so that handles of one object can meet another object's context.
2. A pure operator for the library path choice (`gdrcopy.py:82-96`), checked
   against a reference over environment and file-presence inputs.
3. More proofs: an invariant of the bindings under
   `CloseWithLivePins = TRUE`, and the refinement of a handle's lifecycle
   within the example programs.
