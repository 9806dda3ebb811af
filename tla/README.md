# TLA+ verification of the ADMA driver request and DMA paths

This directory holds TLA+ models of `src/ADMA_Driver/file_io.c`, the file I/O
layer of a KMDF driver for a PCIe DMA card. It also holds TLC configurations
that model-check them, and TLAPS proofs of their main safety properties.
`PROJECT.json` lists the components, runs, fault variants (mutants), the
source lines each definition models, the findings, the hazards and the
theorems.

## The system

`file_io.c` has these parts (spec.md section 2):

| Part | Code | Modelled in |
| --- | --- | --- |
| RequestRouter | `GetDevNodeType`, `EvtDeviceFileCreate`, `EvtIoRead`, `EvtIoWrite` | `RequestRouter` |
| MmioBridge | `ValidateBarParams`, `ReadBarToRequest`, `WriteBarFromRequest` | `RequestRouter` |
| IoctlDispatcher | `EvtIoDeviceControl`, `IoctlGetPerf`, `IoctlGetAddrMode`, `IoctlSetAddrMode` | `RequestRouter` |
| DmaTransactionEngine | `EvtIoWriteDma`, `EvtIoReadDma`, `EvtCancelDma` | `DmaTransaction` (abstract: `DmaRequests`) |
| RingBufferConsumer | `EvtIoReadEngineRing` | not modelled |
| EventWaitService | `EvtReadUserEvent`, `EvtCancelReadUserEvent`, `HandleUserEvent` | `EventWait` |

The parts interact like this:

- A client opens a node by name. `FileNameLUT` maps `h2c_0`, `c2h_0`, `user` and `control`
  to the node types AH2C, AC2H, USER and CONTROL.
- Reads and writes on USER and CONTROL nodes are served at once by a BAR access.
- Reads on AC2H nodes and writes on AH2C nodes are forwarded to the engine's WDF queue.
  That queue is sequential. It hands one request at a time to `EvtIoReadDma` or `EvtIoWriteDma`.
- The handler initializes the engine's single `WDFDMATRANSACTION`, marks the request
  cancelable with `EvtCancelDma` and executes the transaction.
- A polled H2C engine then polls to completion.
- Otherwise the interrupt completion path in `adma_engine.c` releases the transaction
  and completes the request.
- A client cancel makes the framework call `EvtCancelDma`. It stops the engine,
  releases the transaction and completes the request with `STATUS_CANCELLED`.
- A read on an `events_<n>` node calls `EvtReadUserEvent`. It clears the node's
  KEVENT, waits on it for at most 3 s and completes the read with TRUE (signaled)
  or FALSE (timed out). The user-interrupt callback `HandleUserEvent` pulses the
  same KEVENT.

`adma_engine.c` (`EnginePollTransfer`, `EngineStop`, the interrupt path) and
`driver.c` (the queue setup) are not in the repository. Their behaviour is
modelled from spec.md 4.2, 5 and 9, and those definitions are marked
`spec_modelled` in the map.

Some map ranges take in arms that nothing can reach in this build. These are
`EvtDeviceFileCreate`, `CreateFails`, `EvtIoRead` and `EvtIoWrite`. Each
range is one contiguous span of lines. Inside it lie the H2C, C2H, BYPASS and
EVENTS arms and the `#if 0` blocks. `FileNameLUT` cannot select those arms, or
they are not compiled, and they are not modelled. The map's coverage figure
counts those lines.

## Modules

### `DmaTransaction`: one engine, its queue and the cancel race

Constants:

| Constant | Meaning |
| --- | --- |
| `Requests` | the requests sent to the engine |
| `Dir` | `"H2C"` selects `EvtIoWriteDma`; `"C2H"` selects `EvtIoReadDma` |
| `Poll` | the value of `engine->poll` |
| `CanCancel` | whether clients may cancel |
| `NoReq` | the "no request" value |

State:

| Variable | What it holds |
| --- | --- |
| `queue` | the forwarded requests, in order |
| `reqSt` | each request's place: new, queued, owned by the driver, done |
| `completions`, `status` | the `WdfRequestComplete` calls made on each request, and the last status |
| `cancelReq` | the framework's cancel flag |
| `cancelable` | the framework's cancelable mark |
| `cancelCalled` | whether the framework has called `EvtCancelDma` |
| `hpc`, `cpc` | the program counters of the handler thread and the cancel thread of each request |
| `dpc` | the request the interrupt path has claimed |
| `txn`, `txnReq` | the transaction object and the request it was initialized from |
| `hw`, `hwReq` | the engine hardware and the request it runs |
| `xfer` | history: the hardware finished a transfer for the request |

Actions:

- **Handler steps.** Each call that changes state is one action: `DmaInitialize`,
  `DmaMarkCancelable`, `DmaExecute`, `DmaPoll`, then `ErrExitRelease` and
  `ErrExitComplete` for the `ErrExit` label.
  - Each failure the code tests is a nondeterministic branch.
  - `WdfRequestMarkCancelableEx` fails exactly when the request was already cancelled.
  - `WdfDmaTransactionExecute` fails on a transaction that is not initialized.
- **`EvtCancelDma`.** This is `CancelStop` (`EngineStop`; the unmark fails inside the
  callback and is only logged), then `CancelRelease`, then `CancelComplete`.
- **Framework.** The framework's side is:
  - `Forward`;
  - `Dispatch`, the sequential queue's head, taken only when no request is owned;
  - `CancelQueued`;
  - `CancelMarked`, which calls `EvtCancelDma` once;
  - `CancelUnmarked`, where a later mark fails.
- **Hardware and completion path.** These are `EngineTransferDone`, then
  `InterruptUnmark` and `InterruptComplete`. The completion path releases and
  completes only if `WdfRequestUnmarkCancelable` succeeds; a loser only
  acknowledges the interrupt.
- **End of work.** `Terminated` is stuttering once every request is done and every
  thread has returned. That is the only state where the driver may stop, so
  deadlock is checked.

The definitions whose names end in `Timeout`, `NoComplete`, `AlwaysSuccess`,
`NoRelease`, `Skipped`, `FallThrough`, `CompleteSuccess`, `Parallel` and
`AlsoCompletes` are fault variants. Each is a plausible coding error in the definition that
follows it. They are not part of `Next`, and each one must break a property (see
"Mutants").

### `DmaRequests`: what the engine queue promises

Requests are submitted, served one at a time in submission order, finish once
with success or failure, and end as "cancelled" only if the client cancelled.
`DmaTransaction` maps `reqSt = "owned"` to the abstract "active" state and
checks `ImplementsDmaRequests == Abs!Spec`. `DmaRefinementProofs` proves it
without cancels.

### `RequestRouter`: nodes, BAR access and IOCTLs

- **Constants.** The constants are the `FileNameLUT`, the user-BAR and engine-enabled
  flags, BAR lengths, and small sets of offsets, lengths and ADDRMODE values.
- **Requests.** Each request runs as its own thread:
  - `EvtDeviceFileCreate` binds a file to a node type, or fails.
  - `EvtIoRead` and `EvtIoWrite` complete a BAR access, reject a node of the wrong
    direction, or forward (`ForwardToEngine`, completed only if the forward fails).
- **IOCTLs.** `EvtIoDeviceControl` works like this:
  - `IoctlOnBarNode` sets `crashed`, because `GetQueueContext(NULL)` runs on nodes with no queue.
  - `IoctlImmediate` covers PERF_START, PERF_GET, ADDRMODE_GET and unknown codes.
  - ADDRMODE_SET is two steps: the register bit (`AddrModeSetWrite`), then the
    `engine->addressMode` store and the completion (`AddrModeSetStore`). This is
    the one place where two IOCTL threads can interleave on shared engine state.
- **What is kept of the data.** Buffers and data bytes are abstracted away. A BAR access is
  recorded as `[bar, off, len, width, count]`, which is what the properties
  tell apart.

### `EventWait`: the user-event read and the interrupt pulse

- **Constants.** `Readers` (the read requests) and `Lengths` (the lengths
  clients pass).
- **Choices of `Init`.** The event is initialized by `KeInitializeEvent` outside
  `file_io.c`. So `Init` chooses its kind (`kind`: notification or
  synchronization) and whether it starts signaled. One run covers both kinds.
- **State.** `signaled` is the KEVENT. Each reader has:
  - `rpc`: its thread's position (idle, cleared, waiting, woken, done);
  - `wake`: how its wait ended (signaled or timeout);
  - `completions`, `status` and `value`: the BOOLEAN written to the buffer;
  - `cancelReq`: the client has cancelled it.
  `pulsedSince[r]` is history: a pulse came after reader r's `KeClearEvent`.
- **Actions.**
  - `ReadStart` checks the length (`file_io.c:728-748`): a wrong length completes
    with INVALID_PARAMETER; otherwise the event is cleared.
  - `ReadWait` is `KeWaitForSingleObject`: satisfied at once by a signaled
    event, or the thread blocks.
  - `ReadTimeout` is the 3 s timeout expiring.
  - `ReadFinish` retrieves the buffer (it may fail) and completes the read with
    `eventValue`.
  - `HandleUserEvent` is `KePulseEvent`. It releases every waiter of a
    notification event, or one waiter of a synchronization event, then resets
    the event. A pulse nobody waits for is lost.
  - `ClientCancel` only sets the framework's flag. The cancel routine
    `EvtCancelReadUserEvent` is never registered, because the
    `WdfRequestMarkCancelableEx` call is commented out (`:739-743`).
- **Reachability.** No `events_<n>` name is in `FileNameLUT`, so this build never
  reaches the path. The module models the path spec 6 gives it.

### MC modules

- `MCDmaTransaction` gives `Requests` two or three model values (`MCRequests2`, `MCRequests3`).
- `MCRequestRouter` gives the router:
  - two files and two requests;
  - the four LUT names;
  - BAR length 8;
  - offsets {0, 4, 6} and lengths {0, 1, 2, 4}, so that in-range, boundary (6 + 2 = 8)
    and out-of-range accesses and all three access widths occur;
  - ADDRMODE values {0, 1}.
- `MCEventWait` gives three readers and lengths {1, 4}: one valid length and one
  that fails the `sizeof(BOOLEAN)` check.
- No symmetry is used. The requests are ordered by the queue, so swapping them is not a symmetry of the DMA model.

## Runs

| Run | Configuration | Checks | Result |
| --- | --- | --- | --- |
| dma_irq | H2C, interrupts, 3 requests, no cancel | CompletedAtMostOnce, SuccessOnlyIfTransferred, AllComplete, ImplementsDmaRequests | pass |
| dma_poll_h2c | H2C, polled, 3 requests, no cancel | HwRunsLiveTxn, AllComplete | pass |
| dma_cancel | C2H, interrupts, 3 requests, cancels | TxnNotLeaked | pass |
| dma_cancel_poll | H2C, polled, 3 requests, cancels | SuccessOnlyIfTransferred | pass |
| dma_cancel_double_complete | H2C, interrupts, 2 requests, cancels | CompletedAtMostOnce | violation |
| dma_cancel_hw_release | same | HwRunsLiveTxn | violation |
| dma_cancel_stale_hang | same | AllComplete | violation |
| router_routes | 2 files, 2 requests | RoutedOnce | pass |
| router_bar_bounds | same | BarAccessValidated | violation |
| router_addrmode_race | same | AddrModeCoherent | violation |
| event_wait | 3 readers, either event kind | NoStaleSignal, ReadsComplete | pass |
| event_signal_lost | 3 readers, either event kind | SignalNotLost | violation |

What the passing runs show:

- Without cancels, the engine is correct:
  - each request completes exactly once;
  - success is reported only after the request's own transfer;
  - every queued request is eventually completed;
  - the queue serves requests one at a time in order (refinement of `DmaRequests`).
- With cancels, two properties still hold:
  - no completed request keeps the transaction;
  - no stopped transfer is reported as a success.
- The router forwards or completes every request exactly once.
- A user-event read never reports a stale signal. That holds with either kind
  of event and whatever the event's initial state. Every read completes,
  whether or not the hardware ever pulses.

The violation runs are the findings:

- **Double completion** (`file_io.c:598`). The handler marks the request cancelable before
  `WdfDmaTransactionExecute`, and `ErrExit` completes it without unmarking it. A cancel in
  that window completes the request twice (spec 7: fatal).
- **Release under a running transfer** (`:709`). `EvtCancelDma` releases the transaction
  unconditionally, while the engine may still run it.
- **Stale cancel** (`:704`). A cancel callback of a request `ErrExit` already completed runs
  after the next request was dispatched. It stops that request's transfer and releases its
  transaction, so the next request never completes.
- **Unchecked BAR access** (`:236`, `:278`). `ValidateBarParams` is never called, so BAR
  accesses are not bounds-checked (spec 4.1, 8).
- **ADDRMODE_SET race** (`:498`). Two concurrent ADDRMODE_SETs leave `addressMode` and the
  control bit disagreeing.
- **Lost user event** (`:748`). `KeClearEvent` comes before `KeWaitForSingleObject`,
  so a pulse that falls between them, or before the wait, is lost. The
  `KePulseEvent` resets the event before anyone waits. The read then times out
  and reports FALSE, although the interrupt fired after its clear. This path
  is latent in this build. `FileNameLUT` (`:46-55`) has no `events_<n>` name,
  so no client can open an event node and reach `EvtReadUserEvent`. The
  defect bites once such a name is added. Note too that the comment at
  `:745` ("return error on timeout") does not match the code: on a timeout
  the read writes FALSE and completes with success.

Three defects need no interleaving and are plain from the code. They are
modelled but no run is spent on them (`PROJECT.json` lists them as hazards
with a note):

- **C2H poll hang** (`:660`). The C2H poll loop is compiled out, so a polled
  C2H engine never completes a request.
- **IOCTL on a BAR node** (`:519`). `GetQueueContext` is applied to the NULL queue
  of a BAR node. Spec 4.5 asks for InvalidParameter. `IoctlOnBarNode` sets
  `crashed`.
- **Cancel of a user-event read** (`:739`). The cancel routine is never
  registered. A cancelled read still waits up to 3 s and completes with
  success, not the Cancelled outcome spec 4.4 describes.

**Bounds.**

- Three requests are enough for the DMA runs: one request in flight, one queued behind it,
  and one still to be forwarded. That covers dispatch after completion and a stale callback
  meeting the next request.
- The violation runs need only two requests.
- Every counter is bounded by the finite set of requests: each request is forwarded once
  and completed a bounded number of times.

**Fairness (FairSpec).**

- Weak fairness is assumed on dispatch, on every handler and cancel step, on the
  engine finishing a transfer, and on interrupt delivery and completion:
  - the framework dispatches a sequential queue once it is idle;
  - threads that entered the driver run to their end;
  - a started DMA transfer finishes;
  - an enabled interrupt is delivered.
- Clients get no fairness. Nothing obliges them to send or cancel.
- In `EventWait`, each reader thread gets weak fairness on its own steps, and
  the timeout expires (it is a 3 s kernel timer). The hardware and the clients
  get no fairness. `ReadsComplete` therefore holds even if no interrupt ever comes.

## Mutants

Each property of a passing run has a fault variant that breaks it. A variant
is an operator defined just before the definition it replaces:

| Property (run) | Variant | The coding error |
| --- | --- | --- |
| CompletedAtMostOnce (dma_irq) | `DmaExecuteFallThrough` | no `return` after a successful execute, so the handler falls into `ErrExit` |
| SuccessOnlyIfTransferred (dma_irq) | `ErrExitCompleteSuccess` | `ErrExit` completes with `STATUS_SUCCESS` |
| AllComplete (dma_irq) | `DmaMarkCancelableSkipped` | the request is never marked cancelable, so the completion path cannot claim it |
| ImplementsDmaRequests (dma_irq) | `DispatchParallel` | the queue is parallel |
| HwRunsLiveTxn (dma_poll_h2c) | `DmaPollTimeout` | the poll gives up on a busy engine |
| AllComplete (dma_poll_h2c) | `DmaPollNoComplete` | the poll completes the request only on error and leaves success to nobody (the comment at `file_io.c:615` covers only the error case, so a reader could take it this way) |
| TxnNotLeaked (dma_cancel) | `ErrExitNoRelease` | `ErrExit` without the release |
| SuccessOnlyIfTransferred (dma_cancel_poll) | `DmaPollAlwaysSuccess` | the poll always reports success |
| RoutedOnce (router_routes) | `ForwardToEngineAlsoCompletes` | the request is completed even after a successful forward |
| NoStaleSignal (event_wait) | `ReadStartNoClear` | the `KeClearEvent` before the wait is left out |
| ReadsComplete (event_wait) | `ReadTimeoutNever` | the wait has no timeout |

## Proofs

### `DmaTransactionProofs`

`DmaTransactionProofs` extends `DmaTransaction` and TLAPS. Its proofs hold for
every set of requests, both directions and both poll modes.

- `TypeCorrect`: `Spec => []TypeOK`, with cancels allowed. It rests on
  `DequeueType`: removing a queued request leaves a sequence of requests.
- `CompletedOnceWithoutCancel`: `~CanCancel => (Spec => []CompletedAtMostOnce)`.
- `EngineSafeWithoutCancel`: `~CanCancel => (Spec => []HwRunsLiveTxn)`.

These two need the hypothesis: with cancels both properties fail (the
`dma_cancel_double_complete` and `dma_cancel_hw_release` runs).
`TxnNotLeaked` and `SuccessOnlyIfTransferred` need no such hypothesis. They
are proved with cancels in `DmaCancelProofs`.

Both safety theorems follow from the inductive invariant `IInv` (lemmas
`IInvInit` and `IInvStep`, combined in `IInvInvariant`). `CompletedAtMostOnce`
is not inductive by itself: a step could complete a request that some other
thread will complete again. `IInv` adds the facts that rule this out:

- `NoCancel`: no cancel is pending.
- `QueueOK`: queued requests are distinct and marked queued.
- `Lifecycle`: a new or queued request has an idle handler and no completion;
  an owned request has an active handler and no completion; a done request has
  a returned handler and exactly one completion.
- `OneOwned`: the sequential queue owns at most one request.
- `TxnOK`: the transaction is held only by the owned request, at a handler step
  that matches its state (`"exec"` pins the handler to `"poll"` or `"end"`).
- `DpcOK`: the interrupt path claims only the owned request whose handler
  returned, and only when the engine is not busy.

Each action preserves `IInv` because the acting thread can only be the one
owned request. `HandlerOwns` states this. The other request's threads are idle
or finished. TLC checked `IInv` as an invariant on all four Dir/Poll
combinations before it was proved. The (C2H, polled) combination only
deadlocks, which is the hang above.

The module also defines `HwDoneOK` (a finished engine names a request whose
transfer is done) and `DpcXfer` (the interrupt path claims only a transferred
request). `CInv` in `DmaCancelProofs` uses both.

### `EventWaitProofs`

`NoStaleSignalHolds`: `Spec => []NoStaleSignal`, for every set of readers and
lengths and either kind of KEVENT. The inductive invariant `EvInv` adds these
facts to `TypeOK`:

- `UntouchedWhileSignaled`: the event is signaled only while no reader has
  cleared it. Only `Init` can make it signaled; every clear and every pulse
  resets it.
- `UnwokenClean`: a reader not yet woken has no outcome and value FALSE.
- `SignaledWakeSawPulse`: a wait ended by a signal saw a pulse after the clear.
- `ValueFromWake`: TRUE is written only after such a wait.

The first fact is what rules out the initial signal satisfying a wait. That
is why `NoStaleSignal` holds although `Init` may start the event signaled.
`ReleasedWaiters` states that a pulse wakes only waiting readers.

### `RequestRouterProofs`

`RoutedOnceHolds`: `Spec => []RoutedOnce`, for every `FileNameLUT`, BAR layout
and set of files, requests and inputs. `RoutedInv` adds two facts to `TypeOK`:

- every open file has one of the LUT's node types, so the `switch` of
  `EvtIoRead` and `EvtIoWrite` always takes an arm;
- a new, setting or forwarded request has no completion, and a done one
  has exactly one.

The lemmas are:

- `IoStep`: what one read or write step does.
- `IoctlType`: the IOCTL steps keep the types.
- `NewStep`: completing or forwarding a new request keeps the completion facts.

### `DmaRefinementProofs`

`RefinesDmaRequests`: `~CanCancel => (Spec => ImplementsDmaRequests)`. Without
client cancels, the engine queue implements `DmaRequests` for every set of
requests, both directions and both poll modes. `DmaRequests!Spec` has no
fairness, so this is a safety refinement. The proof follows the usual pattern:

- `Init` maps to `Abs!Init`.
- Under `IInv`, every step maps to an abstract step or a stutter (`RefineStep`):
  - `Forward` is `Submit` (`ForwardIsSubmit`);
  - `Dispatch` is `Start` (`DispatchIsStart`), since no request is owned;
  - the completing `DmaPoll`, `ErrExitComplete` and `InterruptComplete` are
    `Finish` of the owned request (`CompleteIsFinish`; `HandlerOwns` and
    `DpcOK` say the completed request is the owned one);
  - every other step leaves the mapped variables alone (`AbsStutter`).
- `IInvInvariant` and PTL combine the two.

### `DmaCancelProofs`

With cancels, `IInv` is false: a request can be completed twice, and the
hardware can run a released transaction (the `dma_cancel_*` violation runs).
`TxnNotLeaked` and `SuccessOnlyIfTransferred` still hold. This module proves
them with no hypothesis on `CanCancel`, for every set of requests, both
directions and both poll modes:

- `TxnNotLeakedHolds`: `Spec => []TxnNotLeaked`.
- `SuccessOnlyIfTransferredHolds`: `Spec => []SuccessOnlyIfTransferred`.

Both follow from the inductive invariant `CInv` (`CInvInit`, `CInvStep`,
`CInvInvariant`). `CInv` does not say which request the queue owns. It says
which step each thread is at:

- `Fresh`, `Early`, `InitOwned`: a request not yet dispatched has no
  handler; before the mark it is not cancelable and has no `EvtCancelDma`;
  a handler about to initialize runs for the owned request.
- `TxnHeld`, `TxnInit`: a held transaction belongs to the owned request. That
  request's handler has initialized it, and its `EvtCancelDma` has not released
  it. So every path that completes a request (`ErrExitComplete`,
  `CancelComplete`, `DmaPoll`, `InterruptComplete`) finds the transaction
  free or held by another request.
- `DpcLate`, `CancelCalledOK`: the completion path claims only a request past
  its initialize step, and only with interrupts enabled.
- `ExecHw`, `HwReqOK`, `HwDoneOK`, `DpcXfer`: the executing transaction is the
  one the hardware runs, and a finished engine names a transferred request.
- `PollMode`, `PollOwned`, `PollHw`: a polling handler that was not cancelled
  polls its own transfer. This holds even though a cancelled handler's late
  `WdfDmaTransactionExecute` may start the next request's transaction.
- `QueueOK`, `QueuedIn`: the queue holds exactly the queued requests, without
  duplicates.

The queue lemmas are:

- `DequeueDistinct`: `CancelQueued` removes one entry and keeps the others.
- `ForwardQueue`, `DispatchQueue`, `CancelQueuedQueue`, `QueueDone`,
  `QueueKept`: what each step does to the queue facts.

TLC checked `CInv` first, with cancels, on all four Dir/Poll combinations
and three requests (55k to 104k distinct states).

### Only TLC checks

- the liveness properties `AllComplete` and `ReadsComplete`, which need
  fairness and ENABLED, out of the prover's reach;
- the refinement `ImplementsDmaRequests` with cancels. It is not claimed:
  with cancels a request can be completed twice.

Induction over data and RECURSIVE operators are not needed by these models.

## Not modelled

- **RingBufferConsumer** (`EvtIoReadEngineRing`): it is a single call into
  `adma_engine.c`, which is not in the repository, and no node of `FileNameLUT`
  reaches it.
- **The body of `EvtCancelReadUserEvent`**: it is never registered, so it never
  runs. `EventWait` models the effect of that as `ClientCancel`.
- **The `size_t` wrap of `offset + length`** in `ValidateBarParams` (`:211`): TLC
  cannot enumerate 64-bit values. The function is never called anyway.
- **The router arms for H2C, C2H, BYPASS and EVENTS, and `EvtFileCleanup`**: they are
  unreachable from `FileNameLUT`.
- **Data bytes, trace output and the performance counter values.**
- **Interaction between engines**: none; each engine has its own queue and transaction.
- **`EnginePollTransfer`'s body** (`adma_engine.c`, absent). `DmaPoll` takes from
  spec 4.2 that it waits while the engine is busy, with no timeout, and
  completes the request on success as well as on error. The runs of
  `HwRunsLiveTxn` and `AllComplete` on the polled engine, and the
  `dma_cancel_poll` run, rest on that reading.
- **An interrupt that outlives `EngineStop` or the next execute.** In the model,
  `CancelStop` and the next `DmaExecute` reset a finished, unserviced transfer.
  So no DPC runs after either of them. A real DPC already queued could still
  run then. That part of the "interrupt attributed to the wrong transaction"
  hazard is not explored.

## Plan for later sittings

1. A variant of `DmaTransaction` guarded as spec 9 asks (a one-shot terminal flag). It would
   be shown to refine `DmaRequests` with cancels, and `CompletedAtMostOnce` would be proved
   with cancels.
2. A proof of `BarAccessValidated` for a fixed router, which calls `ValidateBarParams`.
3. A composition of the router with two engine instances.
