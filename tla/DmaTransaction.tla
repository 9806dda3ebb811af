--------------------------- MODULE DmaTransaction ---------------------------
(***************************************************************************)
(* One DMA engine of the ADMA driver and its serialized WDF queue          *)
(* (src/ADMA_Driver/file_io.c).                                            *)
(*                                                                         *)
(* A request forwarded by EvtIoRead/EvtIoWrite waits in the engine's       *)
(* sequential queue; the framework hands it to EvtIoWriteDma (H2C engine)  *)
(* or EvtIoReadDma (C2H engine) once the previous request was completed.   *)
(* The handler initializes the engine's single WDFDMATRANSACTION, marks    *)
(* the request cancelable with EvtCancelDma, executes the transaction and, *)
(* for a polled H2C engine, polls it to completion.  Otherwise the         *)
(* interrupt completion path finalizes it.  A client cancel makes the      *)
(* framework call EvtCancelDma, which stops the engine, releases the       *)
(* transaction and completes the request with STATUS_CANCELLED.            *)
(*                                                                         *)
(* Every handler runs as its own thread: each step below is one call of    *)
(* the code that changes shared state, and any interleaving is allowed.    *)
(* The interrupt completion path and EnginePollTransfer live in            *)
(* adma_engine.c, which is not part of the repository: they are modelled   *)
(* from the contract of spec.md section 4.2 (the terminal release and      *)
(* completion happen only after WdfRequestUnmarkCancelable succeeds).      *)
(***************************************************************************)
EXTENDS Naturals, Sequences

CONSTANTS
  Requests,   \* identities of the I/O requests sent to this engine
  Dir,        \* "H2C" (EvtIoWriteDma) or "C2H" (EvtIoReadDma)
  Poll,       \* engine->poll
  CanCancel,  \* whether clients may cancel their requests
  NoReq       \* "no request": the free transaction, the idle interrupt path

ASSUME DirAssumption == Dir \in {"H2C", "C2H"}
ASSUME PollAssumption == Poll \in BOOLEAN
ASSUME CanCancelAssumption == CanCancel \in BOOLEAN
ASSUME NoReqAssumption == NoReq \notin Requests

VARIABLES
  queue,        \* requests forwarded to the engine queue, not yet dispatched
  reqSt,        \* where each request is: "new", "queued", "owned" by the driver, "done"
  completions,  \* number of WdfRequestComplete calls made on each request
  status,       \* the status of the last completion of each request
  cancelReq,    \* the client has cancelled the request
  cancelable,   \* the request is marked cancelable (EvtCancelDma registered)
  cancelCalled, \* the framework has invoked EvtCancelDma for the request
  hpc,          \* step of EvtIoWriteDma/EvtIoReadDma running for the request
  cpc,          \* step of EvtCancelDma running for the request
  dpc,          \* request the interrupt completion path has claimed, or NoReq
  txn,          \* engine->dmaTransaction: "free", "init"ialized or "exec"uting
  txnReq,       \* the request the transaction was initialized from
  hw,           \* the engine hardware: "idle", "busy" transferring, "done"
  hwReq,        \* the request whose transaction the hardware runs
  xfer          \* history: the hardware finished a transfer for the request

vars == <<queue, reqSt, completions, status, cancelReq, cancelable,
          cancelCalled, hpc, cpc, dpc, txn, txnReq, hw, hwReq, xfer>>

HandlerSteps == {"idle", "init", "mark", "exec", "poll",
                 "errRelease", "errComplete", "end"}
CancelSteps == {"idle", "stop", "release", "complete", "end"}
Statuses == {"none", "success", "cancelled", "failed"}

(***************************************************************************)
(* WdfRequestComplete(r, s): the request leaves the driver.                *)
(***************************************************************************)
Complete(r, s) ==
  /\ completions' = [completions EXCEPT ![r] = @ + 1]
  /\ status' = [status EXCEPT ![r] = s]
  /\ reqSt' = [reqSt EXCEPT ![r] = "done"]

(***************************************************************************)
(* WdfDmaTransactionRelease(engine->dmaTransaction): frees whatever the    *)
(* engine's one transaction object holds, whoever calls it.                *)
(***************************************************************************)
Release ==
  /\ txn' = "free"
  /\ txnReq' = NoReq

(***************************************************************************)
(* The framework takes a cancelled request out of the queue, keeping the   *)
(* order of the others (a request is queued at most once).                 *)
(***************************************************************************)
Dequeue(s, r) ==
  LET i == CHOOSE i \in 1..Len(s) : s[i] = r
  IN  [j \in 1..(Len(s) - 1) |-> IF j < i THEN s[j] ELSE s[j + 1]]

Init ==
  /\ queue = <<>>
  /\ reqSt = [r \in Requests |-> "new"]
  /\ completions = [r \in Requests |-> 0]
  /\ status = [r \in Requests |-> "none"]
  /\ cancelReq = [r \in Requests |-> FALSE]
  /\ cancelable = [r \in Requests |-> FALSE]
  /\ cancelCalled = [r \in Requests |-> FALSE]
  /\ hpc = [r \in Requests |-> "idle"]
  /\ cpc = [r \in Requests |-> "idle"]
  /\ dpc = NoReq
  /\ txn = "free"
  /\ txnReq = NoReq
  /\ hw = "idle"
  /\ hwReq = NoReq
  /\ xfer = [r \in Requests |-> FALSE]

-----------------------------------------------------------------------------
(***************************************************************************)
(* Environment: the router forwards a request to the engine queue          *)
(* (WdfRequestForwardToIoQueue in EvtIoRead/EvtIoWrite), and the           *)
(* sequential queue dispatches its head once no request is outstanding.    *)
(***************************************************************************)
Forward(r) ==
  /\ reqSt[r] = "new"
  /\ reqSt' = [reqSt EXCEPT ![r] = "queued"]
  /\ queue' = Append(queue, r)
  /\ UNCHANGED <<completions, status, cancelReq, cancelable, cancelCalled,
                 hpc, cpc, dpc, txn, txnReq, hw, hwReq, xfer>>

\* Fault variant: a parallel instead of a sequential engine queue.
DispatchParallel ==
  /\ queue # <<>>
  /\ reqSt' = [reqSt EXCEPT ![Head(queue)] = "owned"]
  /\ hpc' = [hpc EXCEPT ![Head(queue)] = "init"]
  /\ queue' = Tail(queue)
  /\ UNCHANGED <<completions, status, cancelReq, cancelable, cancelCalled,
                 cpc, dpc, txn, txnReq, hw, hwReq, xfer>>

Dispatch ==
  /\ queue # <<>>
  /\ \A q \in Requests : reqSt[q] # "owned"
  /\ reqSt' = [reqSt EXCEPT ![Head(queue)] = "owned"]
  /\ hpc' = [hpc EXCEPT ![Head(queue)] = "init"]
  /\ queue' = Tail(queue)
  /\ UNCHANGED <<completions, status, cancelReq, cancelable, cancelCalled,
                 cpc, dpc, txn, txnReq, hw, hwReq, xfer>>

(***************************************************************************)
(* Environment: a client cancels its request.  The framework completes a   *)
(* request still in the queue itself, calls EvtCancelDma for a request     *)
(* marked cancelable, and only records the cancel otherwise (a later       *)
(* WdfRequestMarkCancelableEx then fails with STATUS_CANCELLED).           *)
(***************************************************************************)
CancelQueued(r) ==
  /\ CanCancel /\ ~cancelReq[r] /\ reqSt[r] = "queued"
  /\ cancelReq' = [cancelReq EXCEPT ![r] = TRUE]
  /\ queue' = Dequeue(queue, r)
  /\ Complete(r, "cancelled")
  /\ UNCHANGED <<cancelable, cancelCalled, hpc, cpc, dpc, txn, txnReq,
                 hw, hwReq, xfer>>

CancelMarked(r) ==
  /\ CanCancel /\ ~cancelReq[r] /\ reqSt[r] = "owned"
  /\ cancelable[r]
  /\ cancelReq' = [cancelReq EXCEPT ![r] = TRUE]
  /\ cancelable' = [cancelable EXCEPT ![r] = FALSE]
  /\ cancelCalled' = [cancelCalled EXCEPT ![r] = TRUE]
  /\ cpc' = [cpc EXCEPT ![r] = "stop"]
  /\ UNCHANGED <<queue, reqSt, completions, status, hpc, dpc, txn, txnReq,
                 hw, hwReq, xfer>>

CancelUnmarked(r) ==
  /\ CanCancel /\ ~cancelReq[r] /\ reqSt[r] = "owned"
  /\ ~cancelable[r]
  /\ cancelReq' = [cancelReq EXCEPT ![r] = TRUE]
  /\ UNCHANGED <<queue, reqSt, completions, status, cancelable, cancelCalled,
                 hpc, cpc, dpc, txn, txnReq, hw, hwReq, xfer>>

-----------------------------------------------------------------------------
(***************************************************************************)
(* EvtIoWriteDma / EvtIoReadDma, one action per call that changes state.   *)
(***************************************************************************)

\* WdfDmaTransactionInitializeUsingRequest: fails when the transaction is
\* in use, or for lack of resources; on failure goto ErrExit.
DmaInitialize(r) ==
  /\ hpc[r] = "init"
  /\ \/ /\ txn = "free"
        /\ txn' = "init"
        /\ txnReq' = r
        /\ hpc' = [hpc EXCEPT ![r] = "mark"]
     \/ /\ hpc' = [hpc EXCEPT ![r] = "errRelease"]
        /\ UNCHANGED <<txn, txnReq>>
  /\ UNCHANGED <<queue, reqSt, completions, status, cancelReq, cancelable,
                 cancelCalled, cpc, dpc, hw, hwReq, xfer>>

\* Fault variant: the request is never marked cancelable.
DmaMarkCancelableSkipped(r) ==
  /\ hpc[r] = "mark"
  /\ IF cancelReq[r]
       THEN hpc' = [hpc EXCEPT ![r] = "errRelease"]
       ELSE hpc' = [hpc EXCEPT ![r] = "exec"]
  /\ UNCHANGED <<queue, reqSt, completions, status, cancelReq, cancelable,
                 cancelCalled, cpc, dpc, txn, txnReq, hw, hwReq, xfer>>

\* WdfRequestMarkCancelableEx(Request, EvtCancelDma): returns
\* STATUS_CANCELLED without marking when the request was already cancelled.
DmaMarkCancelable(r) ==
  /\ hpc[r] = "mark"
  /\ IF cancelReq[r]
       THEN /\ hpc' = [hpc EXCEPT ![r] = "errRelease"]
            /\ UNCHANGED cancelable
       ELSE /\ cancelable' = [cancelable EXCEPT ![r] = TRUE]
            /\ hpc' = [hpc EXCEPT ![r] = "exec"]
  /\ UNCHANGED <<queue, reqSt, completions, status, cancelReq, cancelCalled,
                 cpc, dpc, txn, txnReq, hw, hwReq, xfer>>

\* Fault variant: no return after a successful interrupt-mode execute,
\* so the handler falls through into ErrExit.
DmaExecuteFallThrough(r, polls) ==
  /\ hpc[r] = "exec"
  /\ \/ /\ txn = "init"
        /\ txn' = "exec"
        /\ hw' = "busy"
        /\ hwReq' = txnReq
        /\ hpc' = [hpc EXCEPT ![r] = IF polls THEN "poll" ELSE "errRelease"]
     \/ /\ hpc' = [hpc EXCEPT ![r] = "errRelease"]
        /\ UNCHANGED <<txn, hw, hwReq>>
  /\ UNCHANGED <<queue, reqSt, completions, status, cancelReq, cancelable,
                 cancelCalled, cpc, dpc, txnReq, xfer>>

\* WdfDmaTransactionExecute(engine->dmaTransaction): programs and starts
\* the engine with whatever transaction the object holds; fails on a
\* transaction that is not initialized, or for lack of map registers.
\* On success the H2C handler polls if engine->poll, else returns.
DmaExecute(r, polls) ==
  /\ hpc[r] = "exec"
  /\ \/ /\ txn = "init"
        /\ txn' = "exec"
        /\ hw' = "busy"
        /\ hwReq' = txnReq
        /\ hpc' = [hpc EXCEPT ![r] = IF polls THEN "poll" ELSE "end"]
     \/ /\ hpc' = [hpc EXCEPT ![r] = "errRelease"]
        /\ UNCHANGED <<txn, hw, hwReq>>
  /\ UNCHANGED <<queue, reqSt, completions, status, cancelReq, cancelable,
                 cancelCalled, cpc, dpc, txnReq, xfer>>

\* Fault variants of EnginePollTransfer: giving up on a busy engine
\* (a timeout), completing the request only on error (as the comment at
\* the call site reads), and reporting success whatever the engine did.
DmaPollTimeout(r) ==
  /\ hpc[r] = "poll"
  /\ hpc' = [hpc EXCEPT ![r] = "end"]
  /\ IF cancelCalled[r]
       THEN UNCHANGED <<reqSt, completions, status, cancelable, txn, txnReq>>
       ELSE /\ cancelable' = [cancelable EXCEPT ![r] = FALSE]
            /\ Release
            /\ Complete(r, IF hw = "done" THEN "success" ELSE "failed")
  /\ UNCHANGED <<queue, cancelReq, cancelCalled, cpc, dpc, hw, hwReq, xfer>>

DmaPollNoComplete(r) ==
  /\ hpc[r] = "poll"
  /\ hw # "busy"
  /\ hpc' = [hpc EXCEPT ![r] = "end"]
  /\ IF cancelCalled[r] \/ hw = "done"
       THEN UNCHANGED <<reqSt, completions, status, cancelable, txn, txnReq>>
       ELSE /\ cancelable' = [cancelable EXCEPT ![r] = FALSE]
            /\ Release
            /\ Complete(r, "failed")
  /\ UNCHANGED <<queue, cancelReq, cancelCalled, cpc, dpc, hw, hwReq, xfer>>

DmaPollAlwaysSuccess(r) ==
  /\ hpc[r] = "poll"
  /\ hw # "busy"
  /\ hpc' = [hpc EXCEPT ![r] = "end"]
  /\ IF cancelCalled[r]
       THEN UNCHANGED <<reqSt, completions, status, cancelable, txn, txnReq>>
       ELSE /\ cancelable' = [cancelable EXCEPT ![r] = FALSE]
            /\ Release
            /\ Complete(r, "success")
  /\ UNCHANGED <<queue, cancelReq, cancelCalled, cpc, dpc, hw, hwReq, xfer>>

\* EnginePollTransfer (adma_engine.c, modelled from spec 4.2): polls until
\* the engine reports completion, or failure (the engine stopped without
\* completing); then, unless the request was cancelled meanwhile, unmarks
\* it, releases the transaction and completes it.
DmaPoll(r) ==
  /\ hpc[r] = "poll"
  /\ hw # "busy"
  /\ hpc' = [hpc EXCEPT ![r] = "end"]
  /\ IF cancelCalled[r]
       THEN UNCHANGED <<reqSt, completions, status, cancelable, txn, txnReq>>
       ELSE /\ cancelable' = [cancelable EXCEPT ![r] = FALSE]
            /\ Release
            /\ Complete(r, IF hw = "done" THEN "success" ELSE "failed")
  /\ UNCHANGED <<queue, cancelReq, cancelCalled, cpc, dpc, hw, hwReq, xfer>>

\* ErrExit: WdfDmaTransactionRelease, then WdfRequestComplete(Request, status),
\* with no WdfRequestUnmarkCancelable in between.
\* Fault variant: ErrExit without WdfDmaTransactionRelease.
ErrExitNoRelease(r) ==
  /\ hpc[r] = "errRelease"
  /\ hpc' = [hpc EXCEPT ![r] = "errComplete"]
  /\ UNCHANGED <<queue, reqSt, completions, status, cancelReq, cancelable,
                 cancelCalled, cpc, dpc, txn, txnReq, hw, hwReq, xfer>>

ErrExitRelease(r) ==
  /\ hpc[r] = "errRelease"
  /\ Release
  /\ hpc' = [hpc EXCEPT ![r] = "errComplete"]
  /\ UNCHANGED <<queue, reqSt, completions, status, cancelReq, cancelable,
                 cancelCalled, cpc, dpc, hw, hwReq, xfer>>

\* Fault variant: ErrExit completes with STATUS_SUCCESS.
ErrExitCompleteSuccess(r) ==
  /\ hpc[r] = "errComplete"
  /\ Complete(r, "success")
  /\ hpc' = [hpc EXCEPT ![r] = "end"]
  /\ UNCHANGED <<queue, cancelReq, cancelable, cancelCalled, cpc, dpc,
                 txn, txnReq, hw, hwReq, xfer>>

ErrExitComplete(r) ==
  /\ hpc[r] = "errComplete"
  /\ Complete(r, "failed")
  /\ hpc' = [hpc EXCEPT ![r] = "end"]
  /\ UNCHANGED <<queue, cancelReq, cancelable, cancelCalled, cpc, dpc,
                 txn, txnReq, hw, hwReq, xfer>>

EvtIoWriteDma(r) ==
  \/ DmaInitialize(r)
  \/ DmaMarkCancelable(r)
  \/ DmaExecute(r, Poll)
  \/ DmaPoll(r)
  \/ ErrExitRelease(r)
  \/ ErrExitComplete(r)

EvtIoReadDma(r) ==
  \/ DmaInitialize(r)
  \/ DmaMarkCancelable(r)
  \/ DmaExecute(r, FALSE)
  \/ ErrExitRelease(r)
  \/ ErrExitComplete(r)

-----------------------------------------------------------------------------
(***************************************************************************)
(* EvtCancelDma: EngineStop, WdfRequestUnmarkCancelable (which fails with  *)
(* STATUS_CANCELLED inside the cancel callback and is only logged),        *)
(* WdfDmaTransactionRelease, WdfRequestComplete(STATUS_CANCELLED).         *)
(***************************************************************************)
CancelStop(r) ==
  /\ cpc[r] = "stop"
  /\ hw' = "idle"
  /\ cpc' = [cpc EXCEPT ![r] = "release"]
  /\ UNCHANGED <<queue, reqSt, completions, status, cancelReq, cancelable,
                 cancelCalled, hpc, dpc, txn, txnReq, hwReq, xfer>>

CancelRelease(r) ==
  /\ cpc[r] = "release"
  /\ Release
  /\ cpc' = [cpc EXCEPT ![r] = "complete"]
  /\ UNCHANGED <<queue, reqSt, completions, status, cancelReq, cancelable,
                 cancelCalled, hpc, dpc, hw, hwReq, xfer>>

CancelComplete(r) ==
  /\ cpc[r] = "complete"
  /\ Complete(r, "cancelled")
  /\ cpc' = [cpc EXCEPT ![r] = "end"]
  /\ UNCHANGED <<queue, cancelReq, cancelable, cancelCalled, hpc, dpc,
                 txn, txnReq, hw, hwReq, xfer>>

EvtCancelDma(r) == CancelStop(r) \/ CancelRelease(r) \/ CancelComplete(r)

-----------------------------------------------------------------------------
(***************************************************************************)
(* Hardware and the interrupt completion path (adma_engine.c, modelled     *)
(* from spec 4.2 and 9).  The engine finishes the running transfer; with   *)
(* interrupts enabled (engine->poll = FALSE) the completion path           *)
(* acknowledges it and, if the engine's transaction is executing and its   *)
(* request can still be unmarked, claims the request; it then releases the *)
(* transaction and completes the request.  The loser of the race with      *)
(* EvtCancelDma only acknowledges the interrupt.                           *)
(***************************************************************************)
EngineTransferDone ==
  /\ hw = "busy"
  /\ hw' = "done"
  /\ xfer' = [xfer EXCEPT ![hwReq] = TRUE]
  /\ UNCHANGED <<queue, reqSt, completions, status, cancelReq, cancelable,
                 cancelCalled, hpc, cpc, dpc, txn, txnReq, hwReq>>

InterruptUnmark ==
  /\ ~Poll
  /\ hw = "done"
  /\ dpc = NoReq
  /\ hw' = "idle"
  /\ IF txn = "exec" /\ cancelable[txnReq]
       THEN /\ cancelable' = [cancelable EXCEPT ![txnReq] = FALSE]
            /\ dpc' = txnReq
       ELSE UNCHANGED <<cancelable, dpc>>
  /\ UNCHANGED <<queue, reqSt, completions, status, cancelReq, cancelCalled,
                 hpc, cpc, txn, txnReq, hwReq, xfer>>

InterruptComplete ==
  /\ dpc # NoReq
  /\ Release
  /\ Complete(dpc, "success")
  /\ dpc' = NoReq
  /\ UNCHANGED <<queue, cancelReq, cancelable, cancelCalled, hpc, cpc,
                 hw, hwReq, xfer>>

-----------------------------------------------------------------------------
Handler(r) == IF Dir = "H2C" THEN EvtIoWriteDma(r) ELSE EvtIoReadDma(r)

\* Every request has left the driver and every thread has returned.
Quiescent ==
  /\ \A r \in Requests : reqSt[r] = "done" /\ hpc[r] \in {"idle", "end"}
                         /\ cpc[r] \in {"idle", "end"}
  /\ dpc = NoReq

Terminated == Quiescent /\ UNCHANGED vars

Next ==
  \/ \E r \in Requests :
       \/ Forward(r)
       \/ CancelQueued(r) \/ CancelMarked(r) \/ CancelUnmarked(r)
       \/ Handler(r)
       \/ EvtCancelDma(r)
  \/ Dispatch
  \/ EngineTransferDone
  \/ InterruptUnmark
  \/ InterruptComplete
  \/ Terminated

(***************************************************************************)
(* Fairness: the framework dispatches, handler and callback threads run    *)
(* to their end, the engine finishes a started transfer, and an enabled    *)
(* interrupt is delivered.  Clients are not obliged to send or cancel.     *)
(***************************************************************************)
Fairness ==
  /\ WF_vars(Dispatch)
  /\ \A r \in Requests : WF_vars(Handler(r)) /\ WF_vars(EvtCancelDma(r))
  /\ WF_vars(EngineTransferDone)
  /\ WF_vars(InterruptUnmark)
  /\ WF_vars(InterruptComplete)

Spec == Init /\ [][Next]_vars
FairSpec == Spec /\ Fairness

-----------------------------------------------------------------------------
TypeOK ==
  /\ queue \in Seq(Requests)
  /\ reqSt \in [Requests -> {"new", "queued", "owned", "done"}]
  /\ completions \in [Requests -> Nat]
  /\ status \in [Requests -> Statuses]
  /\ cancelReq \in [Requests -> BOOLEAN]
  /\ cancelable \in [Requests -> BOOLEAN]
  /\ cancelCalled \in [Requests -> BOOLEAN]
  /\ hpc \in [Requests -> HandlerSteps]
  /\ cpc \in [Requests -> CancelSteps]
  /\ dpc \in Requests \cup {NoReq}
  /\ txn \in {"free", "init", "exec"}
  /\ txnReq \in Requests \cup {NoReq}
  /\ hw \in {"idle", "busy", "done"}
  /\ hwReq \in Requests \cup {NoReq}
  /\ xfer \in [Requests -> BOOLEAN]

(***************************************************************************)
(* Every request is completed at most once: no path of EvtIoWriteDma,      *)
(* EvtIoReadDma, EvtCancelDma or the completion path completes a request   *)
(* another one already completed (spec 7: completing twice is fatal).      *)
(***************************************************************************)
CompletedAtMostOnce == \A r \in Requests : completions[r] <= 1

(***************************************************************************)
(* While the engine transfers, the transaction it runs is still the        *)
(* executing one: no WdfDmaTransactionRelease (by ErrExit, EvtCancelDma or *)
(* the completion path) frees, and no initialize reuses, the buffers the   *)
(* hardware is reading or writing.                                         *)
(***************************************************************************)
HwRunsLiveTxn == hw = "busy" => txn = "exec" /\ txnReq = hwReq

(***************************************************************************)
(* The engine's transaction is never left behind by a completed request:   *)
(* every path that completes a request has released its transaction        *)
(* first, so the next request can initialize it (spec 4.2: a leak on the   *)
(* failure path is a bug).                                                 *)
(***************************************************************************)
TxnNotLeaked == txn # "free" => reqSt[txnReq] = "owned"

(***************************************************************************)
(* A request completed with success had its own transfer finished by the   *)
(* engine: the completion path never finalizes a request with another      *)
(* request's interrupt (spec 5: completion must finalize the request the   *)
(* submitter created).                                                     *)
(***************************************************************************)
SuccessOnlyIfTransferred ==
  \A r \in Requests : status[r] = "success" => xfer[r]

(***************************************************************************)
(* Every request forwarded to the engine queue is eventually completed,    *)
(* by the handler, the poll loop, the interrupt path or the cancel path.   *)
(***************************************************************************)
AllComplete == \A r \in Requests : reqSt[r] = "queued" ~> reqSt[r] = "done"

(***************************************************************************)
(* The refinement mapping: the queue, the outcomes and the cancel flags    *)
(* are the abstract ones, and the request owned by the driver is the       *)
(* abstract active one.                                                    *)
(***************************************************************************)
AbsSt == [r \in Requests |-> IF reqSt[r] = "owned" THEN "active" ELSE reqSt[r]]

Abs == INSTANCE DmaRequests WITH st <- AbsSt, outcome <- status,
         cancelled <- cancelReq

(***************************************************************************)
(* The engine queue implements DmaRequests: requests are served one at a   *)
(* time in forwarding order, each completes once, and "cancelled" only     *)
(* when the client cancelled.                                              *)
(***************************************************************************)
ImplementsDmaRequests == Abs!Spec

=============================================================================
