------------------------- MODULE DmaTransactionProofs -------------------------
(***************************************************************************)
(* Proofs about one DMA engine of the ADMA driver (module DmaTransaction), *)
(* for every set of requests and every engine configuration.               *)
(***************************************************************************)
EXTENDS DmaTransaction, TLAPS

(***************************************************************************)
(* Removing a queued request leaves a sequence of requests.                *)
(***************************************************************************)
LEMMA DequeueType ==
  ASSUME NEW S, NEW s \in Seq(S), NEW r
  PROVE  Dequeue(s, r) \in Seq(S)
<1> DEFINE i == CHOOSE k \in 1..Len(s) : s[k] = r
<1>1. Len(s) - 1 \in Nat \/ Len(s) = 0
  OBVIOUS
<1>2. \A j \in 1..(Len(s) - 1) : (IF j < i THEN s[j] ELSE s[j + 1]) \in S
  OBVIOUS
<1>3. [j \in 1..(Len(s) - 1) |-> IF j < i THEN s[j] ELSE s[j + 1]] \in Seq(S)
  BY <1>1, <1>2
<1> QED
  BY <1>3 DEF Dequeue

(***************************************************************************)
(* Type correctness: every step of the engine, its handlers, its cancel    *)
(* callback and its completion path keeps every variable in its type.      *)
(***************************************************************************)
LEMMA TypeInit == Init => TypeOK
  BY NoReqAssumption DEF Init, TypeOK, HandlerSteps, CancelSteps, Statuses

LEMMA TypeStep == TypeOK /\ [Next]_vars => TypeOK'
<1> SUFFICES ASSUME TypeOK, [Next]_vars PROVE TypeOK'
  OBVIOUS
<1>. USE DEF TypeOK, HandlerSteps, CancelSteps, Statuses
<1>1. ASSUME NEW r \in Requests, Forward(r) PROVE TypeOK'
  BY <1>1 DEF Forward
<1>2. ASSUME NEW r \in Requests, CancelQueued(r) PROVE TypeOK'
  <2>2. Dequeue(queue, r) \in Seq(Requests)
    BY DequeueType
  <2> QED
    BY <1>2, <2>2 DEF CancelQueued, Complete
<1>3. ASSUME NEW r \in Requests,
             CancelMarked(r) \/ CancelUnmarked(r) PROVE TypeOK'
  BY <1>3 DEF CancelMarked, CancelUnmarked
<1>4. ASSUME NEW r \in Requests, Handler(r) PROVE TypeOK'
  <2>1. \/ DmaInitialize(r) \/ DmaMarkCancelable(r)
        \/ \E p \in BOOLEAN : DmaExecute(r, p)
        \/ DmaPoll(r) \/ ErrExitRelease(r) \/ ErrExitComplete(r)
    BY <1>4, PollAssumption DEF Handler, EvtIoWriteDma, EvtIoReadDma
  <2>2. CASE DmaInitialize(r)
    BY <2>2 DEF DmaInitialize
  <2>3. CASE DmaMarkCancelable(r)
    BY <2>3 DEF DmaMarkCancelable
  <2>4. CASE \E p \in BOOLEAN : DmaExecute(r, p)
    BY <2>4 DEF DmaExecute
  <2>5. CASE DmaPoll(r)
    <3>1. CASE cancelCalled[r]
      BY <2>5, <3>1 DEF DmaPoll
    <3>2. CASE ~cancelCalled[r]
      <4>1. /\ cancelable' = [cancelable EXCEPT ![r] = FALSE]
            /\ txn' = "free" /\ txnReq' = NoReq
            /\ Complete(r, IF hw = "done" THEN "success" ELSE "failed")
            /\ hpc' = [hpc EXCEPT ![r] = "end"]
            /\ UNCHANGED <<queue, cancelReq, cancelCalled, cpc, dpc,
                           hw, hwReq, xfer>>
        BY <2>5, <3>2 DEF DmaPoll, Release
      <4>2. status' \in [Requests -> Statuses]
        BY <4>1 DEF Complete
      <4>3. completions' \in [Requests -> Nat]
        BY <4>1 DEF Complete
      <4>4. reqSt' \in [Requests -> {"new", "queued", "owned", "done"}]
        BY <4>1 DEF Complete
      <4> QED
        BY <4>1, <4>2, <4>3, <4>4
    <3> QED
      BY <3>1, <3>2
  <2>6. CASE ErrExitRelease(r)
    BY <2>6 DEF ErrExitRelease, Release
  <2>7. CASE ErrExitComplete(r)
    BY <2>7 DEF ErrExitComplete, Complete
  <2> QED
    BY <2>1, <2>2, <2>3, <2>4, <2>5, <2>6, <2>7
<1>5. ASSUME NEW r \in Requests, EvtCancelDma(r) PROVE TypeOK'
  <2>1. CASE CancelStop(r)
    BY <2>1 DEF CancelStop
  <2>2. CASE CancelRelease(r)
    BY <2>2 DEF CancelRelease, Release
  <2>3. CASE CancelComplete(r)
    BY <2>3 DEF CancelComplete, Complete
  <2> QED
    BY <1>5, <2>1, <2>2, <2>3 DEF EvtCancelDma
<1>6. CASE Dispatch
  BY <1>6 DEF Dispatch
<1>7. CASE EngineTransferDone
  BY <1>7 DEF EngineTransferDone
<1>8. CASE InterruptUnmark
  BY <1>8 DEF InterruptUnmark
<1>9. CASE InterruptComplete
  BY <1>9 DEF InterruptComplete, Release, Complete
<1>10. CASE Terminated \/ UNCHANGED vars
  BY <1>10 DEF Terminated, vars
<1> QED
  BY <1>1, <1>2, <1>3, <1>4, <1>5, <1>6, <1>7, <1>8, <1>9, <1>10 DEF Next

THEOREM TypeCorrect == Spec => []TypeOK
<1>1. Init => TypeOK
  BY TypeInit
<1>2. TypeOK /\ [Next]_vars => TypeOK'
  BY TypeStep
<1> QED
  BY <1>1, <1>2, PTL DEF Spec

-----------------------------------------------------------------------------
(***************************************************************************)
(* The inductive invariant behind CompletedAtMostOnce and HwRunsLiveTxn    *)
(* when clients do not cancel.  A request goes new -> queued -> owned ->   *)
(* done; its completion count is 1 exactly when it is done; the sequential *)
(* queue owns at most one request; the transaction is held only by the     *)
(* owned request, at the handler step that matches its state; and the      *)
(* completion path claims only the owned request whose handler returned.   *)
(***************************************************************************)
NoCancel ==
  \A r \in Requests : ~cancelReq[r] /\ ~cancelCalled[r] /\ cpc[r] = "idle"

QueueOK ==
  \A i \in 1..Len(queue) :
    /\ reqSt[queue[i]] = "queued"
    /\ \A j \in 1..Len(queue) : queue[i] = queue[j] => i = j

Lifecycle ==
  \A r \in Requests :
    /\ reqSt[r] \in {"new", "queued"} => hpc[r] = "idle" /\ completions[r] = 0
    /\ reqSt[r] = "owned" => hpc[r] # "idle" /\ completions[r] = 0
    /\ reqSt[r] = "done" => hpc[r] = "end" /\ completions[r] = 1

OneOwned ==
  \A r1, r2 \in Requests :
    reqSt[r1] = "owned" /\ reqSt[r2] = "owned" => r1 = r2

TxnOK ==
  /\ txn # "free" => txnReq \in Requests /\ reqSt[txnReq] = "owned"
  /\ txn = "init" => hpc[txnReq] \in {"mark", "exec", "errRelease"}
  /\ txn = "exec" => hpc[txnReq] = IF Poll /\ Dir = "H2C" THEN "poll" ELSE "end"

DpcOK ==
  dpc # NoReq => reqSt[dpc] = "owned" /\ hpc[dpc] = "end" /\ hw # "busy"

IInv ==
  /\ TypeOK
  /\ NoCancel
  /\ QueueOK
  /\ Lifecycle
  /\ OneOwned
  /\ TxnOK
  /\ DpcOK
  /\ HwRunsLiveTxn

Rest == NoCancel /\ QueueOK /\ Lifecycle /\ OneOwned /\ TxnOK /\ DpcOK
        /\ HwRunsLiveTxn

(***************************************************************************)
(* A request whose handler is between its first and its last step is the  *)
(* one the sequential queue has handed to the driver.                      *)
(***************************************************************************)
LEMMA HandlerOwns ==
  ASSUME IInv, NEW r \in Requests, hpc[r] \notin {"idle", "end"}
  PROVE  reqSt[r] = "owned"
  BY DEF IInv, Lifecycle, TypeOK

LEMMA IInvInit == Init => IInv
  BY NoReqAssumption, TypeInit
  DEF Init, IInv, NoCancel, QueueOK, Lifecycle, OneOwned, TxnOK, DpcOK,
      HwRunsLiveTxn

LEMMA IInvStep ==
  ASSUME ~CanCancel, IInv, [Next]_vars
  PROVE  IInv'
<1>. USE DEF TypeOK, HandlerSteps, CancelSteps, Statuses, NoCancel, QueueOK,
             Lifecycle, OneOwned, TxnOK, DpcOK, HwRunsLiveTxn
<1>0. TypeOK'
  BY TypeStep DEF IInv
<1>1. ASSUME NEW r \in Requests, Forward(r) PROVE Rest'
  BY <1>1 DEF IInv, Rest, Forward
<1>2. ASSUME NEW r \in Requests,
             CancelQueued(r) \/ CancelMarked(r) \/ CancelUnmarked(r)
      PROVE  FALSE
  BY <1>2 DEF CancelQueued, CancelMarked, CancelUnmarked
<1>3. ASSUME NEW r \in Requests, EvtCancelDma(r) PROVE FALSE
  BY <1>3 DEF IInv, EvtCancelDma, CancelStop, CancelRelease, CancelComplete
<1>4. ASSUME NEW r \in Requests, Handler(r) PROVE Rest'
  <2>1. CASE DmaInitialize(r)
    <3>1. reqSt[r] = "owned"
      BY <2>1 DEF IInv, DmaInitialize
    <3>2. dpc = NoReq
      BY <2>1, <3>1 DEF IInv, DmaInitialize
    <3>3. txn = "free" /\ hw # "busy"
      BY <2>1, <3>1 DEF IInv, DmaInitialize
    <3>4. CASE txn' = "init"
      BY <2>1, <3>1, <3>2, <3>3, <3>4 DEF IInv, Rest, DmaInitialize
    <3>5. CASE txn' = txn
      BY <2>1, <3>1, <3>2, <3>3, <3>5 DEF IInv, Rest, DmaInitialize
    <3> QED
      BY <2>1, <3>4, <3>5 DEF DmaInitialize
  <2>2. CASE DmaMarkCancelable(r)
    BY <2>2 DEF IInv, Rest, DmaMarkCancelable
  <2>3. CASE Dir = "H2C" /\ DmaExecute(r, Poll)
    BY <2>3 DEF IInv, Rest, DmaExecute
  <2>4. CASE Dir = "C2H" /\ DmaExecute(r, FALSE)
    BY <2>4 DEF IInv, Rest, DmaExecute
  <2>5. CASE DmaPoll(r)
    <3>0. hpc[r] = "poll"
      BY <2>5 DEF DmaPoll
    <3>1. reqSt[r] = "owned" /\ ~cancelCalled[r]
      BY <3>0, HandlerOwns DEF IInv
    <3>2. dpc = NoReq
      BY <2>5, <3>1 DEF IInv, DmaPoll
    <3>3. /\ reqSt' = [reqSt EXCEPT ![r] = "done"]
          /\ completions' = [completions EXCEPT ![r] = @ + 1]
          /\ hpc' = [hpc EXCEPT ![r] = "end"]
          /\ txn' = "free" /\ hw' = hw /\ hw # "busy"
          /\ UNCHANGED <<queue, cancelReq, cancelCalled, cpc, dpc>>
      BY <2>5, <3>1 DEF DmaPoll, Release, Complete
    <3> QED
      BY <3>1, <3>2, <3>3 DEF IInv, Rest
  <2>6. CASE ErrExitRelease(r)
    BY <2>6 DEF IInv, Rest, ErrExitRelease, Release
  <2>7. CASE ErrExitComplete(r)
    BY <2>7 DEF IInv, Rest, ErrExitComplete, Complete
  <2> QED
    BY <1>4, <2>1, <2>2, <2>3, <2>4, <2>5, <2>6, <2>7, DirAssumption
    DEF Handler, EvtIoWriteDma, EvtIoReadDma
<1>5. CASE Dispatch
  BY <1>5 DEF IInv, Rest, Dispatch
<1>6. CASE EngineTransferDone
  BY <1>6 DEF IInv, Rest, EngineTransferDone
<1>7. CASE InterruptUnmark
  <2>1. CASE txn = "exec" /\ cancelable[txnReq]
    <3>1. /\ txnReq \in Requests /\ reqSt[txnReq] = "owned"
          /\ hpc[txnReq] = "end"
      BY <1>7, <2>1 DEF IInv, InterruptUnmark
    <3>2. /\ dpc' = txnReq /\ hw' = "idle"
          /\ UNCHANGED <<queue, reqSt, completions, cancelReq, cancelCalled,
                         hpc, cpc, txn, txnReq, hwReq>>
      BY <1>7, <2>1 DEF InterruptUnmark
    <3>3. DpcOK' /\ HwRunsLiveTxn'
      BY <3>1, <3>2
    <3>4. (NoCancel /\ QueueOK /\ Lifecycle /\ OneOwned /\ TxnOK)'
      BY <3>2 DEF IInv
    <3> QED
      BY <1>0, <3>3, <3>4 DEF IInv
  <2>2. CASE ~(txn = "exec" /\ cancelable[txnReq])
    BY <1>7, <2>2 DEF IInv, Rest, InterruptUnmark
  <2> QED
    BY <2>1, <2>2
<1>8. CASE InterruptComplete
  BY <1>8 DEF IInv, Rest, InterruptComplete, Release, Complete
<1>9. CASE Terminated \/ UNCHANGED vars
  BY <1>9 DEF IInv, Rest, Terminated, vars
<1> QED
  BY <1>0, <1>1, <1>2, <1>3, <1>4, <1>5, <1>6, <1>7, <1>8, <1>9
  DEF Next, IInv, Rest


(***************************************************************************)
(* When clients do not cancel, IInv holds in every reachable state, for    *)
(* every set of requests, either direction and either poll mode.           *)
(***************************************************************************)
LEMMA IInvInvariant == ~CanCancel => (Spec => []IInv)
<1> SUFFICES ASSUME ~CanCancel PROVE Spec => []IInv
  OBVIOUS
<1>1. Init => IInv
  BY IInvInit
<1>2. IInv /\ [Next]_vars => IInv'
  BY IInvStep
<1> QED
  BY <1>1, <1>2, PTL DEF Spec

(***************************************************************************)
(* Without client cancels, no path of EvtIoWriteDma, EvtIoReadDma, the     *)
(* poll loop or the interrupt completion path ever calls                   *)
(* WdfRequestComplete twice on one request: the ErrExit path, the poll     *)
(* and the interrupt path each finish only the request the sequential      *)
(* queue handed over, and only once.                                       *)
(***************************************************************************)
THEOREM CompletedOnceWithoutCancel == ~CanCancel => (Spec => []CompletedAtMostOnce)
<1>1. IInv => CompletedAtMostOnce
  <2> SUFFICES ASSUME IInv, NEW r \in Requests PROVE completions[r] <= 1
    BY DEF CompletedAtMostOnce
  <2>1. reqSt[r] \in {"new", "queued", "owned", "done"}
    BY DEF IInv, TypeOK
  <2>2. completions[r] \in {0, 1}
    BY <2>1 DEF IInv, Lifecycle
  <2> QED
    BY <2>2
<1> QED
  BY <1>1, IInvInvariant, PTL

(***************************************************************************)
(* Without client cancels, the engine only ever runs the transaction that  *)
(* is executing, for the request that holds it: no WdfDmaTransactionRelease *)
(* and no initialize of engine->dmaTransaction happens under a running     *)
(* transfer.  (With cancels this fails: see the dma_cancel_hw_release run.)*)
(***************************************************************************)
THEOREM EngineSafeWithoutCancel == ~CanCancel => (Spec => []HwRunsLiveTxn)
<1>1. IInv => HwRunsLiveTxn
  BY DEF IInv
<1> QED
  BY <1>1, IInvInvariant, PTL

-----------------------------------------------------------------------------
(***************************************************************************)
(* Two facts about the hardware and the completion path, used by CInv in   *)
(* DmaCancelProofs: when the engine reports done it has finished the       *)
(* transfer of the request it runs, and the request the interrupt path     *)
(* claimed has been transferred.                                           *)
(***************************************************************************)
HwDoneOK == hw = "done" => hwReq \in Requests /\ xfer[hwReq]

DpcXfer == dpc # NoReq => xfer[dpc]

=============================================================================
