------------------------- MODULE DmaRefinementProofs -------------------------
(***************************************************************************)
(* The engine queue of the ADMA driver implements DmaRequests when clients *)
(* do not cancel, for every set of requests, both directions and both poll *)
(* modes.  The proof rests on the invariant IInv of DmaTransactionProofs:  *)
(* the request a handler, the poll loop or the interrupt path completes is *)
(* always the one the sequential queue handed over.                        *)
(***************************************************************************)
EXTENDS DmaTransactionProofs

\* A step that leaves the queue, the request states, the statuses and the
\* cancel flags alone is a stuttering step of DmaRequests.
LEMMA AbsStutter ==
  ASSUME UNCHANGED <<queue, reqSt, status, cancelReq>>
  PROVE  UNCHANGED Abs!vars
BY DEF Abs!vars, AbsSt

\* WdfRequestComplete on the owned request, with success or failure, is
\* the abstract Finish of that request.
LEMMA CompleteIsFinish ==
  ASSUME TypeOK, NEW r \in Requests, reqSt[r] = "owned",
         NEW s \in {"success", "failed"}, Complete(r, s),
         UNCHANGED <<queue, cancelReq>>
  PROVE  Abs!Finish(r)
<1>1. AbsSt[r] = "active"
  BY DEF AbsSt
<1>2. AbsSt' = [AbsSt EXCEPT ![r] = "done"]
  BY DEF AbsSt, Complete, TypeOK
<1>3. \E o \in {"success", "failed"} \cup
               (IF cancelReq[r] THEN {"cancelled"} ELSE {}) :
        status' = [status EXCEPT ![r] = o]
  BY DEF Complete
<1> QED
  BY <1>1, <1>2, <1>3 DEF Abs!Finish

\* WdfRequestForwardToIoQueue is the abstract Submit.
LEMMA ForwardIsSubmit ==
  ASSUME TypeOK, NEW r \in Requests, Forward(r)
  PROVE  Abs!Submit(r)
<1>1. AbsSt[r] = "new" /\ AbsSt' = [AbsSt EXCEPT ![r] = "queued"]
  BY DEF Forward, AbsSt, TypeOK
<1> QED
  BY <1>1 DEF Forward, Abs!Submit

\* The sequential queue's dispatch of its head is the abstract Start.
LEMMA DispatchIsStart ==
  ASSUME TypeOK, Dispatch
  PROVE  Abs!Start
<1>1. Head(queue) \in Requests
  BY DEF Dispatch, TypeOK
<1>2. \A q \in Requests : AbsSt[q] # "active"
  BY DEF Dispatch, AbsSt, TypeOK
<1>3. AbsSt' = [AbsSt EXCEPT ![Head(queue)] = "active"]
  BY <1>1 DEF Dispatch, AbsSt, TypeOK
<1> QED
  BY <1>2, <1>3 DEF Dispatch, Abs!Start

(***************************************************************************)
(* Every step of the driver without cancels is a step of DmaRequests or    *)
(* leaves its variables alone.                                             *)
(***************************************************************************)
LEMMA RefineStep ==
  ASSUME ~CanCancel, IInv, [Next]_vars
  PROVE  [Abs!Next]_Abs!vars
<1>0. TypeOK
  BY DEF IInv
<1>1. ASSUME NEW r \in Requests, Forward(r) PROVE [Abs!Next]_Abs!vars
  BY <1>0, <1>1, ForwardIsSubmit DEF Abs!Next
<1>2. ASSUME NEW r \in Requests,
             CancelQueued(r) \/ CancelMarked(r) \/ CancelUnmarked(r)
      PROVE  FALSE
  BY <1>2 DEF CancelQueued, CancelMarked, CancelUnmarked
<1>3. ASSUME NEW r \in Requests, EvtCancelDma(r) PROVE FALSE
  BY <1>3 DEF IInv, NoCancel, EvtCancelDma, CancelStop, CancelRelease,
              CancelComplete
<1>4. ASSUME NEW r \in Requests, Handler(r) PROVE [Abs!Next]_Abs!vars
  <2>1. CASE DmaInitialize(r) \/ DmaMarkCancelable(r) \/ ErrExitRelease(r)
    BY <2>1, AbsStutter DEF DmaInitialize, DmaMarkCancelable, ErrExitRelease
  <2>2. ASSUME NEW polls \in BOOLEAN, DmaExecute(r, polls)
        PROVE  [Abs!Next]_Abs!vars
    BY <2>2, AbsStutter DEF DmaExecute
  <2>3. CASE DmaPoll(r)
    <3>1. reqSt[r] = "owned" /\ ~cancelCalled[r]
      BY <2>3, HandlerOwns DEF DmaPoll, IInv, NoCancel
    <3>2. /\ Complete(r, IF hw = "done" THEN "success" ELSE "failed")
          /\ UNCHANGED <<queue, cancelReq>>
      BY <2>3, <3>1 DEF DmaPoll
    <3>3. Abs!Finish(r)
      BY <1>0, <3>1, <3>2, CompleteIsFinish
    <3> QED
      BY <3>3 DEF Abs!Next
  <2>4. CASE ErrExitComplete(r)
    <3>1. reqSt[r] = "owned"
      BY <2>4, HandlerOwns DEF ErrExitComplete
    <3>2. Abs!Finish(r)
      BY <1>0, <2>4, <3>1, CompleteIsFinish DEF ErrExitComplete
    <3> QED
      BY <3>2 DEF Abs!Next
  <2> QED
    BY <1>4, <2>1, <2>2, <2>3, <2>4, PollAssumption
    DEF Handler, EvtIoWriteDma, EvtIoReadDma
<1>5. CASE Dispatch
  BY <1>0, <1>5, DispatchIsStart DEF Abs!Next
<1>6. CASE EngineTransferDone \/ InterruptUnmark
  BY <1>6, AbsStutter DEF EngineTransferDone, InterruptUnmark
<1>7. CASE InterruptComplete
  <2>1. dpc \in Requests /\ reqSt[dpc] = "owned"
    BY <1>7 DEF InterruptComplete, IInv, DpcOK, TypeOK
  <2>2. Abs!Finish(dpc)
    BY <1>0, <1>7, <2>1, CompleteIsFinish DEF InterruptComplete
  <2> QED
    BY <2>1, <2>2 DEF Abs!Next
<1>8. CASE Terminated \/ UNCHANGED vars
  BY <1>8, AbsStutter DEF Terminated, vars
<1> QED
  BY <1>1, <1>2, <1>3, <1>4, <1>5, <1>6, <1>7, <1>8 DEF Next

(***************************************************************************)
(* Without client cancels, the engine queue of EvtIoWriteDma/EvtIoReadDma  *)
(* implements DmaRequests: the sequential queue serves forwarded requests  *)
(* one at a time in forwarding order, and the handler, the poll loop or    *)
(* the interrupt path finishes the served request once, with success or   *)
(* failure.                                                                *)
(***************************************************************************)
THEOREM RefinesDmaRequests == ~CanCancel => (Spec => ImplementsDmaRequests)
<1> SUFFICES ASSUME ~CanCancel PROVE Spec => Abs!Spec
  BY DEF ImplementsDmaRequests
<1>1. Init => Abs!Init
  BY DEF Init, Abs!Init, AbsSt
<1>2. IInv /\ [Next]_vars => [Abs!Next]_Abs!vars
  BY RefineStep
<1> QED
  BY <1>1, <1>2, IInvInvariant, PTL DEF Spec, Abs!Spec
=============================================================================
