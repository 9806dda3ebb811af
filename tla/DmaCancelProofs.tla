--------------------------- MODULE DmaCancelProofs ---------------------------
(***************************************************************************)
(* Proofs about one DMA engine of the ADMA driver when clients may cancel  *)
(* their requests.  Cancels break the invariants of DmaTransactionProofs   *)
(* (a request can be completed twice, the hardware can run a released     *)
(* transaction), so the results here rest on CInv, an inductive invariant *)
(* that holds whatever the clients do: it tracks which step each handler,  *)
(* EvtCancelDma and the completion path are at, rather than which request  *)
(* the queue owns.                                                         *)
(***************************************************************************)
EXTENDS DmaTransactionProofs

(***************************************************************************)
(* Removing a request from a queue without duplicates that holds it leaves *)
(* a queue without duplicates which holds every other entry, and only      *)
(* those, with the order kept.                                             *)
(***************************************************************************)
LEMMA DequeueDistinct ==
  ASSUME TypeOK, NEW r, NEW c \in 1..Len(queue), queue[c] = r,
         \A i, j \in 1..Len(queue) : queue[i] = queue[j] => i = j,
         queue' = Dequeue(queue, r)
  PROVE  /\ queue' \in Seq(Requests)
         /\ Len(queue') = Len(queue) - 1
         /\ \A j \in 1..Len(queue') : \E k \in 1..Len(queue) :
              k # c /\ queue'[j] = queue[k]
         /\ \A k \in 1..Len(queue) : k # c =>
              \E j \in 1..Len(queue') : queue'[j] = queue[k]
         /\ \A i, j \in 1..Len(queue') : queue'[i] = queue'[j] => i = j
<1> DEFINE d == Dequeue(queue, r)
<1>1. (CHOOSE k \in 1..Len(queue) : queue[k] = r) = c
  OBVIOUS
<1>2. d = [j \in 1..(Len(queue) - 1) |-> IF j < c THEN queue[j] ELSE queue[j + 1]]
  BY <1>1 DEF Dequeue
<1>3. d \in Seq(Requests)
  BY DequeueType DEF TypeOK
<1>4. Len(queue) - 1 \in Nat
  OBVIOUS
<1>5. Len(d) = Len(queue) - 1
  <2>1. DOMAIN d = 1..(Len(queue) - 1)
    BY <1>2
  <2> QED
    BY <1>3, <1>4, <2>1
<1>6. \A j \in 1..Len(d) : d[j] = IF j < c THEN queue[j] ELSE queue[j + 1]
  BY <1>2, <1>5
<1>7. \A j \in 1..Len(d) : \E k \in 1..Len(queue) : k # c /\ d[j] = queue[k]
  <2> SUFFICES ASSUME NEW j \in 1..Len(d)
               PROVE  \E k \in 1..Len(queue) : k # c /\ d[j] = queue[k]
    OBVIOUS
  <2>1. CASE j < c
    BY <1>5, <1>6, <2>1
  <2>2. CASE ~(j < c)
    BY <1>5, <1>6, <2>2
  <2> QED
    BY <2>1, <2>2
<1>8. \A k \in 1..Len(queue) : k # c => \E j \in 1..Len(d) : d[j] = queue[k]
  <2> SUFFICES ASSUME NEW k \in 1..Len(queue), k # c
               PROVE  \E j \in 1..Len(d) : d[j] = queue[k]
    OBVIOUS
  <2>1. CASE k < c
    BY <1>5, <1>6, <2>1
  <2>2. CASE k > c
    <3>1. k - 1 \in 1..Len(d) /\ ~(k - 1 < c)
      BY <1>5, <2>2
    <3>2. d[k - 1] = queue[k]
      BY <1>6, <3>1
    <3> QED
      BY <3>1, <3>2
  <2> QED
    BY <2>1, <2>2
<1>9. \A i, j \in 1..Len(d) : d[i] = d[j] => i = j
  BY <1>5, <1>6
<1> QED
  BY <1>3, <1>5, <1>7, <1>8, <1>9

\* A request not yet dispatched has no handler running.
Fresh == \A r \in Requests : reqSt[r] \in {"new", "queued"} => hpc[r] = "idle"

\* Before WdfRequestMarkCancelableEx the request is not cancelable and
\* EvtCancelDma has not started for it.
Early ==
  \A r \in Requests :
    hpc[r] \in {"idle", "init"} => ~cancelable[r] /\ cpc[r] = "idle"

\* A handler about to initialize the transaction runs for the owned request.
InitOwned == \A r \in Requests : hpc[r] = "init" => reqSt[r] = "owned"

\* EvtCancelDma runs only for a request the framework called it for.
CancelCalledOK == \A r \in Requests : cpc[r] # "idle" => cancelCalled[r]

\* The completion path claims only a request whose handler has passed its
\* initialize step, and only with interrupts enabled.
DpcLate == dpc # NoReq => hpc[dpc] \notin {"idle", "init"} /\ ~Poll

\* A held transaction belongs to the owned request, whose handler has
\* initialized it and whose EvtCancelDma has not released it yet; no other
\* handler is then about to initialize.
TxnHeld ==
  txn # "free" =>
    /\ txnReq \in Requests
    /\ reqSt[txnReq] = "owned"
    /\ hpc[txnReq] \in {"mark", "exec", "poll", "errRelease", "end"}
    /\ cpc[txnReq] \in {"idle", "stop", "release"}
    /\ \A p \in Requests : hpc[p] # "init"

\* An initialized transaction's handler has not yet executed it.
TxnInit == txn = "init" => hpc[txnReq] \in {"mark", "exec", "errRelease"}

\* An executing transaction is the one the hardware was started with.
ExecHw == txn = "exec" => hwReq = txnReq

\* Started hardware runs some request's transfer.
HwReqOK == hw # "idle" => hwReq \in Requests

\* Only the H2C handler of a polled engine polls.
PollMode == \A r \in Requests : hpc[r] = "poll" => Poll /\ Dir = "H2C"

\* On a polled engine, a handler not yet cancelled between initialize and
\* poll runs for the owned request.
PollOwned ==
  Poll => \A r \in Requests :
            hpc[r] \in {"mark", "exec", "poll"} /\ ~cancelCalled[r]
              => reqSt[r] = "owned"

\* A handler polling, not cancelled, polls its own transfer.
PollHw == \A r \in Requests : hpc[r] = "poll" /\ ~cancelCalled[r] => hwReq = r

\* Every queued request is in the queue.
QueuedIn ==
  \A r \in Requests :
    reqSt[r] = "queued" => \E i \in 1..Len(queue) : queue[i] = r

\* The inductive invariant: CInv holds initially and every step keeps it.
CInv ==
  /\ TypeOK /\ QueueOK /\ QueuedIn /\ OneOwned /\ Fresh /\ Early /\ InitOwned
  /\ CancelCalledOK /\ DpcLate /\ TxnHeld /\ TxnInit /\ ExecHw /\ HwReqOK
  /\ HwDoneOK /\ PollMode /\ PollOwned /\ PollHw /\ DpcXfer
  /\ SuccessOnlyIfTransferred

\* The conjuncts of CInv that do not mention the queue.
Core ==
  /\ OneOwned /\ Fresh /\ Early /\ InitOwned
  /\ CancelCalledOK /\ DpcLate /\ TxnHeld /\ TxnInit /\ ExecHw /\ HwReqOK
  /\ HwDoneOK /\ PollMode /\ PollOwned /\ PollHw /\ DpcXfer
  /\ SuccessOnlyIfTransferred

LEMMA CInvCore == CInv <=> TypeOK /\ QueueOK /\ QueuedIn /\ Core
  BY DEF CInv, Core

LEMMA CInvInit == Init => CInv
  BY NoReqAssumption, TypeInit
  DEF Init, CInv, QueueOK, QueuedIn, OneOwned, Fresh, Early, InitOwned,
      CancelCalledOK, DpcLate, TxnHeld, TxnInit, ExecHw, HwReqOK, HwDoneOK,
      PollMode, PollOwned, PollHw, DpcXfer, SuccessOnlyIfTransferred

\* A step that leaves the queue and the request states alone keeps the
\* queue facts.
LEMMA QueueKept ==
  ASSUME QueueOK, QueuedIn, UNCHANGED <<queue, reqSt>>
  PROVE  QueueOK' /\ QueuedIn'
  BY DEF QueueOK, QueuedIn

\* Forwarding a new request appends it to the queue.
LEMMA ForwardQueue ==
  ASSUME TypeOK, QueueOK, QueuedIn, NEW r \in Requests, Forward(r)
  PROVE  QueueOK' /\ QueuedIn'
<1>1. \A i \in 1..Len(queue) : queue[i] # r
  BY DEF Forward, QueueOK
<1>2. /\ Len(queue') = Len(queue) + 1
      /\ queue'[Len(queue) + 1] = r
      /\ \A i \in 1..Len(queue) : queue'[i] = queue[i]
  BY DEF Forward, TypeOK
<1>3. QueueOK'
  BY <1>1, <1>2 DEF Forward, QueueOK, TypeOK
<1>4. QueuedIn'
  BY <1>2 DEF Forward, QueuedIn, TypeOK
<1> QED
  BY <1>3, <1>4

\* Dispatch hands over the queued head and keeps the rest of the queue.
LEMMA DispatchQueue ==
  ASSUME TypeOK, QueueOK, QueuedIn, Dispatch
  PROVE  QueueOK' /\ QueuedIn' /\ reqSt[Head(queue)] = "queued"
<1> DEFINE h == Head(queue)
<1>1. /\ Len(queue) > 0 /\ h = queue[1]
      /\ Len(queue') = Len(queue) - 1
      /\ \A i \in 1..Len(queue') : queue'[i] = queue[i + 1]
  BY DEF Dispatch, TypeOK
<1>2. reqSt[h] = "queued"
  BY <1>1 DEF QueueOK
<1>3. \A i \in 1..Len(queue') : queue'[i] # h
  BY <1>1 DEF QueueOK
<1>4. QueueOK'
  BY <1>1, <1>3 DEF Dispatch, QueueOK, TypeOK
<1>5. QueuedIn'
  <2> SUFFICES ASSUME NEW q \in Requests, reqSt'[q] = "queued"
               PROVE  \E i \in 1..Len(queue') : queue'[i] = q
    BY DEF QueuedIn
  <2>1. q # h /\ reqSt[q] = "queued"
    BY DEF Dispatch, TypeOK
  <2>2. PICK k \in 1..Len(queue) : queue[k] = q
    BY <2>1 DEF QueuedIn
  <2>3. k # 1
    BY <1>1, <2>1, <2>2
  <2>4. k - 1 \in 1..Len(queue') /\ queue'[k - 1] = q
    BY <1>1, <2>2, <2>3
  <2> QED
    BY <2>4
<1> QED
  BY <1>2, <1>4, <1>5

\* The framework completes a cancelled queued request and takes it out of
\* the queue.
LEMMA CancelQueuedQueue ==
  ASSUME TypeOK, QueueOK, QueuedIn, NEW r \in Requests, CancelQueued(r)
  PROVE  QueueOK' /\ QueuedIn'
<1>1. PICK c \in 1..Len(queue) : queue[c] = r
  BY DEF CancelQueued, QueuedIn
<1>2. \A i, j \in 1..Len(queue) : queue[i] = queue[j] => i = j
  BY DEF QueueOK
<1>3. /\ queue' \in Seq(Requests)
      /\ Len(queue') = Len(queue) - 1
      /\ \A j \in 1..Len(queue') : \E k \in 1..Len(queue) :
           k # c /\ queue'[j] = queue[k]
      /\ \A k \in 1..Len(queue) : k # c =>
           \E j \in 1..Len(queue') : queue'[j] = queue[k]
      /\ \A i, j \in 1..Len(queue') : queue'[i] = queue'[j] => i = j
  <2>1. queue' = Dequeue(queue, r)
    BY DEF CancelQueued
  <2> QED
    BY <1>1, <1>2, <2>1, DequeueDistinct
<1>4. reqSt' = [reqSt EXCEPT ![r] = "done"]
  BY DEF CancelQueued, Complete
<1>5. QueueOK'
  <2> SUFFICES ASSUME NEW j \in 1..Len(queue')
               PROVE  reqSt'[queue'[j]] = "queued"
    BY <1>3 DEF QueueOK
  <2>1. PICK k \in 1..Len(queue) : k # c /\ queue'[j] = queue[k]
    BY <1>3
  <2>2. queue[k] # r /\ reqSt[queue[k]] = "queued"
    BY <1>1, <1>2, <2>1 DEF QueueOK
  <2> QED
    BY <1>4, <2>1, <2>2 DEF TypeOK
<1>6. QueuedIn'
  <2> SUFFICES ASSUME NEW q \in Requests, reqSt'[q] = "queued"
               PROVE  \E j \in 1..Len(queue') : queue'[j] = q
    BY DEF QueuedIn
  <2>1. q # r /\ reqSt[q] = "queued"
    BY <1>4 DEF TypeOK
  <2>2. PICK k \in 1..Len(queue) : queue[k] = q
    BY <2>1 DEF QueuedIn
  <2> QED
    BY <1>1, <1>3, <2>1, <2>2
<1> QED
  BY <1>5, <1>6

\* Completing a request that is not in the queue keeps the queue facts.
LEMMA QueueDone ==
  ASSUME TypeOK, QueueOK, QueuedIn, NEW r \in Requests, reqSt[r] # "queued",
         UNCHANGED queue, reqSt' = [reqSt EXCEPT ![r] = "done"]
  PROVE  QueueOK' /\ QueuedIn'
<1>1. \A i \in 1..Len(queue) : queue[i] # r
  BY DEF QueueOK
<1>2. QueueOK'
  BY <1>1 DEF QueueOK, TypeOK
<1>3. QueuedIn'
  BY DEF QueuedIn, TypeOK
<1> QED
  BY <1>2, <1>3

(***************************************************************************)
(* Every step of the engine, with client cancels, keeps CInv.              *)
(***************************************************************************)
LEMMA CInvStep ==
  ASSUME CInv, [Next]_vars
  PROVE  CInv'
<1>. USE DEF HandlerSteps, CancelSteps, Statuses, OneOwned, Fresh, Early,
             InitOwned, CancelCalledOK, DpcLate, TxnHeld, TxnInit, ExecHw,
             HwReqOK, HwDoneOK, PollMode, PollOwned, PollHw, DpcXfer,
             SuccessOnlyIfTransferred
<1>0. TypeOK /\ QueueOK /\ QueuedIn /\ Core /\ TypeOK'
  BY TypeStep, CInvCore
<1>1. ASSUME NEW r \in Requests, Forward(r) PROVE CInv'
  <2>1. QueueOK' /\ QueuedIn'
    BY <1>0, <1>1, ForwardQueue
  <2>2. Core'
    BY <1>0, <1>1 DEF Core, Forward, TypeOK
  <2> QED
    BY <1>0, <2>1, <2>2 DEF CInv, Core
<1>2. ASSUME NEW r \in Requests, CancelQueued(r) PROVE CInv'
  <2>1. QueueOK' /\ QueuedIn'
    BY <1>0, <1>2, CancelQueuedQueue
  <2>2. hpc[r] = "idle" /\ reqSt[r] = "queued"
    BY <1>0, <1>2 DEF Core, CancelQueued
  <2>3. Core'
    BY <1>0, <1>2, <2>2 DEF Core, CancelQueued, Complete, TypeOK
  <2> QED
    BY <1>0, <2>1, <2>3 DEF CInv, Core
<1>3. ASSUME NEW r \in Requests, CancelMarked(r) \/ CancelUnmarked(r)
      PROVE  CInv'
  <2>1. QueueOK' /\ QueuedIn'
    BY <1>0, <1>3, QueueKept DEF CancelMarked, CancelUnmarked
  <2>2. ASSUME CancelMarked(r) PROVE Core'
    <3>1. hpc[r] \notin {"idle", "init"}
      BY <1>0, <2>2 DEF Core, CancelMarked
    <3> QED
      BY <1>0, <2>2, <3>1 DEF Core, CancelMarked, TypeOK
  <2>3. ASSUME CancelUnmarked(r) PROVE Core'
    BY <1>0, <2>3 DEF Core, CancelUnmarked, TypeOK
  <2>4. Core'
    BY <1>3, <2>2, <2>3
  <2> QED
    BY <1>0, <2>1, <2>4 DEF CInv, Core
<1>4. ASSUME NEW r \in Requests, EvtCancelDma(r) PROVE CInv'
  <2>1. CASE CancelStop(r) \/ CancelRelease(r)
    <3>1. QueueOK' /\ QueuedIn'
      BY <1>0, <2>1, QueueKept DEF CancelStop, CancelRelease
    <3>2. Core'
      BY <1>0, <2>1 DEF Core, CancelStop, CancelRelease, Release, TypeOK
    <3> QED
      BY <1>0, <3>1, <3>2 DEF CInv, Core
  <2>2. CASE CancelComplete(r)
    <3>1. hpc[r] \notin {"idle", "init"} /\ reqSt[r] \notin {"new", "queued"}
      BY <1>0, <2>2 DEF Core, CancelComplete, TypeOK
    <3>2. txn # "free" => txnReq # r
      BY <1>0, <2>2 DEF Core, CancelComplete
    <3>3. QueueOK' /\ QueuedIn'
      BY <1>0, <2>2, <3>1, QueueDone DEF CancelComplete, Complete
    <3>4. Core'
      BY <1>0, <2>2, <3>1, <3>2 DEF Core, CancelComplete, Complete, TypeOK
    <3> QED
      BY <1>0, <3>3, <3>4 DEF CInv, Core
  <2> QED
    BY <1>4, <2>1, <2>2 DEF EvtCancelDma
<1>5. CASE Dispatch
  <2>1. QueueOK' /\ QueuedIn' /\ reqSt[Head(queue)] = "queued"
    BY <1>0, <1>5, DispatchQueue
  <2>2. Head(queue) \in Requests
    BY <1>0, <1>5 DEF Dispatch, TypeOK
  <2>3. hpc[Head(queue)] = "idle" /\ txn = "free"
    BY <1>0, <1>5, <2>1, <2>2 DEF Core, Dispatch
  <2>4. dpc # Head(queue)
    BY <1>0, <2>2, <2>3, NoReqAssumption DEF Core
  <2>5. /\ reqSt' = [reqSt EXCEPT ![Head(queue)] = "owned"]
        /\ hpc' = [hpc EXCEPT ![Head(queue)] = "init"]
        /\ UNCHANGED <<completions, status, cancelReq, cancelable,
                       cancelCalled, cpc, dpc, txn, txnReq, hw, hwReq, xfer>>
        /\ \A q \in Requests : reqSt[q] # "owned"
    BY <1>5 DEF Dispatch
  <2>6. (OneOwned /\ Fresh /\ Early /\ InitOwned /\ CancelCalledOK)'
    BY <1>0, <2>2, <2>3, <2>5 DEF Core, TypeOK
  <2>7. (DpcLate /\ TxnHeld /\ TxnInit /\ ExecHw /\ HwReqOK /\ HwDoneOK)'
    BY <1>0, <2>2, <2>3, <2>4, <2>5 DEF Core, TypeOK
  <2>8. (PollMode /\ PollOwned /\ PollHw /\ DpcXfer
         /\ SuccessOnlyIfTransferred)'
    BY <1>0, <2>2, <2>5 DEF Core, TypeOK
  <2> QED
    BY <1>0, <2>1, <2>6, <2>7, <2>8 DEF CInv, Core
<1>6. CASE EngineTransferDone \/ InterruptUnmark
  <2>1. QueueOK' /\ QueuedIn'
    BY <1>0, <1>6, QueueKept DEF EngineTransferDone, InterruptUnmark
  <2>2. Core'
    <3>1. CASE EngineTransferDone
      BY <1>0, <3>1 DEF Core, EngineTransferDone, TypeOK
    <3>2. CASE InterruptUnmark /\ txn = "exec" /\ cancelable[txnReq]
      BY <1>0, <3>2 DEF Core, InterruptUnmark, TypeOK
    <3>3. CASE InterruptUnmark /\ ~(txn = "exec" /\ cancelable[txnReq])
      BY <1>0, <3>3 DEF Core, InterruptUnmark, TypeOK
    <3> QED
      BY <1>6, <3>1, <3>2, <3>3
  <2> QED
    BY <1>0, <2>1, <2>2 DEF CInv, Core
<1>7. CASE InterruptComplete
  <2>1. dpc \in Requests /\ hpc[dpc] \notin {"idle", "init"} /\ ~Poll
        /\ xfer[dpc]
    BY <1>0, <1>7 DEF Core, InterruptComplete, TypeOK
  <2>2. reqSt[dpc] # "queued"
    BY <1>0, <2>1 DEF Core
  <2>3. QueueOK' /\ QueuedIn'
    BY <1>0, <1>7, <2>1, <2>2, QueueDone DEF InterruptComplete, Complete
  <2>4. Core'
    BY <1>0, <1>7, <2>1 DEF Core, InterruptComplete, Complete, Release, TypeOK
  <2> QED
    BY <1>0, <2>3, <2>4 DEF CInv, Core
<1>8. CASE Terminated \/ UNCHANGED vars
  <2>1. UNCHANGED vars
    BY <1>8 DEF Terminated
  <2> QED
    BY <2>1 DEF vars, CInv, TypeOK, QueueOK, QueuedIn
<1>9. ASSUME NEW r \in Requests, Handler(r) PROVE CInv'
  <2>1. CASE DmaInitialize(r)
    <3>1. QueueOK' /\ QueuedIn'
      BY <1>0, <2>1, QueueKept DEF DmaInitialize
    <3>2. reqSt[r] = "owned" /\ ~cancelable[r] /\ cpc[r] = "idle"
      BY <1>0, <2>1 DEF Core, DmaInitialize
    <3>3. \A p \in Requests : hpc[p] = "init" => p = r
      BY <1>0, <3>2 DEF Core
    <3>4. ASSUME txn = "free", txn' = "init" PROVE Core'
      <4>1. /\ txnReq' = r /\ hpc' = [hpc EXCEPT ![r] = "mark"]
            /\ UNCHANGED <<queue, reqSt, completions, status, cancelReq,
                           cancelable, cancelCalled, cpc, dpc, hw, hwReq, xfer>>
        BY <2>1, <3>4 DEF DmaInitialize
      <4>2. (OneOwned /\ Fresh /\ Early /\ InitOwned /\ CancelCalledOK
             /\ DpcLate)'
        BY <1>0, <3>2, <3>4, <4>1 DEF Core, TypeOK
      <4>3. (TxnHeld /\ TxnInit /\ ExecHw /\ HwReqOK /\ HwDoneOK)'
        BY <1>0, <3>2, <3>3, <3>4, <4>1 DEF Core, TypeOK
      <4>4. (PollMode /\ PollOwned /\ PollHw /\ DpcXfer
             /\ SuccessOnlyIfTransferred)'
        BY <1>0, <3>2, <3>4, <4>1 DEF Core, TypeOK
      <4> QED
        BY <4>2, <4>3, <4>4 DEF Core
    <3>5. ASSUME ~(txn = "free" /\ txn' = "init") PROVE Core'
      <4>1. /\ hpc' = [hpc EXCEPT ![r] = "errRelease"]
            /\ UNCHANGED <<queue, reqSt, completions, status, cancelReq,
                           cancelable, cancelCalled, cpc, dpc, txn, txnReq,
                           hw, hwReq, xfer>>
        BY <2>1, <3>5 DEF DmaInitialize
      <4> QED
        BY <1>0, <3>2, <4>1 DEF Core, TypeOK
    <3>6. Core'
      BY <3>4, <3>5
    <3> QED
      BY <1>0, <3>1, <3>6 DEF CInv, Core
  <2>2. CASE DmaMarkCancelable(r)
    <3>1. QueueOK' /\ QueuedIn'
      BY <1>0, <2>2, QueueKept DEF DmaMarkCancelable
    <3>2. Core'
      BY <1>0, <2>2 DEF Core, DmaMarkCancelable, TypeOK
    <3> QED
      BY <1>0, <3>1, <3>2 DEF CInv, Core
  <2>3. ASSUME NEW polls \in BOOLEAN, DmaExecute(r, polls),
               polls => Poll /\ Dir = "H2C"
        PROVE  CInv'
    <3>1. QueueOK' /\ QueuedIn'
      BY <1>0, <2>3, QueueKept DEF DmaExecute
    <3>2. CASE txn = "init" /\ txn' = "exec"
      <4>1. txnReq \in Requests /\ reqSt[txnReq] = "owned"
        BY <1>0, <3>2 DEF Core
      <4>2. Poll /\ ~cancelCalled[r] => txnReq = r
        BY <1>0, <2>3, <4>1 DEF Core, DmaExecute
      <4>3. Core'
        BY <1>0, <2>3, <3>2, <4>1, <4>2 DEF Core, DmaExecute, TypeOK
      <4> QED
        BY <1>0, <3>1, <4>3 DEF CInv, Core
    <3>3. CASE ~(txn = "init" /\ txn' = "exec")
      <4>1. /\ hpc' = [hpc EXCEPT ![r] = "errRelease"]
            /\ UNCHANGED <<txn, hw, hwReq>>
        BY <2>3, <3>3 DEF DmaExecute
      <4>2. Core'
        BY <1>0, <2>3, <4>1 DEF Core, DmaExecute, TypeOK
      <4> QED
        BY <1>0, <3>1, <4>2 DEF CInv, Core
    <3> QED
      BY <3>2, <3>3
  <2>4. CASE DmaPoll(r)
    <3>1. Poll /\ Dir = "H2C" /\ reqSt[r] # "queued"
      BY <1>0, <2>4 DEF Core, DmaPoll, TypeOK
    <3>2. CASE cancelCalled[r]
      <4>1. QueueOK' /\ QueuedIn'
        BY <1>0, <2>4, <3>2, QueueKept DEF DmaPoll
      <4>2. Core'
        BY <1>0, <2>4, <3>2 DEF Core, DmaPoll, TypeOK
      <4> QED
        BY <1>0, <4>1, <4>2 DEF CInv, Core
    <3>3. CASE ~cancelCalled[r]
      <4>1. hwReq = r /\ (hw = "done" => xfer[r])
        BY <1>0, <2>4, <3>3 DEF Core, DmaPoll
      <4>2. /\ reqSt' = [reqSt EXCEPT ![r] = "done"]
            /\ status' = [status EXCEPT ![r] = IF hw = "done" THEN "success"
                                                              ELSE "failed"]
            /\ cancelable' = [cancelable EXCEPT ![r] = FALSE]
            /\ hpc' = [hpc EXCEPT ![r] = "end"]
            /\ txn' = "free" /\ txnReq' = NoReq
            /\ UNCHANGED <<queue, cancelReq, cancelCalled, cpc, dpc, hw,
                           hwReq, xfer>>
        BY <2>4, <3>3 DEF DmaPoll, Release, Complete
      <4>3. QueueOK' /\ QueuedIn'
        BY <1>0, <3>1, <4>2, QueueDone
      <4>4. Core'
        BY <1>0, <3>1, <4>1, <4>2 DEF Core, TypeOK
      <4> QED
        BY <1>0, <4>3, <4>4 DEF CInv, Core
    <3> QED
      BY <3>2, <3>3
  <2>5. CASE ErrExitRelease(r)
    <3>1. QueueOK' /\ QueuedIn'
      BY <1>0, <2>5, QueueKept DEF ErrExitRelease
    <3>2. Core'
      BY <1>0, <2>5 DEF Core, ErrExitRelease, Release, TypeOK
    <3> QED
      BY <1>0, <3>1, <3>2 DEF CInv, Core
  <2>6. CASE ErrExitComplete(r)
    <3>1. reqSt[r] # "queued" /\ (txn # "free" => txnReq # r)
      BY <1>0, <2>6 DEF Core, ErrExitComplete, TypeOK
    <3>2. QueueOK' /\ QueuedIn'
      BY <1>0, <2>6, <3>1, QueueDone DEF ErrExitComplete, Complete
    <3>3. Core'
      BY <1>0, <2>6, <3>1 DEF Core, ErrExitComplete, Complete, TypeOK
    <3> QED
      BY <1>0, <3>2, <3>3 DEF CInv, Core
  <2> QED
    BY <1>9, <2>1, <2>2, <2>3, <2>4, <2>5, <2>6, PollAssumption
    DEF Handler, EvtIoWriteDma, EvtIoReadDma
<1> QED
  BY <1>1, <1>2, <1>3, <1>4, <1>5, <1>6, <1>7, <1>8, <1>9 DEF Next

(***************************************************************************)
(* CInv holds in every reachable state, with client cancels allowed, for   *)
(* every set of requests, either direction and either poll mode.           *)
(***************************************************************************)
LEMMA CInvInvariant == Spec => []CInv
<1>1. Init => CInv
  BY CInvInit
<1>2. CInv /\ [Next]_vars => CInv'
  BY CInvStep
<1> QED
  BY <1>1, <1>2, PTL DEF Spec

(***************************************************************************)
(* Even when clients cancel, a completed request never leaves              *)
(* engine->dmaTransaction behind: whichever of ErrExit, the poll loop, the *)
(* interrupt completion path and EvtCancelDma completes a request, the     *)
(* transaction it held has been released first, and a request still        *)
(* holding it is the one the queue handed over.                            *)
(***************************************************************************)
THEOREM TxnNotLeakedHolds == Spec => []TxnNotLeaked
<1>1. CInv => TxnNotLeaked
  BY DEF CInv, TxnHeld, TxnNotLeaked
<1> QED
  BY <1>1, CInvInvariant, PTL

(***************************************************************************)
(* Even when clients cancel, a request is completed with STATUS_SUCCESS,   *)
(* by the poll loop or the interrupt completion path, only after the       *)
(* engine finished its own transfer: a request whose transaction was       *)
(* released by EvtCancelDma and reused by the next request is never        *)
(* finalized with that request's transfer.                                 *)
(***************************************************************************)
THEOREM SuccessOnlyIfTransferredHolds == Spec => []SuccessOnlyIfTransferred
<1>1. CInv => SuccessOnlyIfTransferred
  BY DEF CInv
<1> QED
  BY <1>1, CInvInvariant, PTL
=============================================================================
