------------------------------ MODULE EventWait ------------------------------
(***************************************************************************)
(* The event-wait path of the ADMA driver (src/ADMA_Driver/file_io.c): a   *)
(* read on an EVENTS node (EvtIoRead) calls EvtReadUserEvent, which checks *)
(* the length, clears the node's KEVENT, waits on it for at most 3 s and   *)
(* completes the request with TRUE (signaled) or FALSE (timed out); the    *)
(* user-interrupt callback HandleUserEvent pulses the same KEVENT.         *)
(*                                                                         *)
(* Each reader is a thread of its own; the hardware pulses at any time.    *)
(* KePulseEvent sets the event, satisfies the waits it can and resets it:  *)
(* a notification event releases every waiter, a synchronization event    *)
(* one.  The event is initialized outside file_io.c, so its kind and its   *)
(* initial state are a choice of Init.  The cancel routine               *)
(* EvtCancelReadUserEvent is never registered (the WdfRequestMark-         *)
(* CancelableEx call is commented out), so a client cancel only sets the   *)
(* framework's flag.                                                       *)
(***************************************************************************)
EXTENDS Naturals

CONSTANTS
  Readers,      \* the read requests sent to the EVENTS node
  Lengths       \* read lengths clients pass; sizeof(BOOLEAN) = 1

\* The KEVENT types KeInitializeEvent can give the node's event.
EventKinds == {"Notification", "Synchronization"}

ASSUME LengthsAssumption == Lengths \subseteq Nat

VARIABLES
  kind,         \* the event's type, fixed when the node was initialized
  signaled,     \* the KEVENT's signal state
  rpc,          \* reader thread: "idle", "cleared", "waiting", "woken", "done"
  wake,         \* how the wait ended: "none", "signaled" or "timeout"
  completions,  \* WdfRequestComplete calls made on each request
  status,       \* completion status of each request
  value,        \* the BOOLEAN written to the caller's buffer
  cancelReq,    \* the client has cancelled the request
  pulsedSince   \* history: HandleUserEvent pulsed after the reader's clear

vars == <<kind, signaled, rpc, wake, completions, status, value, cancelReq,
          pulsedSince>>

Statuses == {"none", "success", "INVALID_PARAMETER", "BUFFER_ERROR"}

Init ==
  /\ kind \in EventKinds
  /\ signaled \in BOOLEAN
  /\ rpc = [r \in Readers |-> "idle"]
  /\ wake = [r \in Readers |-> "none"]
  /\ completions = [r \in Readers |-> 0]
  /\ status = [r \in Readers |-> "none"]
  /\ value = [r \in Readers |-> FALSE]
  /\ cancelReq = [r \in Readers |-> FALSE]
  /\ pulsedSince = [r \in Readers |-> FALSE]

\* WdfRequestComplete(request, s), by EvtReadUserEvent on success or by
\* EvtIoRead when EvtReadUserEvent returns a failure status.
Complete(r, s) ==
  /\ completions' = [completions EXCEPT ![r] = @ + 1]
  /\ status' = [status EXCEPT ![r] = s]
  /\ rpc' = [rpc EXCEPT ![r] = "done"]

\* The readers a KePulseEvent satisfies: every waiter of a notification
\* event, one waiter of a synchronization event.
Released(W) ==
  IF kind = "Notification" THEN {W}
  ELSE IF W = {} THEN {{}} ELSE {{w} : w \in W}

-----------------------------------------------------------------------------
\* Fault variant: the KeClearEvent before the wait is left out.
ReadStartNoClear(r) ==
  /\ rpc[r] = "idle"
  /\ \E len \in Lengths :
       \/ /\ len # 1
          /\ Complete(r, "INVALID_PARAMETER")
          /\ UNCHANGED pulsedSince
       \/ /\ len = 1
          /\ rpc' = [rpc EXCEPT ![r] = "cleared"]
          /\ pulsedSince' = [pulsedSince EXCEPT ![r] = FALSE]
          /\ UNCHANGED <<completions, status>>
  /\ UNCHANGED <<kind, signaled, wake, value, cancelReq>>

\* EvtReadUserEvent up to KeClearEvent: a length other than sizeof(BOOLEAN)
\* returns STATUS_INVALID_PARAMETER, which EvtIoRead completes.
ReadStart(r) ==
  /\ rpc[r] = "idle"
  /\ \E len \in Lengths :
       \/ /\ len # 1
          /\ Complete(r, "INVALID_PARAMETER")
          /\ UNCHANGED <<signaled, pulsedSince>>
       \/ /\ len = 1
          /\ signaled' = FALSE
          /\ rpc' = [rpc EXCEPT ![r] = "cleared"]
          /\ pulsedSince' = [pulsedSince EXCEPT ![r] = FALSE]
          /\ UNCHANGED <<completions, status>>
  /\ UNCHANGED <<kind, wake, value, cancelReq>>

\* KeWaitForSingleObject: satisfied at once by a signaled event (which a
\* synchronization event then resets), else the thread blocks.
ReadWait(r) ==
  /\ rpc[r] = "cleared"
  /\ \/ /\ signaled
        /\ signaled' = (kind = "Notification")
        /\ rpc' = [rpc EXCEPT ![r] = "woken"]
        /\ wake' = [wake EXCEPT ![r] = "signaled"]
     \/ /\ ~signaled
        /\ rpc' = [rpc EXCEPT ![r] = "waiting"]
        /\ UNCHANGED <<signaled, wake>>
  /\ UNCHANGED <<kind, completions, status, value, cancelReq, pulsedSince>>

\* Fault variant: the wait is given no timeout (a NULL timeout pointer).
ReadTimeoutNever(r) == FALSE /\ rpc[r] = "waiting" /\ UNCHANGED vars

\* The 3 s timeout expires: STATUS_TIMEOUT, so eventValue = FALSE.
ReadTimeout(r) ==
  /\ rpc[r] = "waiting"
  /\ rpc' = [rpc EXCEPT ![r] = "woken"]
  /\ wake' = [wake EXCEPT ![r] = "timeout"]
  /\ UNCHANGED <<kind, signaled, completions, status, value, cancelReq,
                 pulsedSince>>

\* After the wait: WdfRequestRetrieveOutputMemory may fail (EvtIoRead then
\* completes the request); the buffer is the read's, of length
\* sizeof(BOOLEAN), so the size check and the copy succeed and the request
\* is completed with eventValue.
ReadFinish(r) ==
  /\ rpc[r] = "woken"
  /\ \/ /\ Complete(r, "BUFFER_ERROR")
        /\ UNCHANGED value
     \/ /\ Complete(r, "success")
        /\ value' = [value EXCEPT ![r] = (wake[r] = "signaled")]
  /\ UNCHANGED <<kind, signaled, wake, cancelReq, pulsedSince>>

\* HandleUserEvent: KePulseEvent on the node's KEVENT.
HandleUserEvent ==
  /\ \E woken \in Released({r \in Readers : rpc[r] = "waiting"}) :
       /\ rpc' = [r \in Readers |-> IF r \in woken THEN "woken" ELSE rpc[r]]
       /\ wake' = [r \in Readers |-> IF r \in woken THEN "signaled" ELSE wake[r]]
  /\ signaled' = FALSE
  /\ pulsedSince' = [r \in Readers |->
                       pulsedSince[r] \/ rpc[r] \in {"cleared", "waiting"}]
  /\ UNCHANGED <<kind, completions, status, value, cancelReq>>

\* The client cancels a pending read; the request is not cancelable, so
\* the framework only records it.
ClientCancel(r) ==
  /\ rpc[r] # "done"
  /\ ~cancelReq[r]
  /\ cancelReq' = [cancelReq EXCEPT ![r] = TRUE]
  /\ UNCHANGED <<kind, signaled, rpc, wake, completions, status, value,
                 pulsedSince>>

Next ==
  \/ HandleUserEvent
  \/ \E r \in Readers :
       \/ ReadStart(r) \/ ReadWait(r) \/ ReadTimeout(r) \/ ReadFinish(r)
       \/ ClientCancel(r)

\* The reader threads run and their timeouts expire; the hardware and the
\* clients act only if they do.
Fairness ==
  \A r \in Readers :
    WF_vars(ReadStart(r) \/ ReadWait(r) \/ ReadTimeout(r) \/ ReadFinish(r))

Spec == Init /\ [][Next]_vars
FairSpec == Spec /\ Fairness

-----------------------------------------------------------------------------
TypeOK ==
  /\ kind \in EventKinds
  /\ signaled \in BOOLEAN
  /\ rpc \in [Readers -> {"idle", "cleared", "waiting", "woken", "done"}]
  /\ wake \in [Readers -> {"none", "signaled", "timeout"}]
  /\ completions \in [Readers -> Nat]
  /\ status \in [Readers -> Statuses]
  /\ value \in [Readers -> BOOLEAN]
  /\ cancelReq \in [Readers -> BOOLEAN]
  /\ pulsedSince \in [Readers -> BOOLEAN]

(***************************************************************************)
(* A read reports TRUE only for a HandleUserEvent pulse issued after its   *)
(* own KeClearEvent: a signal left from before the read, or the initial    *)
(* state of the event, never satisfies it (spec 4.4 and 8).                *)
(***************************************************************************)
NoStaleSignal ==
  \A r \in Readers : status[r] = "success" /\ value[r] => pulsedSince[r]

(***************************************************************************)
(* A read that was waiting for the event when HandleUserEvent pulsed it,   *)
(* or had cleared it and was about to wait, reports TRUE (spec 4.4:        *)
(* waitForEvent returns true when the event is signaled).                  *)
(***************************************************************************)
SignalNotLost ==
  \A r \in Readers : status[r] = "success" /\ pulsedSince[r] => value[r]

(***************************************************************************)
(* Every read on the EVENTS node is eventually completed, whether or not   *)
(* the hardware ever signals: the wait is bounded by its 3 s timeout.      *)
(***************************************************************************)
ReadsComplete == <>(\A r \in Readers : rpc[r] = "done")

=============================================================================
