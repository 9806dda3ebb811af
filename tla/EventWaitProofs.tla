--------------------------- MODULE EventWaitProofs ---------------------------
(***************************************************************************)
(* Proofs about EventWait: type correctness, and that a read reports TRUE *)
(* only for a pulse issued after its own KeClearEvent (NoStaleSignal), for *)
(* every set of readers and lengths and either kind of KEVENT.             *)
(***************************************************************************)
EXTENDS EventWait, TLAPS

(***************************************************************************)
(* The inductive strengthening of NoStaleSignal.  The event can be         *)
(* signaled only while no reader has cleared it (only Init sets it, and    *)
(* every clear and every pulse resets it); a reader that has not been      *)
(* woken has no outcome; a wait satisfied by a signal saw a pulse after the      *)
(* reader's clear; and the value written is TRUE only after such a wait.   *)
(***************************************************************************)
UntouchedWhileSignaled ==
  signaled => \A r \in Readers : rpc[r] \in {"idle", "done"} /\ wake[r] = "none"

UnwokenClean ==
  \A r \in Readers :
    rpc[r] \in {"idle", "cleared", "waiting"} => wake[r] = "none" /\ ~value[r]

SignaledWakeSawPulse ==
  \A r \in Readers : wake[r] = "signaled" => pulsedSince[r]

ValueFromWake ==
  \A r \in Readers : value[r] => wake[r] = "signaled"

EvInv ==
  /\ TypeOK
  /\ UntouchedWhileSignaled
  /\ UnwokenClean
  /\ SignaledWakeSawPulse
  /\ ValueFromWake

\* A pulse satisfies only readers that are waiting.
LEMMA ReleasedWaiters ==
  ASSUME NEW W, NEW woken \in Released(W)
  PROVE  woken \subseteq W
BY DEF Released

LEMMA EvInvInit == Init => EvInv
BY DEF Init, EvInv, TypeOK, UntouchedWhileSignaled, UnwokenClean,
       SignaledWakeSawPulse, ValueFromWake, Statuses

LEMMA EvInvStep == EvInv /\ [Next]_vars => EvInv'
<1> SUFFICES ASSUME EvInv, [Next]_vars PROVE EvInv'
  OBVIOUS
<1> USE DEF EvInv, TypeOK, UntouchedWhileSignaled, UnwokenClean,
            SignaledWakeSawPulse, ValueFromWake, Statuses
<1>1. CASE HandleUserEvent
  <2>1. PICK woken \in Released({r \in Readers : rpc[r] = "waiting"}) :
               /\ rpc' = [r \in Readers |-> IF r \in woken THEN "woken" ELSE rpc[r]]
               /\ wake' = [r \in Readers |-> IF r \in woken THEN "signaled" ELSE wake[r]]
    BY <1>1 DEF HandleUserEvent
  <2>2. woken \subseteq {r \in Readers : rpc[r] = "waiting"}
    BY ReleasedWaiters
  <2>3. QED
    BY <1>1, <2>1, <2>2 DEF HandleUserEvent
<1>2. ASSUME NEW r \in Readers, ReadStart(r) PROVE EvInv'
  <2>1. PICK len \in Lengths :
          \/ /\ len # 1
             /\ Complete(r, "INVALID_PARAMETER")
             /\ UNCHANGED <<signaled, pulsedSince>>
          \/ /\ len = 1
             /\ signaled' = FALSE
             /\ rpc' = [rpc EXCEPT ![r] = "cleared"]
             /\ pulsedSince' = [pulsedSince EXCEPT ![r] = FALSE]
             /\ UNCHANGED <<completions, status>>
    BY <1>2 DEF ReadStart
  <2>2. UNCHANGED <<kind, wake, value, cancelReq>> /\ rpc[r] = "idle"
    BY <1>2 DEF ReadStart
  <2>3. CASE len # 1
    BY <2>1, <2>2, <2>3 DEF Complete
  <2>4. CASE len = 1
    BY <2>1, <2>2, <2>4
  <2>5. QED
    BY <2>3, <2>4
<1>3. ASSUME NEW r \in Readers, ReadWait(r) PROVE EvInv'
  BY <1>3 DEF ReadWait
<1>4. ASSUME NEW r \in Readers, ReadTimeout(r) PROVE EvInv'
  BY <1>4 DEF ReadTimeout
<1>5. ASSUME NEW r \in Readers, ReadFinish(r) PROVE EvInv'
  <2>1. UNCHANGED <<kind, signaled, wake, cancelReq, pulsedSince>> /\ rpc[r] = "woken"
    BY <1>5 DEF ReadFinish
  <2>2. CASE Complete(r, "BUFFER_ERROR") /\ UNCHANGED value
    BY <2>1, <2>2 DEF Complete
  <2>3. CASE Complete(r, "success") /\ value' = [value EXCEPT ![r] = (wake[r] = "signaled")]
    BY <2>1, <2>3 DEF Complete
  <2>4. QED
    BY <1>5, <2>2, <2>3 DEF ReadFinish
<1>6. ASSUME NEW r \in Readers, ClientCancel(r) PROVE EvInv'
  BY <1>6 DEF ClientCancel
<1>7. CASE UNCHANGED vars
  BY <1>7 DEF vars
<1>8. QED
  BY <1>1, <1>2, <1>3, <1>4, <1>5, <1>6, <1>7 DEF Next

(***************************************************************************)
(* EvtReadUserEvent never reports a stale signal: for every set of         *)
(* readers and either kind of event, a read completed with TRUE saw a      *)
(* HandleUserEvent pulse after its KeClearEvent.                           *)
(***************************************************************************)
THEOREM NoStaleSignalHolds == Spec => []NoStaleSignal
<1>1. EvInv => NoStaleSignal
  BY DEF EvInv, ValueFromWake, SignaledWakeSawPulse, NoStaleSignal
<1>2. QED
  BY <1>1, EvInvInit, EvInvStep, PTL DEF Spec

=============================================================================
