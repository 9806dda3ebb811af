------------------------- MODULE RequestRouterProofs -------------------------
(***************************************************************************)
(* Proofs about the routing layer (module RequestRouter), for every        *)
(* FileNameLUT, BAR configuration and set of files, requests and inputs.   *)
(***************************************************************************)
EXTENDS RequestRouter, TLAPS

(***************************************************************************)
(* The inductive form of RoutedOnce: a request that is new, inside         *)
(* IoctlSetAddrMode or forwarded has not been completed, and a finished    *)
(* request has been completed exactly once.  Every completing step starts  *)
(* from a new request, or from one between the two steps of ADDRMODE_SET.  *)
(* A file opened successfully has one of the LUT's node types, so the      *)
(* switches of EvtIoRead and EvtIoWrite always take an arm.                *)
(***************************************************************************)
RoutedInv ==
  /\ TypeOK
  /\ \A f \in Files : fileSt[f] = "open" => devType[f] \in DevTypes
  /\ \A r \in Reqs :
       /\ reqSt[r] \in {"new", "setting", "forwarded"} => completions[r] = 0
       /\ reqSt[r] = "done" => completions[r] = 1

LEMMA RoutedInit == Init => RoutedInv
<1> SUFFICES ASSUME Init PROVE RoutedInv
  OBVIOUS
<1>1. /\ fileSt \in [Files -> {"none", "open", "failed"}]
      /\ devType \in [Files -> DevTypes \cup {"UNKNOWN"}]
      /\ reqSt \in [Reqs -> {"new", "setting", "done", "forwarded"}]
      /\ completions \in [Reqs -> Nat]
      /\ status \in [Reqs -> Statuses]
  BY DEF Init, Statuses
<1>2. mmio \subseteq [bar : BarTypes, off : Offsets, len : Lengths,
                      width : {1, 2, 4}, count : Nat]
  BY DEF Init
<1>3. /\ perfStarted \in [Dirs -> BOOLEAN]
      /\ ctrlNonIncr \in [Dirs -> BOOLEAN]
      /\ addressMode \in [Dirs -> {0} \cup ModeValues]
      /\ setting \in [Reqs -> [eng : Dirs, val : {0} \cup ModeValues]]
      /\ crashed \in BOOLEAN
  BY DEF Init, Dirs
<1>4. \A f \in Files : fileSt[f] = "open" => devType[f] \in DevTypes
  BY DEF Init
<1>5. \A r \in Reqs :
        /\ reqSt[r] \in {"new", "setting", "forwarded"} => completions[r] = 0
        /\ reqSt[r] = "done" => completions[r] = 1
  BY DEF Init
<1> QED
  BY <1>1, <1>2, <1>3, <1>4, <1>5 DEF RoutedInv, TypeOK

\* A completing or forwarding step of a new request keeps the invariant.
LEMMA NewStep ==
  ASSUME RoutedInv, NEW r \in Reqs, reqSt[r] = "new",
         \/ Complete(r, "success") \/ Complete(r, "INVALID_DEVICE_REQUEST")
         \/ Complete(r, "BUFFER_ERROR") \/ Complete(r, "FORWARD_ERROR")
         \/ Complete(r, "NOT_SUPPORTED") \/ Forward(r),
         UNCHANGED <<fileSt, devType>>
  PROVE  \A q \in Reqs :
           /\ reqSt'[q] \in {"new", "setting", "forwarded"} => completions'[q] = 0
           /\ reqSt'[q] = "done" => completions'[q] = 1
BY DEF RoutedInv, TypeOK, Complete, Forward

(***************************************************************************)
(* What one EvtIoRead or EvtIoWrite step does: the file's node type takes *)
(* one arm of the switch, which forwards, completes without touching the   *)
(* BAR, or completes after one access recorded in mmio.                    *)
(***************************************************************************)
LEMMA IoStep ==
  ASSUME RoutedInv, NEW r \in Reqs, EvtIoRead(r) \/ EvtIoWrite(r)
  PROVE  /\ \/ Complete(r, "success") \/ Complete(r, "INVALID_DEVICE_REQUEST")
            \/ Complete(r, "BUFFER_ERROR") \/ Complete(r, "FORWARD_ERROR")
            \/ Forward(r)
         /\ \/ UNCHANGED mmio
            \/ \E t \in BarTypes, off \in Offsets, len \in Lengths :
                 mmio' = mmio \cup {BarAccess(t, off, len)}
         /\ UNCHANGED <<fileSt, devType, perfStarted, ctrlNonIncr,
                        addressMode, setting, crashed>>
<1>1. CASE EvtIoRead(r)
  <2>1. PICK f \in Files, off \in Offsets, len \in Lengths :
          /\ NewRequest(r, f)
          /\ CASE devType[f] = "AC2H"       -> ForwardToEngine(r)
               [] devType[f] \in BarTypes   -> BarTransfer(r, devType[f], off, len)
               [] devType[f] = "AH2C"       -> /\ Complete(r, "INVALID_DEVICE_REQUEST")
                                                /\ UNCHANGED mmio
          /\ UNCHANGED <<fileSt, devType, perfStarted, ctrlNonIncr, addressMode,
                         setting, crashed>>
    BY <1>1 DEF EvtIoRead
  <2>2. devType[f] \in DevTypes
    BY <2>1 DEF RoutedInv, NewRequest
  <2>3. CASE devType[f] = "AC2H"
    BY <2>1, <2>3 DEF ForwardToEngine, BarTypes
  <2>4. CASE devType[f] \in BarTypes
    BY <2>1, <2>4 DEF BarTransfer, BarTypes
  <2>5. CASE devType[f] = "AH2C"
    BY <2>1, <2>5 DEF BarTypes
  <2> QED
    BY <2>2, <2>3, <2>4, <2>5 DEF DevTypes, BarTypes
<1>2. CASE EvtIoWrite(r)
  <2>1. PICK f \in Files, off \in Offsets, len \in Lengths :
          /\ NewRequest(r, f)
          /\ CASE devType[f] = "AH2C"       -> ForwardToEngine(r)
               [] devType[f] \in BarTypes   -> BarTransfer(r, devType[f], off, len)
               [] devType[f] = "AC2H"       -> /\ Complete(r, "INVALID_DEVICE_REQUEST")
                                                /\ UNCHANGED mmio
          /\ UNCHANGED <<fileSt, devType, perfStarted, ctrlNonIncr, addressMode,
                         setting, crashed>>
    BY <1>2 DEF EvtIoWrite
  <2>2. devType[f] \in DevTypes
    BY <2>1 DEF RoutedInv, NewRequest
  <2>3. CASE devType[f] = "AH2C"
    BY <2>1, <2>3 DEF ForwardToEngine, BarTypes
  <2>4. CASE devType[f] \in BarTypes
    BY <2>1, <2>4 DEF BarTransfer, BarTypes
  <2>5. CASE devType[f] = "AC2H"
    BY <2>1, <2>5 DEF BarTypes
  <2> QED
    BY <2>2, <2>3, <2>4, <2>5 DEF DevTypes, BarTypes
<1> QED
  BY <1>1, <1>2

(***************************************************************************)
(* The IOCTL steps keep every variable in its type.                        *)
(***************************************************************************)
LEMMA IoctlType ==
  ASSUME RoutedInv, NEW r \in Reqs, EvtIoDeviceControl(r)
  PROVE  TypeOK'
<1>1. CASE IoctlOnBarNode(r)
  BY <1>1 DEF RoutedInv, TypeOK, IoctlOnBarNode
<1>2. CASE IoctlImmediate(r)
  <2>1. PICK f \in Files, code \in Ioctls \ {"ADDRMODE_SET"} :
          LET e == EngineOf(devType[f]) IN
          /\ NewRequest(r, f)
          /\ devType[f] \in {"AH2C", "AC2H"}
          /\ CASE code = "PERF_START" ->
                    /\ perfStarted' = [perfStarted EXCEPT ![e] = TRUE]
                    /\ Complete(r, "success")
               [] code \in {"PERF_GET", "ADDRMODE_GET"} ->
                    /\ \/ Complete(r, "success")
                       \/ Complete(r, "BUFFER_ERROR")
                    /\ UNCHANGED perfStarted
               [] code = "OTHER" ->
                    /\ Complete(r, "NOT_SUPPORTED")
                    /\ UNCHANGED perfStarted
          /\ UNCHANGED <<fileSt, devType, mmio, ctrlNonIncr, addressMode,
                         setting, crashed>>
    BY <1>2 DEF IoctlImmediate
  <2>2. EngineOf(devType[f]) \in Dirs
    BY <2>1 DEF EngineOf, Dirs
  <2>3. CASE code = "PERF_START"
    <3>1. /\ perfStarted' = [perfStarted EXCEPT ![EngineOf(devType[f])] = TRUE]
          /\ Complete(r, "success")
      BY <2>1, <2>3
    <3> QED
      BY <2>1, <2>2, <3>1 DEF RoutedInv, TypeOK, Complete, Statuses
  <2>4. CASE code \in {"PERF_GET", "ADDRMODE_GET"}
    <3>1. /\ \/ Complete(r, "success") \/ Complete(r, "BUFFER_ERROR")
          /\ UNCHANGED perfStarted
      BY <2>1, <2>4
    <3>2. CASE Complete(r, "success")
      BY <2>1, <3>1, <3>2 DEF RoutedInv, TypeOK, Complete, Statuses
    <3>3. CASE Complete(r, "BUFFER_ERROR")
      BY <2>1, <3>1, <3>3 DEF RoutedInv, TypeOK, Complete, Statuses
    <3> QED
      BY <3>1, <3>2, <3>3
  <2>5. CASE code = "OTHER"
    <3>1. Complete(r, "NOT_SUPPORTED") /\ UNCHANGED perfStarted
      BY <2>1, <2>5
    <3> QED
      BY <2>1, <3>1 DEF RoutedInv, TypeOK, Complete, Statuses
  <2> QED
    BY <2>3, <2>4, <2>5 DEF Ioctls
<1>3. CASE AddrModeSetWrite(r)
  <2>1. PICK f \in Files, v \in ModeValues :
          LET e == EngineOf(devType[f]) IN
          /\ NewRequest(r, f)
          /\ devType[f] \in {"AH2C", "AC2H"}
          /\ \/ /\ Complete(r, "BUFFER_ERROR")
                /\ UNCHANGED <<ctrlNonIncr, setting>>
             \/ /\ ctrlNonIncr' = [ctrlNonIncr EXCEPT ![e] = (v # 0)]
                /\ setting' = [setting EXCEPT ![r] = [eng |-> e, val |-> v]]
                /\ reqSt' = [reqSt EXCEPT ![r] = "setting"]
                /\ UNCHANGED <<completions, status>>
          /\ UNCHANGED <<fileSt, devType, mmio, perfStarted, addressMode, crashed>>
    BY <1>3 DEF AddrModeSetWrite
  <2>2. EngineOf(devType[f]) \in Dirs
    BY <2>1 DEF EngineOf, Dirs
  <2>3. reqSt[r] = "new"
    BY <2>1 DEF NewRequest
  <2>4. CASE /\ Complete(r, "BUFFER_ERROR")
             /\ UNCHANGED <<ctrlNonIncr, setting>>
    BY <2>1, <2>4 DEF RoutedInv, TypeOK, Complete, Statuses
  <2>5. CASE /\ ctrlNonIncr' = [ctrlNonIncr EXCEPT ![EngineOf(devType[f])] = (v # 0)]
             /\ setting' = [setting EXCEPT ![r] = [eng |-> EngineOf(devType[f]), val |-> v]]
             /\ reqSt' = [reqSt EXCEPT ![r] = "setting"]
             /\ UNCHANGED <<completions, status>>
    BY <2>1, <2>2, <2>5 DEF RoutedInv, TypeOK
  <2> QED
    BY <2>1, <2>4, <2>5
<1>4. CASE AddrModeSetStore(r)
  BY <1>4 DEF RoutedInv, TypeOK, AddrModeSetStore, Complete, Statuses
<1> QED
  BY <1>1, <1>2, <1>3, <1>4 DEF EvtIoDeviceControl

LEMMA RoutedStep == RoutedInv /\ [Next]_vars => RoutedInv'
<1> SUFFICES ASSUME RoutedInv, [Next]_vars PROVE RoutedInv'
  OBVIOUS
<1>1. TypeOK'
  <2>1. ASSUME NEW f \in Files, EvtDeviceFileCreate(f) PROVE TypeOK'
    BY <2>1, LUTAssumption DEF RoutedInv, TypeOK, EvtDeviceFileCreate, DevTypes
  <2>2. ASSUME NEW r \in Reqs, EvtIoRead(r) \/ EvtIoWrite(r) PROVE TypeOK'
    <3>1. PICK f \in Files : fileSt[f] = "open" /\ reqSt[r] = "new"
      BY <2>2 DEF EvtIoRead, EvtIoWrite, NewRequest
    <3>2. mmio' \subseteq [bar : BarTypes, off : Offsets, len : Lengths,
                           width : {1, 2, 4}, count : Nat]
      <4>1. \A t \in BarTypes, off \in Offsets, len \in Lengths :
              BarAccess(t, off, len) \in [bar : BarTypes, off : Offsets,
                                           len : Lengths, width : {1, 2, 4},
                                           count : Nat]
        BY InputAssumption DEF BarAccess, AccessWidth
      <4> QED
        BY <2>2, <4>1, IoStep DEF RoutedInv, TypeOK
    <3>3. /\ reqSt' \in [Reqs -> {"new", "setting", "done", "forwarded"}]
          /\ completions' \in [Reqs -> Nat]
          /\ status' \in [Reqs -> Statuses]
      <4>1. CASE Forward(r)
        BY <4>1 DEF RoutedInv, TypeOK, Forward
      <4>2. ASSUME NEW s \in Statuses, Complete(r, s)
            PROVE  /\ reqSt' \in [Reqs -> {"new", "setting", "done", "forwarded"}]
                   /\ completions' \in [Reqs -> Nat]
                   /\ status' \in [Reqs -> Statuses]
        BY <4>2 DEF RoutedInv, TypeOK, Complete
      <4>3. {"success", "INVALID_DEVICE_REQUEST", "BUFFER_ERROR",
             "FORWARD_ERROR"} \subseteq Statuses
        BY DEF Statuses
      <4> QED
        BY <2>2, <4>1, <4>2, <4>3, IoStep
    <3> QED
      BY <2>2, <3>2, <3>3, IoStep DEF RoutedInv, TypeOK
  <2>3. ASSUME NEW r \in Reqs, EvtIoDeviceControl(r) PROVE TypeOK'
    BY <2>3, IoctlType DEF RoutedInv
  <2>4. CASE Terminated \/ UNCHANGED vars
    BY <2>4 DEF RoutedInv, TypeOK, Terminated, vars
  <2> QED
    BY <2>1, <2>2, <2>3, <2>4 DEF Next
<1>2. ASSUME NEW f \in Files, EvtDeviceFileCreate(f) PROVE RoutedInv'
  <2>1. PICK name \in DOMAIN FileNameLUT \cup {UnknownName} :
          LET t == IF name \in DOMAIN FileNameLUT THEN FileNameLUT[name]
                                                  ELSE "UNKNOWN"
          IN /\ devType' = [devType EXCEPT ![f] = t]
             /\ fileSt' = [fileSt EXCEPT ![f] = IF CreateFails(t) THEN "failed"
                                                                ELSE "open"]
    BY <1>2 DEF EvtDeviceFileCreate
  <2>2. fileSt'[f] = "open" => devType'[f] \in DevTypes
    BY <2>1, LUTAssumption DEF RoutedInv, TypeOK, CreateFails
  <2>3. UNCHANGED <<reqSt, completions>>
    BY <1>2 DEF EvtDeviceFileCreate
  <2> QED
    BY <1>1, <2>1, <2>2, <2>3 DEF RoutedInv, TypeOK
<1>3. ASSUME NEW r \in Reqs, EvtIoRead(r) \/ EvtIoWrite(r) PROVE RoutedInv'
  <2>1. reqSt[r] = "new" /\ UNCHANGED <<fileSt, devType>>
    BY <1>3 DEF EvtIoRead, EvtIoWrite, NewRequest
  <2>2. \/ Complete(r, "success") \/ Complete(r, "INVALID_DEVICE_REQUEST")
        \/ Complete(r, "BUFFER_ERROR") \/ Complete(r, "FORWARD_ERROR")
        \/ Forward(r)
    BY <1>3, IoStep
  <2> QED
    BY <1>1, <2>1, <2>2, NewStep DEF RoutedInv
<1>4. ASSUME NEW r \in Reqs, IoctlOnBarNode(r) PROVE RoutedInv'
  BY <1>1, <1>4 DEF RoutedInv, IoctlOnBarNode
<1>5. ASSUME NEW r \in Reqs, IoctlImmediate(r) PROVE RoutedInv'
  <2>1. reqSt[r] = "new" /\ UNCHANGED <<fileSt, devType>>
    BY <1>5 DEF IoctlImmediate, NewRequest
  <2>2. \/ Complete(r, "success") \/ Complete(r, "BUFFER_ERROR")
        \/ Complete(r, "NOT_SUPPORTED")
    BY <1>5 DEF IoctlImmediate, Ioctls
  <2> QED
    BY <1>1, <2>1, <2>2, NewStep DEF RoutedInv
<1>6. ASSUME NEW r \in Reqs, AddrModeSetWrite(r) PROVE RoutedInv'
  <2>1. reqSt[r] = "new" /\ UNCHANGED <<fileSt, devType>>
    BY <1>6 DEF AddrModeSetWrite, NewRequest
  <2>2. \/ Complete(r, "BUFFER_ERROR")
        \/ reqSt' = [reqSt EXCEPT ![r] = "setting"] /\ UNCHANGED completions
    BY <1>6 DEF AddrModeSetWrite
  <2>3. \A q \in Reqs :
          /\ reqSt'[q] \in {"new", "setting", "forwarded"} => completions'[q] = 0
          /\ reqSt'[q] = "done" => completions'[q] = 1
    <3>1. CASE Complete(r, "BUFFER_ERROR")
      BY <2>1, <3>1, NewStep
    <3>2. CASE reqSt' = [reqSt EXCEPT ![r] = "setting"] /\ UNCHANGED completions
      BY <2>1, <3>2 DEF RoutedInv, TypeOK
    <3> QED
      BY <2>2, <3>1, <3>2
  <2> QED
    BY <1>1, <2>1, <2>3 DEF RoutedInv
<1>7. ASSUME NEW r \in Reqs, AddrModeSetStore(r) PROVE RoutedInv'
  BY <1>1, <1>7 DEF RoutedInv, TypeOK, AddrModeSetStore, Complete
<1>8. CASE Terminated \/ UNCHANGED vars
  BY <1>1, <1>8 DEF RoutedInv, Terminated, vars
<1> QED
  BY <1>2, <1>3, <1>4, <1>5, <1>6, <1>7, <1>8 DEF Next, EvtIoDeviceControl

(***************************************************************************)
(* EvtIoRead, EvtIoWrite and EvtIoDeviceControl route every request        *)
(* exactly one way, for every LUT, BAR layout and input set: a forwarded   *)
(* request is never also completed by the router, and a finished request  *)
(* was completed exactly once, by whichever thread runs it.                *)
(***************************************************************************)
THEOREM RoutedOnceHolds == Spec => []RoutedOnce
<1>1. RoutedInv => RoutedOnce
  BY DEF RoutedInv, TypeOK, RoutedOnce
<1> QED
  BY <1>1, RoutedInit, RoutedStep, PTL DEF Spec

=============================================================================
