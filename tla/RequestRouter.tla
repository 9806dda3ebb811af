---------------------------- MODULE RequestRouter ----------------------------
(***************************************************************************)
(* The routing layer of the ADMA driver (src/ADMA_Driver/file_io.c):       *)
(* opening a device node (EvtDeviceFileCreate with the FileNameLUT),       *)
(* EvtIoRead and EvtIoWrite, which serve register-BAR nodes directly       *)
(* (ReadBarToRequest/WriteBarFromRequest) and forward DMA nodes to the     *)
(* engine queue, and EvtIoDeviceControl with its engine-scoped IOCTLs.     *)
(*                                                                         *)
(* Requests run concurrently.  A forwarded request is handed to the engine *)
(* queue (module DmaTransaction) and leaves this module.  Only the device  *)
(* node kinds FileNameLUT can produce are modelled: in this build it maps  *)
(* names to AH2C, AC2H, USER and CONTROL nodes of channel 0, so the H2C,   *)
(* C2H, BYPASS and EVENTS arms of the switches are unreachable.            *)
(***************************************************************************)
EXTENDS Naturals

CONSTANTS
  Files,          \* file objects clients open
  Reqs,           \* I/O requests clients send
  FileNameLUT,    \* device node name -> node type (the channel is always 0)
  UnknownName,    \* a name FileNameLUT does not list
  UserBarExists,  \* adma->userBarIdx >= 0
  EngineEnabled,  \* direction -> engine->enabled of channel 0
  BarLength,      \* BAR node type -> adma->barLength of its BAR
  Offsets,        \* device offsets clients pass
  Lengths,        \* transfer lengths clients pass
  ModeValues      \* ULONG values clients pass to IOCTL_ADMA_ADDRMODE_SET

DevTypes == {"AH2C", "AC2H", "USER", "CONTROL"}
BarTypes == {"USER", "CONTROL"}
Dirs == {"H2C", "C2H"}
Ioctls == {"PERF_START", "PERF_GET", "ADDRMODE_GET", "ADDRMODE_SET", "OTHER"}

ASSUME LUTAssumption == FileNameLUT \in [DOMAIN FileNameLUT -> DevTypes]
ASSUME UnknownAssumption == UnknownName \notin DOMAIN FileNameLUT
ASSUME UserBarAssumption == UserBarExists \in BOOLEAN
ASSUME EnabledAssumption == EngineEnabled \in [Dirs -> BOOLEAN]
ASSUME BarLengthAssumption == BarLength \in [BarTypes -> Nat]
ASSUME InputAssumption ==
  Offsets \subseteq Nat /\ Lengths \subseteq Nat /\ ModeValues \subseteq Nat

VARIABLES
  fileSt,       \* "none", "open" or "failed" (create completed with an error)
  devType,      \* file->devType of an open file
  reqSt,        \* "new", "setting" (inside IoctlSetAddrMode), "done", "forwarded"
  completions,  \* number of WdfRequestComplete calls made on each request
  status,       \* completion status: "none", "success" or an error class
  mmio,         \* history: the BAR accesses made, as records
  perfStarted,  \* EngineStartPerf was called on the engine
  ctrlNonIncr,  \* ADMA_CTRL_NON_INCR_ADDR bit of the engine control register
  addressMode,  \* engine->addressMode
  setting,      \* [engine, value] of an IoctlSetAddrMode between its steps
  crashed       \* the driver dereferenced a NULL handle (bug check)

vars == <<fileSt, devType, reqSt, completions, status, mmio, perfStarted,
          ctrlNonIncr, addressMode, setting, crashed>>

Statuses == {"none", "success", "INVALID_DEVICE_REQUEST",
             "INVALID_PARAMETER", "NOT_SUPPORTED", "BUFFER_ERROR",
             "FORWARD_ERROR"}

\* The engine direction of a DMA node.
EngineOf(t) == IF t = "AH2C" THEN "H2C" ELSE "C2H"

(***************************************************************************)
(* ValidateBarParams: the bounds check the spec requires before a BAR      *)
(* access (length > 0 and offset + length < barLength).  It is defined in  *)
(* the code but called by no handler.                                      *)
(***************************************************************************)
ValidateBarParams(t, off, len) == len # 0 /\ off + len < BarLength[t]

(***************************************************************************)
(* ReadBarToRequest/WriteBarFromRequest access width: ULONG if the length  *)
(* is a multiple of 4, else USHORT if a multiple of 2, else UCHAR; the     *)
(* access count is length / width, starting at bar + offset.               *)
(***************************************************************************)
AccessWidth(len) ==
  IF len % 4 = 0 THEN 4 ELSE IF len % 2 = 0 THEN 2 ELSE 1

BarAccess(t, off, len) ==
  [bar |-> t, off |-> off, len |-> len, width |-> AccessWidth(len),
   count |-> len \div AccessWidth(len)]

Complete(r, s) ==
  /\ completions' = [completions EXCEPT ![r] = @ + 1]
  /\ status' = [status EXCEPT ![r] = s]
  /\ reqSt' = [reqSt EXCEPT ![r] = "done"]

Forward(r) ==
  /\ reqSt' = [reqSt EXCEPT ![r] = "forwarded"]
  /\ UNCHANGED <<completions, status>>

Init ==
  /\ fileSt = [f \in Files |-> "none"]
  /\ devType = [f \in Files |-> "UNKNOWN"]
  /\ reqSt = [r \in Reqs |-> "new"]
  /\ completions = [r \in Reqs |-> 0]
  /\ status = [r \in Reqs |-> "none"]
  /\ mmio = {}
  /\ perfStarted = [e \in Dirs |-> FALSE]
  /\ ctrlNonIncr = [e \in Dirs |-> FALSE]
  /\ addressMode = [e \in Dirs |-> 0]
  /\ setting = [r \in Reqs |-> [eng |-> "H2C", val |-> 0]]
  /\ crashed = FALSE

-----------------------------------------------------------------------------
(***************************************************************************)
(* EvtDeviceFileCreate with GetDevNodeType: an unknown name, a missing     *)
(* user BAR or a disabled engine fail the create with                      *)
(* STATUS_INVALID_PARAMETER; otherwise the node is bound to its BAR or its *)
(* engine and queue (the poll-mode interrupt setup is compiled out for     *)
(* AH2C/AC2H nodes).                                                       *)
(***************************************************************************)
CreateFails(t) ==
  \/ t = "UNKNOWN"
  \/ t = "USER" /\ ~UserBarExists
  \/ t \in {"AH2C", "AC2H"} /\ ~EngineEnabled[EngineOf(t)]

EvtDeviceFileCreate(f) ==
  /\ ~crashed
  /\ fileSt[f] = "none"
  /\ \E name \in DOMAIN FileNameLUT \cup {UnknownName} :
       LET t == IF name \in DOMAIN FileNameLUT THEN FileNameLUT[name]
                                               ELSE "UNKNOWN"
       IN /\ devType' = [devType EXCEPT ![f] = t]
          /\ fileSt' = [fileSt EXCEPT ![f] = IF CreateFails(t) THEN "failed"
                                                             ELSE "open"]
  /\ UNCHANGED <<reqSt, completions, status, mmio, perfStarted,
                 ctrlNonIncr, addressMode, setting, crashed>>

(***************************************************************************)
(* A request of client thread r on an open file f.                         *)
(***************************************************************************)
NewRequest(r, f) == ~crashed /\ reqSt[r] = "new" /\ fileSt[f] = "open"

\* ReadBarToRequest/WriteBarFromRequest for a request on BAR node t:
\* a zero length fails, so may retrieving the request buffer; otherwise
\* the BAR is accessed and the request completed with length bytes.
BarTransfer(r, t, off, len) ==
  \/ /\ len = 0
     /\ Complete(r, "INVALID_DEVICE_REQUEST")
     /\ UNCHANGED mmio
  \/ /\ len # 0
     /\ Complete(r, "BUFFER_ERROR")
     /\ UNCHANGED mmio
  \/ /\ len # 0
     /\ mmio' = mmio \cup {BarAccess(t, off, len)}
     /\ Complete(r, "success")

\* Fault variant: the request is completed whatever the forward returned.
ForwardToEngineAlsoCompletes(r) ==
  /\ \/ /\ reqSt' = [reqSt EXCEPT ![r] = "forwarded"]
        /\ completions' = [completions EXCEPT ![r] = @ + 1]
        /\ status' = [status EXCEPT ![r] = "success"]
     \/ Complete(r, "FORWARD_ERROR")
  /\ UNCHANGED mmio

\* WdfRequestForwardToIoQueue(request, file->queue), completed on failure.
ForwardToEngine(r) ==
  /\ \/ Forward(r)
     \/ Complete(r, "FORWARD_ERROR")
  /\ UNCHANGED mmio

EvtIoRead(r) ==
  \E f \in Files, off \in Offsets, len \in Lengths :
    /\ NewRequest(r, f)
    /\ CASE devType[f] = "AC2H"       -> ForwardToEngine(r)
         [] devType[f] \in BarTypes   -> BarTransfer(r, devType[f], off, len)
         [] devType[f] = "AH2C"       -> /\ Complete(r, "INVALID_DEVICE_REQUEST")
                                          /\ UNCHANGED mmio
    /\ UNCHANGED <<fileSt, devType, perfStarted, ctrlNonIncr, addressMode,
                   setting, crashed>>

EvtIoWrite(r) ==
  \E f \in Files, off \in Offsets, len \in Lengths :
    /\ NewRequest(r, f)
    /\ CASE devType[f] = "AH2C"       -> ForwardToEngine(r)
         [] devType[f] \in BarTypes   -> BarTransfer(r, devType[f], off, len)
         [] devType[f] = "AC2H"       -> /\ Complete(r, "INVALID_DEVICE_REQUEST")
                                          /\ UNCHANGED mmio
    /\ UNCHANGED <<fileSt, devType, perfStarted, ctrlNonIncr, addressMode,
                   setting, crashed>>

-----------------------------------------------------------------------------
(***************************************************************************)
(* EvtIoDeviceControl.  It looks up GetQueueContext(file->queue), which    *)
(* only DMA nodes set: on a BAR node the handle is NULL and the lookup     *)
(* faults before the queue->engine == NULL check can reject the request.   *)
(***************************************************************************)
IoctlOnBarNode(r) ==
  \E f \in Files :
    /\ NewRequest(r, f)
    /\ devType[f] \in BarTypes
    /\ crashed' = TRUE
    /\ UNCHANGED <<fileSt, devType, reqSt, completions, status, mmio,
                   perfStarted, ctrlNonIncr, addressMode, setting>>

\* PERF_START, PERF_GET, ADDRMODE_GET and unknown codes, each completed in
\* one step; the GETs fail when the output buffer is missing or too small.
IoctlImmediate(r) ==
  \E f \in Files, code \in Ioctls \ {"ADDRMODE_SET"} :
    LET e == EngineOf(devType[f]) IN
    /\ NewRequest(r, f)
    /\ devType[f] \in {"AH2C", "AC2H"}
    /\ CASE code = "PERF_START" ->
              /\ perfStarted' = [perfStarted EXCEPT ![e] = TRUE]
              /\ Complete(r, "success")
         [] code \in {"PERF_GET", "ADDRMODE_GET"} ->
              /\ \/ Complete(r, "success")
                 \/ Complete(r, "BUFFER_ERROR")
              /\ UNCHANGED perfStarted
         [] code = "OTHER" ->
              /\ Complete(r, "NOT_SUPPORTED")
              /\ UNCHANGED perfStarted
    /\ UNCHANGED <<fileSt, devType, mmio, ctrlNonIncr, addressMode,
                   setting, crashed>>

\* IoctlSetAddrMode, first part: read the ULONG from the input buffer
\* (failing if it is too small) and set or clear the control bit with a
\* write to controlW1S or controlW1C.
AddrModeSetWrite(r) ==
  \E f \in Files, v \in ModeValues :
    LET e == EngineOf(devType[f]) IN
    /\ NewRequest(r, f)
    /\ devType[f] \in {"AH2C", "AC2H"}
    /\ \/ /\ Complete(r, "BUFFER_ERROR")
          /\ UNCHANGED <<ctrlNonIncr, setting>>
       \/ /\ ctrlNonIncr' = [ctrlNonIncr EXCEPT ![e] = (v # 0)]
          /\ setting' = [setting EXCEPT ![r] = [eng |-> e, val |-> v]]
          /\ reqSt' = [reqSt EXCEPT ![r] = "setting"]
          /\ UNCHANGED <<completions, status>>
    /\ UNCHANGED <<fileSt, devType, mmio, perfStarted, addressMode, crashed>>

\* IoctlSetAddrMode, second part: engine->addressMode = addrMode, then
\* EvtIoDeviceControl completes the request with STATUS_SUCCESS.
AddrModeSetStore(r) ==
  /\ ~crashed
  /\ reqSt[r] = "setting"
  /\ addressMode' = [addressMode EXCEPT ![setting[r].eng] = setting[r].val]
  /\ Complete(r, "success")
  /\ UNCHANGED <<fileSt, devType, mmio, perfStarted, ctrlNonIncr, setting,
                 crashed>>

EvtIoDeviceControl(r) ==
  \/ IoctlOnBarNode(r)
  \/ IoctlImmediate(r)
  \/ AddrModeSetWrite(r)
  \/ AddrModeSetStore(r)

-----------------------------------------------------------------------------
\* Every client request has been routed, or could not be sent because no
\* file opened, or the driver has crashed.
Quiescent ==
  \/ crashed
  \/ \A r \in Reqs :
       \/ reqSt[r] \in {"done", "forwarded"}
       \/ reqSt[r] = "new" /\ \A f \in Files : fileSt[f] = "failed"

Terminated == Quiescent /\ UNCHANGED vars

Next ==
  \/ \E f \in Files : EvtDeviceFileCreate(f)
  \/ \E r \in Reqs : EvtIoRead(r) \/ EvtIoWrite(r) \/ EvtIoDeviceControl(r)
  \/ Terminated

Spec == Init /\ [][Next]_vars

-----------------------------------------------------------------------------
TypeOK ==
  /\ fileSt \in [Files -> {"none", "open", "failed"}]
  /\ devType \in [Files -> DevTypes \cup {"UNKNOWN"}]
  /\ reqSt \in [Reqs -> {"new", "setting", "done", "forwarded"}]
  /\ completions \in [Reqs -> Nat]
  /\ status \in [Reqs -> Statuses]
  /\ mmio \subseteq [bar : BarTypes, off : Offsets, len : Lengths,
                     width : {1, 2, 4}, count : Nat]
  /\ perfStarted \in [Dirs -> BOOLEAN]
  /\ ctrlNonIncr \in [Dirs -> BOOLEAN]
  /\ addressMode \in [Dirs -> {0} \cup ModeValues]
  /\ setting \in [Reqs -> [eng : Dirs, val : {0} \cup ModeValues]]
  /\ crashed \in BOOLEAN

(***************************************************************************)
(* Every request is routed exactly one way: forwarded to an engine queue   *)
(* and never completed by EvtIoRead/EvtIoWrite, or completed exactly once  *)
(* (spec 8: completed or forwarded exactly once, never both).              *)
(***************************************************************************)
RoutedOnce ==
  \A r \in Reqs :
    /\ completions[r] <= 1
    /\ reqSt[r] = "forwarded" => completions[r] = 0
    /\ reqSt[r] = "done" <=> completions[r] = 1

(***************************************************************************)
(* Every BAR access made by ReadBarToRequest/WriteBarFromRequest passed    *)
(* the driver's own ValidateBarParams (spec 8: offset + length >=          *)
(* barLength always fails).                                                *)
(***************************************************************************)
BarAccessValidated ==
  \A a \in mmio : ValidateBarParams(a.bar, a.off, a.len)

(***************************************************************************)
(* When no IoctlSetAddrMode is in progress on an engine, engine->          *)
(* addressMode agrees with the ADMA_CTRL_NON_INCR_ADDR bit that            *)
(* IoctlGetAddrMode reads back (spec 4.5: the bit is mirrored into the     *)
(* engine's addressMode).                                                  *)
(***************************************************************************)
AddrModeCoherent ==
  \A e \in Dirs :
    (\A r \in Reqs : reqSt[r] = "setting" => setting[r].eng # e)
      => ((addressMode[e] # 0) = ctrlNonIncr[e])

=============================================================================
