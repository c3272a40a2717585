---------------------------- MODULE DeviceControl ----------------------------
(***************************************************************************)
(* IRP_MJ_DEVICE_CONTROL and the unsupported requests of the ExampleDrv2   *)
(* driver, beside the reads and writes of PipeBuffer.  They share nothing  *)
(* with the pipes but the device.                                          *)
(*                                                                         *)
(* A byte of a message is TRUE when it is zero.  What isStringTerminated   *)
(* finds behind a message of odd length is anything.                       *)
(***************************************************************************)
EXTENDS PipeBuffer

CONSTANTS
  ReplySize,  \* 66, the bytes of "IOCTL - Buffered I/O From Kernel!"
  MaxMessage, \* bound: the bytes of a message
  MaxOutput   \* bound: the bytes of room for a reply

ASSUME ControlAssumption == ReplySize \in Nat \ {0} /\ MaxMessage \in Nat /\ MaxOutput \in Nat

VARIABLE control  \* the last of these requests

controlVars == <<vars, control>>

\* The bytes that isStringTerminated can look at: behind has what follows the message.
ByteAt(msg, behind, i) == IF i < Len(msg) THEN msg[i + 1] ELSE behind

\* The steps of the scan: one for each wide character, and for the half of one at the end.
Steps(msg) == {i \in 0 .. Len(msg) - 1 : i % 2 = 0}

Terminators(msg, behind) ==
  {i \in Steps(msg) : ByteAt(msg, behind, i) /\ ByteAt(msg, behind, i + 1)}

isStringTerminated(msg, behind) == Terminators(msg, behind) # {}

Outcome(status, information) ==
  [completed |-> TRUE, status |-> status, information |-> information]

\* Without any length there is no system buffer.
handleSampleIoctlBufferedIo(msg, behind, out) ==
  IF ~(Len(msg) > 0 \/ out > 0) \/ ~isStringTerminated(msg, behind)
  THEN Outcome("unsuccessful", 0)
  ELSE Outcome(IF out >= ReplySize THEN "success" ELSE "buffer_too_small", ReplySize)

NotSupported(completed) ==
  [completed |-> completed, status |-> "not_supported", information |-> 0]

Messages == UNION {[1 .. n -> BOOLEAN] : n \in 0 .. MaxMessage}

\* Of the four control codes three are only named.
Buffered ==
  {handleSampleIoctlBufferedIo(m, b, out) : m \in Messages, b \in BOOLEAN, out \in 0 .. MaxOutput}

handleDeviceIoControl == Buffered \cup {NotSupported(TRUE)}

\* The request is never completed.
handleUnsupportedFunction == NotSupported(FALSE)

ControlInit == Init /\ control = Outcome("success", 0)

Control ==
  /\ control' \in handleDeviceIoControl \cup {handleUnsupportedFunction}
  /\ UNCHANGED vars

ControlNext == (Next /\ UNCHANGED control) \/ Control

ControlSpec == ControlInit /\ [][ControlNext]_controlVars

=============================================================================
