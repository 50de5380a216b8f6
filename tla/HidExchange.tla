---------------------------- MODULE HidExchange -----------------------------
(***************************************************************************)
(* hid_exchange.c: reports and items read from and written to the device   *)
(* of one HIDInterface, on top of HidParser, which finds the report that a *)
(* usage path belongs to.  Opening and closing are reduced to what they    *)
(* mean for the parser (HidOpening has the rest).                          *)
(*                                                                         *)
(* The device is external: it answers for the reports of its descriptor,   *)
(* with no more bytes than they have, or fails.                            *)
(***************************************************************************)
EXTENDS HidParser

CONSTANTS
    Size            \* the sizes in bytes that clients ask for

ASSUME SizesAreNumbers == Size \subseteq Nat \ {0}

VARIABLES
    opened,         \* hid_is_opened(hidif)
    request,        \* the report call in progress, None if there is none
    wire,           \* the last transfer: what was asked for, what was moved
    ret             \* what the last call returned

exchangeVars == <<opened, request, wire, ret>>
allVars == <<vars, exchangeVars>>

ReportCall == {"get_input_report", "set_output_report", "get_feature_report",
               "set_feature_report", "get_item_value"}

\* hid_data->Type, which the call sets before it looks for the path; an item
\* is taken from the feature reports
TypeOf(fn) == CASE fn = "get_input_report" -> "input"
                [] fn = "set_output_report" -> "output"
                [] OTHER -> "feature"

Reads(fn) == fn \in {"get_input_report", "get_feature_report", "get_item_value"}

ReturnCode == {"SUCCESS", "INVALID_PARAMETER", "DEVICE_NOT_OPENED", "TIMEOUT",
               "FAIL_GET_REPORT", "FAIL_SET_REPORT", "FAIL_INT_READ"}

ExchangeTypeOK ==
    /\ opened \in BOOLEAN
    /\ request = None \/ request \in [fn : ReportCall, path : SearchPath, size : Size]
    /\ \/ wire = None
       \/ wire \in [fn : ReportCall, path : SearchPath, type : MainTag,
                    id : 0..255, size : Nat, moved : Nat \cup {-1}]
    /\ ret \in ReturnCode \cup {None}

Idle == request = None /\ call = None

-----------------------------------------------------------------------------
(* The device.                                                             *)

InReport(id, type) ==
    {k \in DOMAIN meaning : meaning[k].data["reportId"] = id /\ meaning[k].type = type}

\* The length of a report in bytes, its number included
ReportLength(id, type) ==
    LET Bits(k) == meaning[k].data["reportSize"]
    IN  (MapThenSumSet(Bits, InReport(id, type)) + 7) \div 8 + (IF id = 0 THEN 0 ELSE 1)

\* What usb_control_msg may return, -1 for all the errors
Moved(fn, id, type, size) ==
    {-1} \cup
    IF InReport(id, type) = {} THEN {}
    ELSE IF Reads(fn) THEN {Min({size, ReportLength(id, type)})}
    ELSE {size}

-----------------------------------------------------------------------------
(* Opening and closing.                                                    *)

\* The object may be opened on another device; the parser is allocated anew.
Open ==
    /\ ~opened
    /\ opened' = TRUE
    /\ ret' = "SUCCESS"
    /\ wire' = None
    /\ desc' \in Descriptor
    /\ meaning' = Fields(desc')
    /\ ResetParser
    /\ item' = None
    /\ page' \in Leftover /\ reportCount' \in Leftover
    /\ hidData' \in [node : {NoNodes}, depth : {0}, type : {"input"},
                     attribute : {0}, offset : Leftover, data : {NoData}]
    /\ call' = [kind |-> "first"]
    /\ given' = <<>>
    /\ UNCHANGED request

Close ==
    /\ opened /\ Idle
    /\ opened' = FALSE
    /\ ret' = "SUCCESS"
    /\ wire' = None
    /\ UNCHANGED <<vars, request>>

-----------------------------------------------------------------------------
(* Reports and items.                                                      *)

\* No buffer, or the interface is not open
ReportRejected ==
    /\ Idle
    /\ \/ ret' = "INVALID_PARAMETER"
       \/ ~opened /\ ret' = "DEVICE_NOT_OPENED"
    /\ wire' = None
    /\ UNCHANGED <<vars, opened, request>>

ReportBegin(fn, path, size) ==
    /\ opened /\ Idle
    /\ HidFindObject(path, TypeOf(fn))
    /\ request' = [fn |-> fn, path |-> path, size |-> size]
    /\ wire' = None
    /\ UNCHANGED <<opened, ret>>

Search ==
    /\ ParseStep
    /\ UNCHANGED exchangeVars

NumberZero == 0
NumberAndType == hidData.data["reportId"] + 256
\* The result of hid_find_object is not looked at: 0 if nothing was found.
ReportNumber == hidData.data["reportId"]

\* hid_get_report_size: hid_get_item_value takes the report's entry in the
\* offset table, in bits and up to the item found, for a number of bytes.
TransferSize ==
    IF request.fn = "get_item_value" THEN ReportOffset(<<ReportNumber, hidData.type>>)
    ELSE request.size

AnythingGoes(moved, size) == moved >= 0
Complete(moved, size) == moved = size

\* A full transfer is a success, but where hid_get_item_value has been given no
\* place for the value: hid_extract_value fails then.
ReportTransfer ==
    /\ request # None /\ call = None
    /\ \E moved \in Moved(request.fn, ReportNumber, hidData.type, TransferSize) :
          /\ wire' = [fn |-> request.fn, path |-> request.path,
                      type |-> hidData.type, id |-> ReportNumber,
                      size |-> TransferSize, moved |-> moved]
          /\ \/ Complete(moved, TransferSize) /\ ret' = "SUCCESS"
             \/ /\ ~Complete(moved, TransferSize) \/ request.fn = "get_item_value"
                /\ ret' = IF Reads(request.fn) THEN "FAIL_GET_REPORT" ELSE "FAIL_SET_REPORT"
    /\ request' = None
    /\ UNCHANGED <<vars, opened>>

-----------------------------------------------------------------------------
(* Calls that need no path.                                                *)

\* hid_interrupt_read and hid_interrupt_write: an error is FAIL_INT_READ for
\* both, a timeout is told apart.
InterruptTransfer(size) ==
    /\ opened /\ Idle
    /\ \E moved \in {-1} \cup 0..size, late \in BOOLEAN :
          /\ late => moved = -1
          /\ ret' = IF late THEN "TIMEOUT"
                    ELSE IF Complete(moved, size) THEN "SUCCESS"
                    ELSE "FAIL_INT_READ"
    /\ wire' = None
    /\ UNCHANGED <<vars, opened, request>>

\* hid_set_idle does not look whether the interface is open: clients do.
SetIdle(duration, id) ==
    /\ opened /\ Idle
    /\ IF duration > 255 \/ id > 255 THEN ret' = "INVALID_PARAMETER"
       ELSE ret' \in {"SUCCESS", "FAIL_GET_REPORT"}
    /\ wire' = None
    /\ UNCHANGED <<vars, opened, request>>

DumpTree ==
    /\ opened /\ Idle
    /\ HidDumpTree
    /\ wire' = None
    /\ ret' = "SUCCESS"
    /\ UNCHANGED <<opened, request>>

-----------------------------------------------------------------------------
ExchangeInit ==
    /\ Init
    /\ opened = TRUE
    /\ request = None
    /\ wire = None
    /\ ret = None

ExchangeStep == Search \/ ReportTransfer

ExchangeNext ==
    \/ ExchangeStep
    \/ Open
    \/ Close
    \/ ReportRejected
    \/ \E fn \in ReportCall, path \in SearchPath, size \in Size :
          ReportBegin(fn, path, size)
    \/ \E size \in Size : InterruptTransfer(size)
    \/ \E duration, id \in {0, 255, 256} : SetIdle(duration, id)
    \/ DumpTree

\* The thread runs, and control messages time out (USB_TIMEOUT).
ExchangeSpec ==
    ExchangeInit /\ [][ExchangeNext]_allVars /\ WF_allVars(ExchangeStep)

-----------------------------------------------------------------------------
(* What is promised.                                                       *)

FieldAsked(w) == Catalogue!FirstFit(w.path, TypeOf(w.fn))

\* A control message is for the report that the field on the path is in, with
\* the device and the descriptor of the present opening, whatever has been
\* looked for, written out or opened before.
RightReport ==
    wire # None /\ FieldAsked(wire) # <<>> =>
        /\ wire.id = FieldAsked(wire)[1].data["reportId"]
        /\ wire.type = FieldAsked(wire)[1].type

\* A report call that succeeds has moved all bytes that it was asked for, to
\* or from a report that has a field on its path: on a device that numbers
\* its reports the unchecked hid_find_object asks for report 0, and fails.
SuccessIsHonest ==
    wire # None /\ ret = "SUCCESS" =>
        FieldAsked(wire) # <<>> /\ wire.moved = wire.size

\* Every report call returns.
ReportCallReturns == (request # None) ~> (request = None)

\* Exchanging reports leaves the parser one that implements FieldCatalogue
\* for the present descriptor: a call finds what the catalogue answers.
FoundIsFirst ==
    request # None /\ call = None =>
        [k \in DOMAIN given |-> AsField(given[k])]
            = Catalogue!FirstFit(request.path, TypeOf(request.fn))
=============================================================================
