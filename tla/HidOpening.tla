----------------------------- MODULE HidOpening -----------------------------
(***************************************************************************)
(* The life of HIDInterface objects: hid_initialisation.c, hid_opening.c,  *)
(* hid_preparation.c, the parser's allocation in hid_parsing.c, and the    *)
(* three hid_os_force_claim (linux.c, bsd.c, darwin.c).                    *)
(*                                                                         *)
(* The library is not thread-safe (hid_opening.c:115), so one call is in   *)
(* progress at a time; pc is where it stands.  Each libusb call is a step  *)
(* of its own, together with the code up to the next one: what other       *)
(* processes, kernel drivers and cables do falls in between.               *)
(*                                                                         *)
(* Just before some definitions stands a second form of them, used by no   *)
(* action: what a likely slip would make of the code (NeverAdd, DropLast,  *)
(* ...).  With it in place of the real one, a run must find its property   *)
(* violated (README, "Mutants").                                           *)
(***************************************************************************)
EXTENDS Libusb

CONSTANTS
    Hid,            \* addresses of HIDInterface objects
    Bit,            \* the bits of an ID
    VendorId,       \* descriptor.idVendor of each device, a set of bits
    ProductId,      \* descriptor.idProduct
    Matcher,        \* the HIDInterfaceMatcher records clients pass
    MaxOpen,        \* MAX_OPEN_DEVICES
    MaxRetries,     \* the largest number of retries clients ask for
    Os,             \* which hid_os_force_claim is linked in
    TidyClients     \* do clients close every interface before hid_cleanup?

ASSUME NullIsNoHid == NULL \notin Hid
ASSUME NullIsNoTarget == NULL \notin Device \X Iface
ASSUME IdsAreBits == /\ VendorId \in [Device -> SUBSET Bit]
                     /\ ProductId \in [Device -> SUBSET Bit]
\* accepts: the devices for which matcher_fn returns true, all if it is NULL
ASSUME MatcherType ==
    /\ Matcher \subseteq [vendor : SUBSET Bit, product : SUBSET Bit,
                          accepts : SUBSET Device]
    /\ NULL \notin Matcher
ASSUME BoundsAreNumbers == MaxOpen \in Nat \ {0} /\ MaxRetries \in Nat
ASSUME OsKnown == Os \in {"linux", "bsd", "darwin"}
ASSUME TidyBoolean == TidyClients \in BOOLEAN

VARIABLES
    initialised,    \* the flag behind hid_is_initialised()
    alive,          \* the objects between hid_new_ and hid_delete_HIDInterface
    devHandle,      \* hidif->dev_handle
    device,         \* hidif->device
    interface,      \* hidif->interface, NULL for -1
    hasData,        \* hidif->hid_data is allocated
    hasParser,      \* hidif->hid_parser is allocated
    openList,       \* open_hid_device_list
    pc,             \* where the call in progress stands, "idle" for none
    call,           \* its parameters and local variables
    ret             \* what the last call returned

hidVars == <<alive, devHandle, device, interface, hasData, hasParser>>
vars == <<usbVars, initialised, hidVars, openList, pc, call, ret>>

ReturnCode == {"SUCCESS", "INVALID_PARAMETER", "NOT_INITIALISED",
    "ALREADY_INITIALISED", "FAIL_FIND_BUSSES", "FAIL_FIND_DEVICES",
    "FAIL_OPEN_DEVICE", "DEVICE_NOT_FOUND", "DEVICE_ALREADY_OPENED",
    "FAIL_CLOSE_DEVICE", "FAIL_CLAIM_IFACE", "FAIL_DETACH_DRIVER",
    "NOT_HID_DEVICE", "HID_DESC_SHORT", "REPORT_DESC_SHORT",
    "REPORT_DESC_LONG", "FAIL_GET_REPORT", "FAIL_ALLOC"}

\* Before each libusb call (and malloc) of an open: where pc may stand.
Scanning == {"scan", "scanClaim", "scanClose"}
Holding == {"claim", "detach", "alloc", "hidDesc", "reportDesc", "giveUp"}

\* hid: the object; todo: the devices not yet looked at; handle: usbdev_h of
\* the scan; code: what to return once the interface is closed again
Call == [hid : Hid, matcher : Matcher, force : BOOLEAN, retries : Nat,
         todo : Seq(Device), handle : Handle \cup {NULL},
         code : ReturnCode \cup {NULL}]

TypeOK ==
    /\ UsbTypeOK
    /\ initialised \in BOOLEAN
    /\ alive \subseteq Hid
    /\ devHandle \in [Hid -> Handle \cup {NULL}]
    /\ device \in [Hid -> Device \cup {NULL}]
    /\ interface \in [Hid -> Iface \cup {NULL}]
    /\ hasData \in [Hid -> BOOLEAN]
    /\ hasParser \in [Hid -> BOOLEAN]
    /\ openList \in Seq(Hid) /\ Len(openList) <= MaxOpen
    /\ pc \in {"idle"} \cup Scanning \cup Holding
    /\ IF pc = "idle" THEN call = NULL ELSE call \in Call
    /\ ret \in ReturnCode \cup {NULL}

Init ==
    /\ UsbInit
    /\ initialised = FALSE
    /\ alive = {}
    /\ devHandle = [h \in Hid |-> NULL]
    /\ device = [h \in Hid |-> NULL]
    /\ interface = [h \in Hid |-> NULL]
    /\ hasData = [h \in Hid |-> FALSE]
    /\ hasParser = [h \in Hid |-> FALSE]
    /\ openList = <<>>
    /\ pc = "idle"
    /\ call = NULL
    /\ ret = NULL

-----------------------------------------------------------------------------
(* The open list and the match.                                            *)

IsOpened(h) == devHandle[h] # NULL

NeverAdd(list, h) == list
AddOpenDevice(list, h) == IF Len(list) < MaxOpen THEN Append(list, h) ELSE list

DropLast(list, h) == SubSeq(list, 1, Len(list) - 1)
RemoveOpenDevice(list, h) == RemoveFirst(list, h)

NeverMatched(d, i) == FALSE
SkipFirstEntry(d, i) ==
    \E k \in 2..Len(openList) :
        interface[openList[k]] = i /\ device[openList[k]] = d
PreviouslyMatched(d, i) ==
    \E k \in DOMAIN openList :
        interface[openList[k]] = i /\ device[openList[k]] = d

\* (id & wanted) == wanted: every bit of the wanted ID is set in the id
CompareUsbDevice(d, m) ==
    /\ VendorId[d] # {} /\ m.vendor \subseteq VendorId[d]
    /\ m.product \subseteq ProductId[d]
    /\ d \in m.accepts

-----------------------------------------------------------------------------
(* Leaving a call, and the parts that several calls share.                 *)

Goto(label) == pc' = label /\ UNCHANGED ret

Return(code) == pc' = "idle" /\ call' = NULL /\ ret' = code

KeepParser(h) ==
    /\ devHandle' = [devHandle EXCEPT ![h] = NULL]
    /\ device' = [device EXCEPT ![h] = NULL]
    /\ interface' = [interface EXCEPT ![h] = NULL]
    /\ hasData' = [hasData EXCEPT ![h] = FALSE]
    /\ UNCHANGED hasParser

\* hid_reset_HIDInterface
ResetHid(h) ==
    /\ devHandle' = [devHandle EXCEPT ![h] = NULL]
    /\ device' = [device EXCEPT ![h] = NULL]
    /\ interface' = [interface EXCEPT ![h] = NULL]
    /\ hasData' = [hasData EXCEPT ![h] = FALSE]
    /\ hasParser' = [hasParser EXCEPT ![h] = FALSE]

\* What hid_close does besides usb_close.
ForgetHid(h) ==
    /\ openList' = RemoveOpenDevice(openList, h)
    /\ ResetHid(h)

-----------------------------------------------------------------------------
(* Calls that do not wait for the bus.  Clients are held to what the       *)
(* headers and examples ask: they do not delete or reset an interface that *)
(* is open, nor use one that they have deleted.                            *)

AlwaysRescan == TRUE
MayRescan == ~initialised

HidInit ==
    /\ pc = "idle"
    /\ \/ /\ ~MayRescan
          /\ ret' = "ALREADY_INITIALISED"
          /\ UNCHANGED <<initialised, busDevices>>
       \/ /\ MayRescan
          /\ ret' \in {"FAIL_FIND_BUSSES", "FAIL_FIND_DEVICES"}
          /\ UNCHANGED <<initialised, busDevices>>
       \/ /\ MayRescan
          /\ FindDevices
          /\ initialised' = TRUE
          /\ ret' = "SUCCESS"
    /\ UNCHANGED <<plug, handleOf, holder, hidVars, openList, pc, call>>

HidCleanup ==
    /\ pc = "idle"
    /\ TidyClients => \A h \in Hid : ~IsOpened(h)
    /\ initialised' = FALSE
    /\ ret' = IF initialised THEN "SUCCESS" ELSE "NOT_INITIALISED"
    /\ UNCHANGED <<usbVars, hidVars, openList, pc, call>>

NewHIDInterface(h) ==
    /\ pc = "idle"
    /\ h \notin alive
    /\ alive' = alive \cup {h}
    /\ ResetHid(h)
    /\ UNCHANGED <<usbVars, initialised, openList, pc, call, ret>>

DeleteHIDInterface(h) ==
    /\ pc = "idle"
    /\ h \in alive
    /\ ~IsOpened(h)
    /\ alive' = alive \ {h}
    /\ UNCHANGED <<usbVars, initialised, devHandle, device, interface, hasData,
                   hasParser, openList, pc, call, ret>>

\* hid_close, called by a client.  Whatever usb_close returns, the handle is
\* gone; on an interface that is not open the rest is done all the same.
HidClose(h) ==
    /\ pc = "idle"
    /\ h \in alive
    /\ \/ /\ IsOpened(h)
          /\ UsbClose(devHandle[h])
          /\ ret' \in {"SUCCESS", "FAIL_CLOSE_DEVICE"}
       \/ /\ ~IsOpened(h)
          /\ ret' = "FAIL_CLOSE_DEVICE"
          /\ UNCHANGED <<handleOf, holder>>
    /\ ForgetHid(h)
    /\ UNCHANGED <<plug, busDevices, initialised, alive, pc, call>>

-----------------------------------------------------------------------------
(* hid_open and hid_force_open (force): the checks, then the scan.         *)

OpenRejected(h, m) ==
    /\ pc = "idle"
    /\ h \in alive
    /\ ~initialised \/ IsOpened(h) \/ m = NULL
    /\ ret' = IF ~initialised THEN "NOT_INITIALISED"
              ELSE IF IsOpened(h) THEN "DEVICE_ALREADY_OPENED"
              ELSE "INVALID_PARAMETER"
    /\ UNCHANGED <<usbVars, initialised, hidVars, openList, pc, call>>

OpenBegin(h, i, m, force, retries) ==
    /\ pc = "idle"
    /\ h \in alive
    /\ initialised /\ ~IsOpened(h) /\ m # NULL
    /\ interface' = [interface EXCEPT ![h] = i]
    /\ call' = [hid |-> h, matcher |-> m, force |-> force, retries |-> retries,
                todo |-> busDevices, handle |-> NULL, code |-> NULL]
    /\ Goto("scan")
    /\ UNCHANGED <<usbVars, initialised, alive, devHandle, device, hasData,
                   hasParser, openList>>

\* hid_find_usb_device gives up, hid_get_usb_handle clears what it may have set
ScanFails(code) ==
    /\ pc = "scan"
    /\ \/ call.todo = <<>> /\ code = "DEVICE_NOT_FOUND"
       \/ call.todo # <<>> /\ code = "FAIL_OPEN_DEVICE"
    /\ devHandle' = [devHandle EXCEPT ![call.hid] = NULL]
    /\ device' = [device EXCEPT ![call.hid] = NULL]
    /\ Return(code)
    /\ UNCHANGED <<usbVars, initialised, alive, interface, hasData, hasParser,
                   openList>>

ScanOpen(x) ==
    /\ pc = "scan"
    /\ call.todo # <<>>
    /\ UsbOpen(Head(call.todo), x)
    /\ call' = [call EXCEPT !.handle = x, !.todo = Tail(@)]
    /\ Goto("scanClaim")
    /\ UNCHANGED <<plug, busDevices, holder, initialised, hidVars, openList>>

BreakOff == <<>>
\* what the scan goes on with behind a previously matched device: continue
Continue == call.todo

\* usb_claim_interface, its result unused, and the verdict on the device:
\* a previously matched one is passed over with its new handle left open
ScanClaim ==
    LET h == call.hid
        d == handleOf[call.handle]
    IN
    /\ pc = "scanClaim"
    /\ holder' = AfterClaim(call.handle, interface[h])
    /\ \/ /\ PreviouslyMatched(d, interface[h])
          /\ call' = [call EXCEPT !.handle = NULL, !.todo = Continue]
          /\ Goto("scan")
          /\ UNCHANGED <<devHandle, device>>
       \/ /\ ~PreviouslyMatched(d, interface[h])
          /\ CompareUsbDevice(d, call.matcher)
          /\ devHandle' = [devHandle EXCEPT ![h] = call.handle]
          /\ device' = [device EXCEPT ![h] = d]
          /\ call' = [call EXCEPT !.handle = NULL]
          /\ Goto("claim")
       \/ /\ ~PreviouslyMatched(d, interface[h])
          /\ ~CompareUsbDevice(d, call.matcher)
          /\ Goto("scanClose")
          /\ UNCHANGED <<devHandle, device, call>>
    /\ UNCHANGED <<plug, busDevices, handleOf, initialised, alive, interface,
                   hasData, hasParser, openList>>

ScanNoClose ==
    /\ pc = "scanClose"
    /\ call' = [call EXCEPT !.handle = NULL]
    /\ Goto("scan")
    /\ UNCHANGED <<usbVars, initialised, hidVars, openList>>

ScanClose ==
    /\ pc = "scanClose"
    /\ UsbClose(call.handle)
    /\ call' = [call EXCEPT !.handle = NULL]
    /\ Goto("scan")
    /\ UNCHANGED <<plug, busDevices, initialised, hidVars, openList>>

-----------------------------------------------------------------------------
(* The claim.                                                              *)

IgnoreAlways == TRUE
\* on Darwin hid_os_force_claim does not look at the result
ClaimIgnored == call.force /\ Os = "darwin"

\* hid_open, and hid_os_force_claim but on Linux, try once.
ClaimOnce ==
    LET x == devHandle[call.hid]
        i == interface[call.hid]
    IN
    /\ pc = "claim"
    /\ ~call.force \/ Os # "linux"
    /\ holder' = AfterClaim(x, i)
    /\ \/ /\ Claimable(x, i) \/ ClaimIgnored
          /\ Goto("alloc")
          /\ UNCHANGED call
       \/ /\ ~Claimable(x, i) /\ ~ClaimIgnored
          /\ call' = [call EXCEPT !.code = "FAIL_CLAIM_IFACE"]
          /\ Goto("giveUp")
    /\ UNCHANGED <<plug, busDevices, handleOf, initialised, hidVars, openList>>

OneTooMany == call.retries >= 0
RetryLeft == call.retries > 0

NotCounted == call.retries
RetriesAfter == call.retries - 1

ClaimUnchecked ==
    /\ pc = "claim"
    /\ call.force /\ Os = "linux"
    /\ holder' = AfterClaim(devHandle[call.hid], interface[call.hid])
    /\ Goto("alloc")
    /\ UNCHANGED <<plug, busDevices, handleOf, initialised, hidVars, openList, call>>

\* hid_os_force_claim on Linux: while (claim() != 0 && retries-- > 0)
ClaimOrRetry ==
    LET x == devHandle[call.hid]
        i == interface[call.hid]
    IN
    /\ pc = "claim"
    /\ call.force /\ Os = "linux"
    /\ holder' = AfterClaim(x, i)
    /\ \/ /\ Claimable(x, i)
          /\ Goto("alloc")
          /\ UNCHANGED call
       \/ /\ ~Claimable(x, i) /\ RetryLeft
          /\ call' = [call EXCEPT !.retries = RetriesAfter]
          /\ Goto("detach")
       \/ /\ ~Claimable(x, i) /\ ~RetryLeft
          /\ call' = [call EXCEPT !.code = "FAIL_CLAIM_IFACE"]
          /\ Goto("giveUp")
    /\ UNCHANGED <<plug, busDevices, handleOf, initialised, hidVars, openList>>

DetachDriver ==
    LET x == devHandle[call.hid]
        i == interface[call.hid]
    IN
    /\ pc = "detach"
    /\ \/ /\ Detachable(x, i)
          /\ holder' = AfterDetach(x, i)
          /\ Goto("claim")
          /\ UNCHANGED call
       \/ /\ call' = [call EXCEPT !.code = "FAIL_DETACH_DRIVER"]
          /\ Goto("giveUp")
          /\ UNCHANGED holder
    /\ UNCHANGED <<plug, busDevices, handleOf, initialised, hidVars, openList>>

-----------------------------------------------------------------------------
(* hid_prepare_interface: two allocations, two descriptors, the parse.     *)

InitParser ==
    /\ pc = "alloc"
    /\ \E data \in BOOLEAN, parser \in BOOLEAN :
          /\ parser => data
          /\ hasData' = [hasData EXCEPT ![call.hid] = data]
          /\ hasParser' = [hasParser EXCEPT ![call.hid] = parser]
          /\ \/ parser /\ Goto("hidDesc") /\ UNCHANGED call
             \/ /\ ~parser
                /\ call' = [call EXCEPT !.code = "FAIL_ALLOC"]
                /\ Goto("giveUp")
    /\ UNCHANGED <<usbVars, initialised, alive, devHandle, device, interface,
                   openList>>

PrepareHidDescriptor ==
    /\ pc = "hidDesc"
    /\ \/ /\ Answers(devHandle[call.hid])
          /\ Goto("reportDesc")
          /\ UNCHANGED call
       \/ \E code \in {"NOT_HID_DEVICE", "HID_DESC_SHORT"} :
             /\ call' = [call EXCEPT !.code = code]
             /\ Goto("giveUp")
    /\ UNCHANGED <<usbVars, initialised, hidVars, openList>>

\* hid_prepare_report_descriptor fails, or hid_prepare_parser follows, which
\* cannot, and add_open_device, whose result the callers do not look at.
PrepareReportDescriptor ==
    /\ pc = "reportDesc"
    /\ \/ /\ Answers(devHandle[call.hid])
          /\ openList' = AddOpenDevice(openList, call.hid)
          /\ Return("SUCCESS")
       \/ /\ \E code \in {"REPORT_DESC_LONG", "FAIL_GET_REPORT", "REPORT_DESC_SHORT"} :
                call' = [call EXCEPT !.code = code]
          /\ Goto("giveUp")
          /\ UNCHANGED openList
    /\ UNCHANGED <<usbVars, initialised, hidVars>>

GiveUpNoClose ==
    /\ pc = "giveUp"
    /\ ForgetHid(call.hid)
    /\ Return(call.code)
    /\ UNCHANGED <<usbVars, initialised, alive>>

\* hid_close on the way out of an open that failed after the match.
GiveUp ==
    /\ pc = "giveUp"
    /\ UsbClose(devHandle[call.hid])
    /\ ForgetHid(call.hid)
    /\ Return(call.code)
    /\ UNCHANGED <<plug, busDevices, initialised, alive>>

-----------------------------------------------------------------------------
\* One step of the call in progress.
Step ==
    \/ \E code \in {"DEVICE_NOT_FOUND", "FAIL_OPEN_DEVICE"} : ScanFails(code)
    \/ \E x \in Handle : ScanOpen(x)
    \/ ScanClaim
    \/ ScanClose
    \/ ClaimOnce
    \/ ClaimOrRetry
    \/ DetachDriver
    \/ InitParser
    \/ PrepareHidDescriptor
    \/ PrepareReportDescriptor
    \/ GiveUp

\* A client makes a call.
Client ==
    \/ HidInit
    \/ HidCleanup
    \/ \E h \in Hid :
          \/ NewHIDInterface(h)
          \/ DeleteHIDInterface(h)
          \/ HidClose(h)
          \/ \E m \in Matcher \cup {NULL} : OpenRejected(h, m)
          \/ \E i \in Iface, m \in Matcher :
                \/ OpenBegin(h, i, m, FALSE, 0)
                \/ \E n \in 0..MaxRetries : OpenBegin(h, i, m, TRUE, n)

\* The world outside moves between two steps of the library.
Environment == UsbNext /\ UNCHANGED <<initialised, hidVars, openList, pc, call, ret>>

Next == Step \/ Client \/ Environment

\* The calling thread runs, and every libusb call returns: descriptor reads
\* have a timeout, the others do not wait for the device.
Fairness == WF_vars(Step)

Spec == Init /\ [][Next]_vars /\ Fairness

-----------------------------------------------------------------------------
(* What is promised.                                                       *)

Target(h) == <<device[h], interface[h]>>
Listed(h) == \E k \in DOMAIN openList : openList[k] = h
Between(h) == pc = "idle" \/ call.hid # h

\* No two entries of the open list stand for the same interface of the same
\* device (hid_previously_matched), whatever the length of the list.
ExclusiveListed ==
    \A j, k \in DOMAIN openList :
        j # k => Target(openList[j]) # Target(openList[k])

\* No two interfaces are open on the same interface of the same device: what
\* the open list is for.  It needs a list long enough for all of them.
NoReopen ==
    \A g, h \in Hid :
        g # h /\ IsOpened(g) /\ IsOpened(h) => Target(g) # Target(h)

\* Between calls an object is open altogether or not at all, whichever step
\* of hid_open failed: handle, device, parser and parser data come and go
\* together, the handle is one libusb still knows, as one on that device, and
\* no other object has it; the list holds open objects only.
OpenedIsWhole ==
    \A h \in Hid :
        /\ Listed(h) => IsOpened(h)
        /\ Between(h) => /\ IsOpened(h) <=> hasParser[h]
                         /\ IsOpened(h) <=> hasData[h]
        /\ IsOpened(h) => /\ h \in alive
                          /\ handleOf[devHandle[h]] = device[h]
                          /\ device[h] \in Device /\ interface[h] \in Iface
                          /\ \A g \in Hid \ {h} : devHandle[g] # devHandle[h]

\* The inductive invariant behind ExclusiveListed, OpenedIsWhole and
\* OwnClaimKept.  What the call in progress may rely on:
CallInv ==
    /\ pc # "idle" => call.hid \in alive
    /\ pc \in {"scanClaim", "scanClose"} =>
          /\ call.handle \in Handle
          /\ handleOf[call.handle] \in Device
          /\ \A h \in Hid : devHandle[h] # call.handle
    /\ pc \in Scanning => /\ interface[call.hid] \in Iface
                          /\ ~IsOpened(call.hid)
                          /\ ~hasData[call.hid] /\ ~hasParser[call.hid]
    /\ pc \in Holding => IsOpened(call.hid)
    /\ pc = "giveUp" => call.code \in ReturnCode
    /\ pc \in {"hidDesc", "reportDesc"} => hasData[call.hid] /\ hasParser[call.hid]
    /\ pc \in {"claim", "detach", "alloc"} => ~hasData[call.hid] /\ ~hasParser[call.hid]

\* the open list has distinct entries, for distinct targets, and the target
\* of the call in progress is not among them.
ListInv ==
    /\ ExclusiveListed
    /\ pc # "idle" => ~Listed(call.hid)
    /\ pc \in Holding =>
          \A k \in DOMAIN openList : Target(openList[k]) # Target(call.hid)

OpeningInv == CallInv /\ ListInv /\ OpenedIsWhole

\* An interface that hid_open or hid_force_open returned with success is
\* claimed for the handle of its object as long as the device is there.
ListedHoldsClaim ==
    \A h \in Hid :
        Listed(h) /\ plug[device[h]] = "attached" => holder[Target(h)] = devHandle[h]

\* Every claim of this process is that of an open object on its own interface,
\* or of the handle the scan is looking at: the handles that the scan leaves
\* open on previously matched devices keep nobody else out.
ClaimsAccounted ==
    \A p \in Device \X Iface :
        holder[p] \in Handle =>
            \/ pc # "idle" /\ call.handle = holder[p]
            \/ \E h \in Hid : devHandle[h] = holder[p] /\ Target(h) = p

\* An open handle that neither an object nor the scan knows any more
Lost(x) ==
    /\ handleOf[x] # NULL
    /\ pc # "idle" => call.handle # x
    /\ \A h \in Hid : devHandle[h] # x

\* Handles are lost where the scan passes over a device that another object
\* has open, and nowhere else: whichever step of an open fails, and however an
\* interface is closed, its handle is closed with it.
LostInScanOnly ==
    [][\A x \in Handle : ~Lost(x) /\ Lost(x)' =>
         /\ pc = "scanClaim"
         /\ \E h \in Hid : IsOpened(h) /\ device[h] = handleOf[x]]_vars

\* The struct usb_device that an open object points to, and that
\* hid_previously_matched compares by address, is one libusb has not freed.
DeviceLive ==
    \A h \in Hid : IsOpened(h) => device[h] \in ToSet(busDevices)

\* DEVICE_NOT_FOUND means what it says: each device of the lists that the
\* matcher describes has an open object on the interface asked for.
NotFoundIsTrue ==
    [][pc = "scan" /\ call.todo = <<>> /\ pc' = "idle" =>
         \A d \in ToSet(busDevices) :
            CompareUsbDevice(d, call.matcher) =>
                \E h \in Hid \ {call.hid} :
                    IsOpened(h) /\ Target(h) = <<d, interface[call.hid]>>]_vars

\* Opening one interface never costs another one its claim, not even with
\* the detaching of hid_force_open: pc moves in the steps of an open alone.
OwnClaimKept ==
    [][pc' # pc =>
         \A h \in Hid :
            Listed(h) /\ holder[Target(h)] = devHandle[h]
                => holder'[Target(h)] = devHandle[h]]_vars

\* An open never returns with an interface that another object already has.
ReturnsFresh ==
    [][pc = "reportDesc" /\ pc' = "idle" =>
         \A g \in Hid \ {call.hid} : IsOpened(g) => Target(g) # Target(call.hid)]_vars

\* hid_cleanup leaves no handle open when every interface has been closed.
CleanupReleasesHandles ==
    [][initialised /\ ~initialised' /\ (\A h \in Hid : ~IsOpened(h))
         => \A x \in Handle : handleOf'[x] = NULL]_vars

\* Every hid_open and hid_force_open returns.
CallsReturn == (pc # "idle") ~> (pc = "idle")

\* Opening implements DeviceOwnership: an object is "opening" during a call
\* of hid_open or hid_force_open, and owns its target between calls.
Ownership == INSTANCE DeviceOwnership WITH
    Client <- Hid,
    Resource <- Device \X Iface,
    None <- NULL,
    phase <- [h \in Hid |-> IF ~Between(h) THEN "opening"
                            ELSE IF IsOpened(h) THEN "open" ELSE "closed"],
    owns <- [h \in Hid |-> IF Between(h) /\ IsOpened(h) THEN Target(h) ELSE NULL]

OwnershipSpec == Ownership!OwnSpec
=============================================================================
