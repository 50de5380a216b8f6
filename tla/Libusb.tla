------------------------------- MODULE Libusb -------------------------------
(***************************************************************************)
(* The environment of libhid: libusb 0.1 and the kernel below it, as the   *)
(* code in src/src uses them.  None of this code is in the repository; the *)
(* module says what a libusb call may do, and what the world does between  *)
(* two calls: devices come and go, and other drivers take and give up      *)
(* interfaces.                                                             *)
(*                                                                         *)
(* A Device is one attachment of a device: a device that is unplugged and  *)
(* plugged in again is another Device, with a struct usb_device of its own.*)
(***************************************************************************)
EXTENDS Naturals, FiniteSets, Sequences, SequencesExt

CONSTANTS
    Device,     \* the attachments, each with one struct usb_device
    Iface,      \* interface numbers
    Handle,     \* usb_dev_handle values: one per file the process may open
    NULL,       \* no handle, no device, no interface
    Free,       \* an interface that nobody has claimed
    Foreign,    \* claimed by a kernel driver or by another process
    Evictions   \* whether other processes detach what this one has claimed

ASSUME DeviceFinite == IsFiniteSet(Device)
ASSUME NullIsNothing == NULL \notin Device \cup Iface \cup Handle
ASSUME HoldersDiffer == /\ Free \notin Handle
                        /\ Foreign \notin Handle
                        /\ Free # Foreign
ASSUME EvictionsBoolean == Evictions \in BOOLEAN

VARIABLES
    plug,         \* is the device not yet here, attached, or gone for good?
    busDevices,   \* what the lists from usb_get_busses() hold, in order
    handleOf,     \* the device an open handle belongs to, NULL when closed
    holder        \* who has claimed an interface of a device

usbVars == <<plug, busDevices, handleOf, holder>>

UsbTypeOK ==
    /\ plug \in [Device -> {"absent", "attached", "gone"}]
    /\ busDevices \in Seq(Device)
    /\ handleOf \in [Handle -> Device \cup {NULL}]
    /\ holder \in [Device \X Iface -> Handle \cup {Free, Foreign}]

UsbInit ==
    /\ plug \in [Device -> {"absent", "attached"}]
    /\ busDevices = <<>>
    /\ handleOf = [x \in Handle |-> NULL]
    /\ holder \in [Device \X Iface -> {Free, Foreign}]

Attached == {d \in Device : plug[d] = "attached"}

-----------------------------------------------------------------------------
(* The calls.  Each is atomic; the environment may move between two.       *)

\* usb_find_busses() and usb_find_devices(): relink the lists, which drops
\* and frees the struct of every device that is gone.
FindDevices == busDevices' \in SetToSeqs(Attached)

\* usb_open(d) gives handle x; it needs the device node of an attached
\* device.  It may always fail instead (permissions, no file left).
UsbOpen(d, x) ==
    /\ plug[d] = "attached"
    /\ handleOf[x] = NULL
    /\ handleOf' = [handleOf EXCEPT ![x] = d]

\* usb_close(x): the kernel drops the claims of the handle.
UsbClose(x) ==
    /\ handleOf' = [handleOf EXCEPT ![x] = NULL]
    /\ holder' = [p \in DOMAIN holder |->
                    IF holder[p] = x THEN Free ELSE holder[p]]

\* usb_claim_interface(x, i) returns 0, also to a handle that has the claim.
Claimable(x, i) ==
    /\ plug[handleOf[x]] = "attached"
    /\ holder[<<handleOf[x], i>>] \in {Free, x}

\* The claims after usb_claim_interface(x, i), whatever it returned.
AfterClaim(x, i) ==
    IF Claimable(x, i) THEN [holder EXCEPT ![<<handleOf[x], i>>] = x] ELSE holder

\* usb_detach_kernel_driver_np(x, i) unbinds whatever holds the interface,
\* a kernel driver or the claim of any process; it fails when nothing does.
Detachable(x, i) ==
    /\ plug[handleOf[x]] = "attached"
    /\ holder[<<handleOf[x], i>>] # Free

AfterDetach(x, i) == [holder EXCEPT ![<<handleOf[x], i>>] = Free]

\* A control transfer can only be answered by a device that is still there.
Answers(x) == plug[handleOf[x]] = "attached"

-----------------------------------------------------------------------------
(* What happens between the calls.                                         *)

Plug(d) ==
    /\ plug[d] = "absent"
    /\ plug' = [plug EXCEPT ![d] = "attached"]
    /\ UNCHANGED <<busDevices, handleOf, holder>>

\* The kernel drops every claim on a device that disappears; handles on it
\* stay open, and so does its struct in the lists until the next rescan.
Unplug(d) ==
    /\ plug[d] = "attached"
    /\ plug' = [plug EXCEPT ![d] = "gone"]
    /\ holder' = [p \in DOMAIN holder |-> IF p[1] = d THEN Free ELSE holder[p]]
    /\ UNCHANGED <<busDevices, handleOf>>

ForeignClaim(p) ==
    /\ p[1] \in Attached
    /\ holder[p] = Free
    /\ holder' = [holder EXCEPT ![p] = Foreign]
    /\ UNCHANGED <<plug, busDevices, handleOf>>

ForeignRelease(p) ==
    /\ holder[p] = Foreign
    /\ holder' = [holder EXCEPT ![p] = Free]
    /\ UNCHANGED <<plug, busDevices, handleOf>>

\* Another process detaches the interface, as hid_force_open would.
ForeignEvict(p) ==
    /\ Evictions
    /\ holder[p] \in Handle
    /\ holder' = [holder EXCEPT ![p] = Free]
    /\ UNCHANGED <<plug, busDevices, handleOf>>

UsbNext ==
    \/ \E d \in Device : Plug(d) \/ Unplug(d)
    \/ \E p \in Device \X Iface :
          ForeignClaim(p) \/ ForeignRelease(p) \/ ForeignEvict(p)
=============================================================================
