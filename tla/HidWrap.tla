------------------------------ MODULE HidWrap ------------------------------
(***************************************************************************)
(* swig/hidwrap.py upon the library as a whole (hid_ctypes.py is the same  *)
(* in other words): the flag of the module, the class Interface with its   *)
(* constructor, close and destructor, and what happens when the            *)
(* interpreter exits.  The program that uses it has one thread.            *)
(*                                                                         *)
(* An Interface is named by the HIDInterface object that it makes; as the  *)
(* class never deletes that, no object belongs to two Interfaces.          *)
(***************************************************************************)
EXTENDS HidOpening

CONSTANTS
    Interface0,     \* the number 0
    MaxInits        \* how often the program may succeed with init()

ASSUME Interface0IsOne == Interface0 \in Iface
ASSUME MaxInitsNumber == MaxInits \in Nat

VARIABLES
    isInitialized,  \* IS_INITIALIZED[0]
    finalizers,     \* how often _finalize_hid is registered with atexit
    isOpen,         \* is_open of each Interface
    life,           \* where an Interface stands
    interpreter,    \* is the interpreter "running", "exiting", or has it "exited"?
    raised,         \* the method whose call has raised last, NULL if none did
    history         \* history: the Interfaces that close() was called on, and
                    \* whether cleanup() was called while one of them was open

pyVars == <<isInitialized, finalizers, isOpen, life, interpreter, raised, history>>
wrapVars == <<vars, pyVars>>

Method == {"init", "cleanup", "__init__", "__del__", "close"}

ASSUME NullIsNoMethod == NULL \notin Method

WrapTypeOK ==
    /\ TypeOK
    /\ isInitialized \in BOOLEAN
    /\ finalizers \in 0..MaxInits
    /\ isOpen \in [Hid -> BOOLEAN]
    /\ life \in [Hid -> {"none", "constructing", "live", "failed", "collected"}]
    /\ interpreter \in {"running", "exiting", "exited"}
    /\ raised \in Method \cup {NULL}
    /\ history \in [closed : SUBSET Hid, cleaned : BOOLEAN]

WrapInit ==
    /\ Init
    /\ isInitialized = FALSE
    /\ finalizers = 0
    /\ isOpen = [h \in Hid |-> FALSE]
    /\ life = [h \in Hid |-> "none"]
    /\ interpreter = "running"
    /\ raised = NULL
    /\ history = [closed |-> {}, cleaned |-> FALSE]

Constructing(h) == life[h] = "constructing"

\* The program is between two calls, and may make the next one.
Ready ==
    /\ interpreter = "running"
    /\ pc = "idle"
    /\ \A h \in Hid : ~Constructing(h)

\* _hid_raise
RaiseUnless(success, method) == raised' = IF success THEN NULL ELSE method

-----------------------------------------------------------------------------
(* The functions of the module.                                            *)

RegisterTwice == finalizers + 2
NeverRegister == finalizers
Registered == finalizers + 1

\* init(), called by the program or by a constructor
PyInit ==
    /\ HidInit
    /\ isInitialized' = (isInitialized \/ ret' = "SUCCESS")
    /\ finalizers < MaxInits
    /\ finalizers' = IF ret' = "SUCCESS" THEN Registered ELSE finalizers

InitCall ==
    /\ Ready
    /\ PyInit
    /\ RaiseUnless(ret' = "SUCCESS", "init")
    /\ UNCHANGED <<isOpen, life, interpreter, history>>

FlagLeft == isInitialized
FlagAfterCleanup == isInitialized /\ ret' # "SUCCESS"

\* cleanup(), which does not ask what is open
PyCleanup ==
    /\ HidCleanup
    /\ isInitialized' = FlagAfterCleanup
    /\ RaiseUnless(ret' = "SUCCESS", "cleanup")
    /\ history' = [history EXCEPT !.cleaned = @ \/ \E h \in Hid : IsOpened(h)]

CleanupCall ==
    /\ Ready
    /\ PyCleanup
    /\ UNCHANGED <<finalizers, isOpen, life, interpreter>>

-----------------------------------------------------------------------------
(* Interface()                                                             *)

\* The library is initialised on demand; without it there is no object.
ConstructInit(h) ==
    /\ Ready
    /\ life[h] = "none"
    /\ ~isInitialized
    /\ PyInit
    /\ life' = IF ret' = "SUCCESS" THEN [life EXCEPT ![h] = "constructing"] ELSE life
    /\ RaiseUnless(ret' = "SUCCESS", "__init__")
    /\ UNCHANGED <<isOpen, interpreter, history>>

ConstructNew(h) ==
    /\ Constructing(h) \/ (Ready /\ life[h] = "none" /\ isInitialized)
    /\ NewHIDInterface(h)
    /\ life' = [life EXCEPT ![h] = "constructing"]
    /\ UNCHANGED <<isInitialized, finalizers, isOpen, interpreter, raised, history>>

\* without force the number of the interface is not passed on
InterfaceOpened(i, force) == IF force THEN i ELSE Interface0

FlagSoon == TRUE
FlagAfterOpen == ret' = "SUCCESS"

\* What __init__ does with the result of hid_open and hid_force_open.
OpenReturned(h) ==
    /\ isOpen' = [isOpen EXCEPT ![h] = FlagAfterOpen]
    /\ life' = [life EXCEPT ![h] = IF ret' = "SUCCESS" THEN "live" ELSE "failed"]
    /\ RaiseUnless(ret' = "SUCCESS", "__init__")

ConstructOpen(h, i, m, force, retries) ==
    /\ Constructing(h)
    /\ m.accepts = Device
    /\ \/ /\ OpenBegin(h, InterfaceOpened(i, force), m, force, retries)
          /\ UNCHANGED <<isOpen, life, raised>>
       \/ OpenRejected(h, m) /\ OpenReturned(h)
    /\ UNCHANGED <<isInitialized, finalizers, interpreter, history>>

\* A step of hid_open or hid_force_open
ConstructStep ==
    /\ Step
    /\ IF pc' = "idle" THEN OpenReturned(call.hid) ELSE UNCHANGED <<isOpen, life, raised>>
    /\ UNCHANGED <<isInitialized, finalizers, interpreter, history>>

-----------------------------------------------------------------------------
(* The end of an Interface.                                                *)

\* close() leaves is_open as it is
Close(h) ==
    /\ Ready
    /\ life[h] = "live"
    /\ HidClose(h)
    /\ RaiseUnless(ret' = "SUCCESS", "close")
    /\ history' = [history EXCEPT !.closed = @ \cup {h}]
    /\ UNCHANGED <<isInitialized, finalizers, isOpen, life, interpreter>>

NeverClose(h) == FALSE
ClosesOnDel(h) == isOpen[h]

\* The program drops an Interface, perhaps one whose constructor has raised,
\* or the interpreter does so after the handlers of atexit.
Del(h) ==
    /\ Ready \/ (interpreter = "exiting" /\ finalizers = 0)
    /\ life[h] \in {"live", "failed"}
    /\ \/ /\ ClosesOnDel(h)
          /\ HidClose(h)
          /\ RaiseUnless(ret' = "SUCCESS", "__del__")
       \/ ~ClosesOnDel(h) /\ raised' = NULL /\ UNCHANGED vars
    /\ life' = [life EXCEPT ![h] = "collected"]
    /\ UNCHANGED <<isInitialized, finalizers, isOpen, interpreter, history>>

-----------------------------------------------------------------------------
(* The end of the interpreter.                                             *)

BeginExit ==
    /\ Ready
    /\ interpreter' = "exiting"
    /\ UNCHANGED <<vars, isInitialized, finalizers, isOpen, life, raised, history>>

\* atexit calls _finalize_hid as often as it was registered
Finalize ==
    /\ interpreter = "exiting"
    /\ finalizers > 0
    /\ finalizers' = finalizers - 1
    /\ \/ isInitialized /\ PyCleanup
       \/ ~isInitialized /\ UNCHANGED <<vars, isInitialized, raised, history>>
    /\ UNCHANGED <<isOpen, life, interpreter>>

\* Objects that are left are not collected.
Exit ==
    /\ interpreter = "exiting"
    /\ finalizers = 0
    /\ interpreter' = "exited"
    /\ UNCHANGED <<vars, isInitialized, finalizers, isOpen, life, raised, history>>

Gone == interpreter = "exited" /\ UNCHANGED wrapVars

-----------------------------------------------------------------------------
\* What goes on by itself once it has begun
Proceeding ==
    \/ ConstructStep
    \/ \E h \in Hid :
          /\ Constructing(h)
          /\ \/ ConstructNew(h)
             \/ \E i \in Iface, m \in Matcher :
                   \/ ConstructOpen(h, i, m, FALSE, 0)
                   \/ \E n \in 0..MaxRetries : ConstructOpen(h, i, m, TRUE, n)
    \/ Finalize
    \/ Exit

WrapNext ==
    \/ Proceeding
    \/ InitCall
    \/ CleanupCall
    \/ \E h \in Hid : ConstructInit(h) \/ ConstructNew(h) \/ Close(h) \/ Del(h)
    \/ BeginExit
    \/ interpreter # "exited" /\ Environment /\ UNCHANGED pyVars
    \/ Gone

WrapSpec == WrapInit /\ [][WrapNext]_wrapVars

-----------------------------------------------------------------------------
(* What is promised.                                                       *)

\* The flag of the module says what the library is, in any order of init(),
\* cleanup(), constructors that initialise on demand, and failures of these.
FlagTracksLibrary == isInitialized <=> initialised

\* Nothing stays open behind an Interface that is gone, whether its
\* constructor has failed, it was closed, or it was dropped while open.
NoneLeftOpen ==
    \A h \in Hid :
        IsOpened(h) => life[h] = "live" \/ (Constructing(h) /\ pc # "idle")

\* A destructor raises where usb_close fails, or the program has called
\* close() itself: is_open is set too often, never without an open.
DelRaises ==
    [][\A h \in Hid :
         life[h] # life'[h] /\ life'[h] = "collected" /\ raised' = "__del__"
            => IsOpened(h) \/ h \in history.closed]_wrapVars

\* When the interpreter has exited the library is cleaned up, however often it
\* was initialised and cleaned up before.
CleanAtExit == interpreter = "exited" => ~initialised

\* Initialising on demand never frees the device of an open Interface: that
\* takes a cleanup() while it was open.
FreedAfterCleanup == DeviceLive \/ history.cleaned
=============================================================================
