------------------------------ MODULE Programs ------------------------------
(***************************************************************************)
(* The C programs that come with libhid, each upon the library as a whole: *)
(* libhid-detach-device.c, test_libhid.c, and lshid.c with its loop and    *)
(* its matching function that remembers the devices it has been shown.     *)
(* They open one HIDInterface; at is where main() stands.                  *)
(***************************************************************************)
EXTENDS HidOpening

CONSTANTS
    Program,        \* the programs that are run
    Interface0,     \* the number 0
    HidClass,       \* the devices whose first interface is of the HID class
    AskedFor        \* the IDs that may be given on the command line

Lister == "lshid"
Detacher == "libhid-detach-device"
Tester == "test_libhid"

ASSUME ProgramsKnown == Program \subseteq {Lister, Detacher, Tester}
ASSUME Interface0IsOne == Interface0 \in Iface
ASSUME HidClassDevices == HidClass \subseteq Device
ASSUME AskedForIds == AskedFor \subseteq [vendor : SUBSET Bit, product : SUBSET Bit]
ASSUME MatchersSuffice ==
    \A ids \in AskedFor \cup {[vendor |-> {}, product |-> {}]}, A \in SUBSET Device :
        [vendor |-> ids.vendor, product |-> ids.product, accepts |-> A] \in Matcher
ASSUME RetriesSuffice == MaxRetries >= 3
ASSUME NullIsNoStatus == NULL \notin {0, 1}

VARIABLES
    program,        \* which of them runs
    asked,          \* the IDs it looks for
    at,             \* where its main() stands
    status,         \* its exit status, NULL while it runs
    seen,           \* hid_id, the table of lshid
    tried           \* history: the devices that were matched, with the outcome

mainVars == <<program, asked, at, status, seen, tried>>
programVars == <<vars, mainVars>>

Place == {"init", "new", "open", "opening", "write", "dump", "close", "delete",
          "cleanup", "exited"}

ProgramTypeOK ==
    /\ TypeOK
    /\ program \in Program
    /\ asked \in [vendor : SUBSET Bit, product : SUBSET Bit]
    /\ at \in Place
    /\ status \in {0, 1, NULL}
    /\ seen \in Seq(Device)
    /\ tried \in Seq(Device \X {"listed", "failed"})
    /\ (at = "opening") <=> (pc # "idle")
    /\ (at = "exited") <=> (status # NULL)

ProgramInit ==
    /\ Init
    /\ program \in Program
    /\ asked \in IF program = Lister THEN {[vendor |-> {}, product |-> {}]} ELSE AskedFor
    /\ at = "init"
    /\ status = NULL
    /\ seen = <<>>
    /\ tried = <<>>

Proceed(place) == at' = place /\ UNCHANGED status

Leave(code) == at' = "exited" /\ status' = code

-----------------------------------------------------------------------------
(* The matching function of lshid.                                         *)

SameAsFirst(d) == seen # <<>> /\ seen[1] = d
SeenBefore(d) == \E k \in DOMAIN seen : seen[k] = d

NeverEntered(d) == seen
\* device_iterator enters each device it is shown, HID or not.
SeenAfter(d) == IF SeenBefore(d) THEN seen ELSE Append(seen, d)

\* A scan shows each device once, so what device_iterator will say in it is
\* known when it begins.
Iterated == {d \in HidClass : ~SeenBefore(d)}

Wanted ==
    [vendor |-> asked.vendor, product |-> asked.product,
     accepts |-> IF program = Lister THEN Iterated ELSE Device]

-----------------------------------------------------------------------------
(* main()                                                                  *)

\* lshid does not look at the result
Initialise ==
    /\ at = "init"
    /\ HidInit
    /\ IF program = Lister \/ ret' = "SUCCESS" THEN Proceed("new") ELSE Leave(1)
    /\ UNCHANGED <<program, asked, seen, tried>>

\* lshid takes it for granted that there is memory
Allocate ==
    /\ at = "new"
    /\ \/ (\E h \in Hid : NewHIDInterface(h)) /\ Proceed("open")
       \/ program # Lister /\ Leave(1) /\ UNCHANGED vars
    /\ UNCHANGED <<program, asked, seen, tried>>

EndOnFailure(code) == code # "SUCCESS"
EndOnWrongCode(code) == code = "FAIL_OPEN_DEVICE"
EndOfList(code) == code = "DEVICE_NOT_FOUND"

OpenReturned(code) ==
    \/ program = Lister /\ Proceed(IF EndOfList(code) THEN "delete" ELSE "write")
    \/ program = Detacher /\ code = "SUCCESS" /\ Proceed("close")
    \/ program = Tester /\ code = "SUCCESS" /\ Proceed("write")
    \/ program # Lister /\ code # "SUCCESS" /\ Leave(1)

\* test_libhid takes the number of the interface from its command line
InterfaceNumber == IF program = Tester THEN Iface ELSE {Interface0}

ForceOpen(h) ==
    /\ at = "open"
    /\ \/ /\ \E i \in InterfaceNumber :
                OpenBegin(h, i, Wanted, TRUE, IF program = Lister THEN 2 ELSE 3)
          /\ Proceed("opening")
       \/ OpenRejected(h, Wanted) /\ OpenReturned(ret')
    /\ UNCHANGED <<program, asked, seen, tried>>

\* A step of hid_force_open; while it scans it calls the matching function.
Opening ==
    /\ Step
    /\ IF pc' = "idle" THEN OpenReturned(ret') ELSE UNCHANGED <<at, status>>
    /\ seen' = IF /\ pc = "scanClaim" /\ program = Lister
                  /\ ~PreviouslyMatched(handleOf[call.handle], interface[call.hid])
               THEN SeenAfter(handleOf[call.handle]) ELSE seen
    /\ tried' = IF pc = "giveUp" THEN Append(tried, <<device[call.hid], "failed">>)
                ELSE tried
    /\ UNCHANGED <<program, asked>>

\* hid_write_identification; strings that cannot be fetched are no failure
WriteIdentification(h) ==
    /\ at = "write"
    /\ tried' = IF IsOpened(h) THEN Append(tried, <<device[h], "listed">>) ELSE tried
    /\ IF program = Lister THEN Proceed("close")
       ELSE IF IsOpened(h) THEN Proceed("dump")
       ELSE Leave(1)
    /\ UNCHANGED <<vars, program, asked, seen>>

DumpTree(h) ==
    /\ at = "dump"
    /\ IF IsOpened(h) THEN Proceed("close") ELSE Leave(1)
    /\ UNCHANGED <<vars, program, asked, seen, tried>>

Close(h) ==
    /\ at = "close"
    /\ HidClose(h)
    /\ \/ program = Lister /\ Proceed("open")
       \/ program # Lister /\ ret' = "SUCCESS" /\ Proceed("delete")
       \/ program # Lister /\ ret' # "SUCCESS" /\ Leave(1)
    /\ UNCHANGED <<program, asked, seen, tried>>

Delete(h) ==
    /\ at = "delete"
    /\ DeleteHIDInterface(h)
    /\ Proceed("cleanup")
    /\ UNCHANGED <<program, asked, seen, tried>>

Cleanup ==
    /\ at = "cleanup"
    /\ HidCleanup
    /\ Leave(IF program = Lister \/ ret' = "SUCCESS" THEN 0 ELSE 1)
    /\ UNCHANGED <<program, asked, seen, tried>>

-----------------------------------------------------------------------------
ProgramStep ==
    \/ Initialise
    \/ Allocate
    \/ Opening
    \/ \E h \in alive : \/ ForceOpen(h)
                        \/ WriteIdentification(h)
                        \/ DumpTree(h)
                        \/ Close(h)
                        \/ Delete(h)
    \/ Cleanup

\* Nothing happens any more to a process that has exited.
Gone == at = "exited" /\ UNCHANGED programVars

ProgramNext ==
    \/ ProgramStep
    \/ at # "exited" /\ Environment /\ UNCHANGED mainVars
    \/ Gone

\* The process runs, and its calls return (Fairness in HidOpening).
ProgramSpec ==
    ProgramInit /\ [][ProgramNext]_programVars /\ WF_programVars(ProgramStep)

-----------------------------------------------------------------------------
(* What is promised.                                                       *)

\* lshid opens a device once: listed or failed, it does not come again.
TriedOnce ==
    \A j, k \in DOMAIN tried : tried[j][1] = tried[k][1] => j = k

\* When the loop of lshid ends, each HID device of the lists has been listed
\* or has failed to open, whatever came, went or failed in the meantime.
NoneMissed ==
    program = Lister /\ at \in {"delete", "cleanup", "exited"} =>
        \A d \in HidClass \cap ToSet(busDevices) :
            VendorId[d] # {} => \E k \in DOMAIN tried : tried[k][1] = d

\* The table of lshid has an entry for each device at most, so that 32 entries
\* are enough for 32 devices, however often they are scanned.
TableFits == Len(seen) <= Len(busDevices)

\* Before a program deletes its object, and however it ends, each handle that
\* it opened has been closed, those of devices that were passed over included.
LeavesNothingOpen ==
    at \in {"delete", "cleanup", "exited"} => \A x \in Handle : handleOf[x] = NULL

\* libhid-detach-device does not call a device detached that a driver still
\* has: what it closes with success it held until then.
DoneIsDetached ==
    [][program = Detacher /\ at = "close" /\ at' = "delete" =>
         \A h \in alive :
            plug[device[h]] = "attached" =>
                /\ holder[Target(h)] = devHandle[h]
                /\ holder'[Target(h)] = Free]_programVars

\* An open of lshid that the next round repeats as it was
Futile == program = Lister /\ at # "write" /\ at' = "write"
          /\ ret' \in {"FAIL_OPEN_DEVICE", "NOT_INITIALISED"}

\* Every program ends, unless it is lshid and opens go on failing with the two
\* results that leave nothing behind: hid_init has failed, or a device of the
\* lists cannot be opened.
ProgramEnds == <>(at = "exited") \/ []<><<Futile>>_programVars
=============================================================================
