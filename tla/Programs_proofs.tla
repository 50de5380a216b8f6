-------------------------- MODULE Programs_proofs --------------------------
(***************************************************************************)
(* Theorems about Programs, for any devices, IDs and environment.          *)
(***************************************************************************)
EXTENDS Programs, HidOpening_proofs

AnyIds == [vendor |-> {}, product |-> {}]

\* main() has one object, and a call of the library under way just when it
\* is opening.
MainInv ==
    /\ program \in Program
    /\ asked \in AskedFor \cup {AnyIds}
    /\ at = "opening" <=> pc # "idle"
    /\ \A g, h \in alive : g = h
    /\ at \in {"init", "new"} => alive = {}

\* What main() passes is what HidOpening lets clients pass.
LEMMA WantedIsMatcher ==
    ASSUME MainInv PROVE Wanted \in Matcher
<1> DEFINE accepted == IF program = Lister THEN Iterated ELSE Device
<1>1. accepted \in SUBSET Device
  BY HidClassDevices DEF Iterated
<1>2. asked \in AskedFor \cup {[vendor |-> {}, product |-> {}]}
  BY DEF MainInv, AnyIds
<1>3. [vendor |-> asked.vendor, product |-> asked.product, accepts |-> accepted] \in Matcher
  BY <1>1, <1>2, MatchersSuffice
<1> QED  BY <1>3 DEF Wanted

\* A program moves the library by its own steps only.
LEMMA ProgramMoves ==
    ASSUME TypeOK, MainInv, [ProgramNext]_programVars
    PROVE  [Next]_vars
<1>1. alive \subseteq Hid
  BY DEF TypeOK
<1>2. CASE Initialise \/ Cleanup
  BY <1>2 DEF Initialise, Cleanup, Next, Client
<1>3. CASE Allocate
  BY <1>3 DEF Allocate, Next, Client
<1>4. CASE Opening
  BY <1>4 DEF Opening, Next
<1>5. ASSUME NEW h \in alive, ForceOpen(h)
      PROVE  Next
  <2>1. 2 \in 0..MaxRetries /\ 3 \in 0..MaxRetries
    BY RetriesSuffice, BoundsAreNumbers
  <2>2. InterfaceNumber \subseteq Iface
    BY Interface0IsOne DEF InterfaceNumber
  <2>3. \/ \E i \in Iface, n \in 0..MaxRetries : OpenBegin(h, i, Wanted, TRUE, n)
        \/ OpenRejected(h, Wanted)
    BY <1>5, <2>1, <2>2 DEF ForceOpen
  <2> QED  BY <1>1, <2>3, WantedIsMatcher DEF Next, Client
<1>6. ASSUME NEW h \in alive, WriteIdentification(h) \/ DumpTree(h)
      PROVE  UNCHANGED vars
  BY <1>6 DEF WriteIdentification, DumpTree
<1>7. ASSUME NEW h \in alive, Close(h) \/ Delete(h)
      PROVE  Next
  BY <1>1, <1>7 DEF Close, Delete, Next, Client
<1>8. CASE Environment
  BY <1>8 DEF Next
<1>9. CASE Gone \/ UNCHANGED programVars
  BY <1>9, SMTT(60) DEF Gone, programVars
<1> QED  BY <1>2, <1>3, <1>4, <1>5, <1>6, <1>7, <1>8, <1>9 DEF ProgramNext, ProgramStep

\* Where the library may stand after a step of an open.
LEMMA StepKeeps ==
    ASSUME Step PROVE UNCHANGED alive
BY ZenonT(60) DEF Step, ScanFails, ScanOpen, ScanClaim, ScanClose, ClaimOnce, ClaimOrRetry, DetachDriver,
       InitParser, PrepareHidDescriptor, PrepareReportDescriptor, GiveUp, hidVars

LEMMA ReturnedPlace ==
    ASSUME NEW code, OpenReturned(code)
    PROVE  at' \in {"write", "close", "delete", "exited"}
BY DEF OpenReturned, Proceed, Leave

LEMMA MainStep ==
    ASSUME Inv, MainInv, [ProgramNext]_programVars PROVE MainInv'
<1>1. program' = program /\ asked' = asked
  BY DEF ProgramNext, ProgramStep, Initialise, Allocate, Opening, ForceOpen,
         WriteIdentification, DumpTree, Close, Delete, Cleanup, Gone, programVars, mainVars
<1>2. CASE Initialise
  BY <1>1, <1>2 DEF MainInv, Initialise, HidInit, hidVars, Proceed, Leave
<1>3. CASE Allocate
  BY <1>1, <1>3 DEF MainInv, Allocate, NewHIDInterface, vars, hidVars, Proceed, Leave
<1>4. CASE Opening
  <2>1. alive' = alive /\ at = "opening"
    BY <1>4, StepKeeps, ZenonT(60) DEF Opening, MainInv, Step, ScanFails, ScanOpen, ScanClaim, ScanClose,
       ClaimOnce, ClaimOrRetry, DetachDriver, InitParser, PrepareHidDescriptor,
       PrepareReportDescriptor, GiveUp
  <2>2. IF pc' = "idle" THEN at' \in {"write", "close", "delete", "exited"} ELSE at' = at
    BY <1>4, ReturnedPlace DEF Opening
  <2> QED  BY <1>1, <2>1, <2>2, SMTT(60) DEF MainInv
<1>5. ASSUME NEW h \in alive, ForceOpen(h)
      PROVE  MainInv'
  <2>1. CASE at' = "opening" /\ pc' = "scan" /\ alive' = alive
    BY <1>1, <2>1 DEF MainInv
  <2>2. CASE OpenRejected(h, Wanted) /\ OpenReturned(ret')
    BY <1>1, <2>2, ReturnedPlace DEF MainInv, OpenRejected, hidVars
  <2> QED  BY <1>5, <2>1, <2>2 DEF ForceOpen, OpenBegin, Goto, Proceed
<1>6. ASSUME NEW h \in alive, WriteIdentification(h) \/ DumpTree(h)
      PROVE  MainInv'
  BY <1>1, <1>6 DEF MainInv, WriteIdentification, DumpTree, vars, hidVars, Proceed, Leave
<1>7. ASSUME NEW h \in alive, Close(h) \/ Delete(h)
      PROVE  MainInv'
  BY <1>1, <1>7 DEF MainInv, Close, HidClose, Delete, DeleteHIDInterface, Proceed, Leave
<1>8. CASE Cleanup
  BY <1>1, <1>8 DEF MainInv, Cleanup, HidCleanup, hidVars, Leave
<1>9. CASE Environment /\ UNCHANGED mainVars
  BY <1>1, <1>9 DEF MainInv, Environment, hidVars, mainVars
<1>10. CASE Gone \/ UNCHANGED programVars
  BY <1>1, <1>10 DEF MainInv, Gone, programVars, mainVars, vars, hidVars
<1> QED  BY <1>2, <1>3, <1>4, <1>5, <1>6, <1>7, <1>8, <1>9, <1>10 DEF ProgramNext, ProgramStep

LEMMA ProgramInvariant == ProgramSpec => [](Inv /\ MainInv)
<1>1. ProgramInit => Inv /\ MainInv
  BY InitInv DEF ProgramInit, MainInv, AnyIds, Init
<1>2. Inv /\ MainInv /\ [ProgramNext]_programVars => (Inv /\ MainInv)'
  <2>1. ASSUME Inv, [Next]_vars PROVE Inv'
    BY <2>1, TypeStep, CallStep, ListStep, WholeStep DEF Inv, OpeningInv
  <2> QED  BY <2>1, ProgramMoves, MainStep DEF Inv
<1> QED  BY <1>1, <1>2, PTL DEF ProgramSpec

\* The programs use the library as its clients may, so that what holds of it
\* for such clients holds under each of them.
THEOREM ProgramsKeepOpening == ProgramSpec => [](TypeOK /\ OpeningInv)
<1>1. Inv => TypeOK /\ OpeningInv
  BY DEF Inv
<1> QED  BY <1>1, ProgramInvariant, PTL

-----------------------------------------------------------------------------
(* No device is opened twice.                                              *)

Tried(d) == \E k \in DOMAIN tried : tried[k][1] = d

\* a device that may be entered in tried
Fresh(d) == d \in Device /\ ~Tried(d) /\ (program = Lister => SeenBefore(d))

\* What device_iterator accepts in a scan was not tried before the scan, and
\* what is open was seen by it and not tried yet.
TriedInv ==
    /\ seen \in Seq(Device)
    /\ tried \in Seq(Device \X {"listed", "failed"})
    /\ TriedOnce
    /\ program = Lister => \A d \in Device : Tried(d) => SeenBefore(d)
    /\ program # Lister /\ at \in {"init", "new", "open", "opening", "write"} => tried = <<>>
    /\ at = "open" => \A h \in alive : ~IsOpened(h)
    /\ pc \in Scanning => \A d \in call.matcher.accepts : ~Tried(d)
    /\ pc \in Holding => Fresh(device[call.hid])
    /\ pc = "giveUp" => call.code # "SUCCESS"
    /\ at = "write" => \A h \in alive : IsOpened(h) => Fresh(device[h])

LEMMA SeenGrows ==
    ASSUME seen \in Seq(Device), NEW d \in Device, seen' = SeenAfter(d)
    PROVE  /\ seen' \in Seq(Device)
           /\ SeenBefore(d)'
           /\ \A e \in Device : SeenBefore(e) => SeenBefore(e)'
<1>1. CASE SeenBefore(d)
  BY <1>1 DEF SeenAfter, SeenBefore
<1>2. CASE ~SeenBefore(d)
  <2>1. seen' = Append(seen, d)
    BY <1>2 DEF SeenAfter
  <2>2. /\ seen' \in Seq(Device)
        /\ Len(seen) + 1 \in DOMAIN seen' /\ seen'[Len(seen) + 1] = d
        /\ \A k \in DOMAIN seen : k \in DOMAIN seen' /\ seen'[k] = seen[k]
    BY <2>1
  <2> QED  BY <2>2 DEF SeenBefore
<1> QED  BY <1>1, <1>2

LEMMA TriedGrows ==
    ASSUME tried \in Seq(Device \X {"listed", "failed"}), TriedOnce,
           NEW d \in Device, ~Tried(d), NEW outcome \in {"listed", "failed"},
           tried' = Append(tried, <<d, outcome>>)
    PROVE  /\ tried' \in Seq(Device \X {"listed", "failed"})
           /\ TriedOnce'
           /\ \A e \in Device : Tried(e)' <=> Tried(e) \/ e = d
<1>1. /\ tried' \in Seq(Device \X {"listed", "failed"})
      /\ DOMAIN tried' = DOMAIN tried \cup {Len(tried) + 1}
      /\ Len(tried) + 1 \notin DOMAIN tried
      /\ tried'[Len(tried) + 1][1] = d
      /\ \A k \in DOMAIN tried : tried'[k] = tried[k]
  OBVIOUS
<1>2. TriedOnce'
  BY <1>1 DEF TriedOnce, Tried
<1>3. \A e \in Device : Tried(e)' <=> Tried(e) \/ e = d
  BY <1>1 DEF Tried
<1> QED  BY <1>1, <1>2, <1>3

\* A step of an open: the scan, then the claim and the preparation.
LEMMA TriedOpening ==
    ASSUME Inv, MainInv, TriedInv, Opening PROVE TriedInv'
<1> USE DEF Goto, Return, Scanning, Holding, IsOpened
<1>1. /\ program' = program /\ at = "opening" /\ pc # "idle"
      /\ call.hid \in alive /\ call.hid \in Hid /\ alive' = alive
      /\ \A h \in alive : h = call.hid
  BY CallType, StepKeeps, ZenonT(60) DEF Opening, Inv, OpeningInv, CallInv, MainInv, TypeOK, Step, ScanFails,
     ScanOpen, ScanClaim, ScanClose, ClaimOnce, ClaimOrRetry, DetachDriver, InitParser,
     PrepareHidDescriptor, PrepareReportDescriptor, GiveUp
<1>2. IF pc' = "idle" THEN at' \in {"write", "close", "delete", "exited"} ELSE at' = "opening"
  BY <1>1, ReturnedPlace DEF Opening
<1>3. program # Lister /\ pc' = "idle" /\ at' = "write" => ret' = "SUCCESS"
  BY DEF Opening, OpenReturned, Proceed, Leave, Lister, Tester, Detacher
<1>4. device \in [Hid -> Device \cup {NULL}] /\ devHandle \in [Hid -> Handle \cup {NULL}]
  BY DEF Inv, TypeOK
<1>5. CASE ScanClaim
  <2>1. PICK d \in Device : d = handleOf[call.handle]
    BY <1>5 DEF ScanClaim, Inv, OpeningInv, CallInv
  <2>2. seen' = seen \/ seen' = SeenAfter(d)
    BY <1>5, <2>1 DEF Opening, ScanClaim
  <2>3. /\ seen' \in Seq(Device)
        /\ \A e \in Device : SeenBefore(e) => SeenBefore(e)'
    BY <2>1, <2>2, SeenGrows DEF TriedInv, SeenBefore
  <2>4. tried' = tried
    BY <1>5 DEF Opening, ScanClaim
  <2>5. CASE pc' \in Scanning
    <3>1. call'.matcher = call.matcher
      BY <1>1, <1>5, <2>5, CallType DEF ScanClaim, Call, Inv
    <3> QED  BY <1>1, <1>2, <1>5, <2>3, <2>4, <2>5, <3>1
             DEF TriedInv, TriedOnce, Tried, ScanClaim
  <2>6. CASE pc' \in Holding
    <3>1. /\ ~PreviouslyMatched(d, interface[call.hid])
          /\ d \in call.matcher.accepts
          /\ device' = [device EXCEPT ![call.hid] = d]
          /\ call'.hid = call.hid
      BY <1>1, <1>5, <2>1, <2>6, CallType DEF ScanClaim, CompareUsbDevice, Call, Inv
    <3>2. program = Lister => SeenBefore(d)'
      BY <1>5, <2>1, <3>1, SeenGrows DEF Opening, ScanClaim, TriedInv
    <3>3. ~Tried(d)'
      BY <1>5, <2>4, <3>1 DEF TriedInv, ScanClaim, Tried
    <3>4. Fresh(device[call.hid])'
      BY <1>1, <1>4, <2>1, <3>1, <3>2, <3>3 DEF Fresh
    <3>5. pc' = "claim"
      BY <1>5, <2>6 DEF ScanClaim
    <3> QED  BY <1>1, <1>2, <2>3, <2>4, <2>6, <3>4, <3>5 DEF TriedInv, TriedOnce, Tried
  <2> QED  BY <1>5, <2>5, <2>6 DEF ScanClaim
<1>6. CASE GiveUp
  <2>1. /\ seen' = seen
        /\ tried' = Append(tried, <<device[call.hid], "failed">>)
        /\ pc' = "idle" /\ pc = "giveUp"
    BY <1>6 DEF Opening, GiveUp
  <2>2. \A h \in alive' : ~IsOpened(h)'
    BY <1>1, <1>4, <1>6 DEF GiveUp, ForgetHid, ResetHid
  <2>3. Fresh(device[call.hid])
    BY <2>1 DEF TriedInv
  <2>4. /\ tried' \in Seq(Device \X {"listed", "failed"})
        /\ TriedOnce'
        /\ \A e \in Device : Tried(e)' <=> Tried(e) \/ e = device[call.hid]
    BY <2>1, <2>3, TriedGrows DEF TriedInv, Fresh
  <2>5. ret' # "SUCCESS"
    BY <1>6 DEF GiveUp, TriedInv
  <2> QED  BY <1>1, <1>2, <1>3, <2>1, <2>2, <2>3, <2>4, <2>5
           DEF TriedInv, Fresh, SeenBefore
<1>7. CASE ~ScanClaim /\ ~GiveUp
  <2>1. pc # "scanClaim" /\ pc # "giveUp"
    BY <1>7 DEF Opening, Step, ScanFails, ScanOpen, ScanClose, ClaimOnce, ClaimOrRetry,
       DetachDriver, InitParser, PrepareHidDescriptor, PrepareReportDescriptor
  <2>2. seen' = seen /\ tried' = tried
    BY <2>1 DEF Opening
  <2>3. CASE \E code : ScanFails(code)
    <3>1. \A h \in alive' : ~IsOpened(h)'
      BY <1>1, <1>4, <2>3 DEF ScanFails
    <3>2. pc' = "idle" /\ pc \in Scanning
      BY <2>3 DEF ScanFails
    <3> QED  BY <1>1, <1>2, <2>2, <3>1, <3>2
             DEF TriedInv, TriedOnce, Tried, SeenBefore
  <2>4. CASE (\E x \in Handle : ScanOpen(x)) \/ ScanClose
    <3>1. call'.matcher = call.matcher /\ pc \in Scanning /\ pc' \in Scanning
      BY <1>1, <2>4, CallType DEF ScanOpen, ScanClose, Call, Inv
    <3> QED  BY <1>1, <1>2, <2>2, <3>1 DEF TriedInv, TriedOnce, Tried, SeenBefore
  <2>5. CASE \/ ClaimOnce \/ ClaimOrRetry \/ DetachDriver \/ InitParser
             \/ PrepareHidDescriptor \/ PrepareReportDescriptor
    <3>1. /\ device' = device
          /\ pc \in Holding
          /\ pc' \in Holding \cup {"idle"}
          /\ pc' # "idle" => call'.hid = call.hid
      BY <1>1, <2>5, CallType DEF ClaimOnce, ClaimOrRetry, DetachDriver, InitParser,
         PrepareHidDescriptor, PrepareReportDescriptor, hidVars, Call, Inv
    <3>2. pc' = "giveUp" => call'.code # "SUCCESS"
      BY <1>1, <2>5, CallType DEF ClaimOnce, ClaimOrRetry, DetachDriver, InitParser,
         PrepareHidDescriptor, PrepareReportDescriptor, Call, Inv
    <3> QED  BY <1>1, <1>2, <2>2, <3>1, <3>2 DEF TriedInv, TriedOnce, Fresh, Tried, SeenBefore
  <2> QED  BY <1>7, <2>3, <2>4, <2>5, SMTT(60) DEF Opening, Step
<1> QED  BY <1>5, <1>6, <1>7, SMTT(60)

LEMMA TriedStep ==
    ASSUME Inv, MainInv, TriedInv, [ProgramNext]_programVars PROVE TriedInv'
<1> USE DEF Scanning, Holding
<1>1. alive \subseteq Hid
  BY DEF Inv, TypeOK
<1>2. ASSUME UNCHANGED <<alive, devHandle, device, pc, call, program, seen, tried>>,
             at' # "open", at' = "write" => at = "write" \/ \A h \in alive : ~IsOpened(h),
             at' \in {"init", "new", "opening", "write"} =>
                at \in {"init", "new", "open", "opening", "write"}
      PROVE  TriedInv'
  BY <1>2 DEF TriedInv, TriedOnce, Tried, Fresh, SeenBefore, IsOpened
<1>3. CASE Initialise \/ Cleanup
  <2>1. UNCHANGED <<alive, devHandle, device, pc, call, program, seen, tried>>
    BY <1>3 DEF Initialise, HidInit, Cleanup, HidCleanup, hidVars
  <2>2. at' = "exited" \/ (at' = "new" /\ at = "init")
    BY <1>3 DEF Initialise, Cleanup, Proceed, Leave
  <2> QED  BY <1>2, <2>1, <2>2
<1>4. CASE Allocate
  <2>1. CASE at' = "exited" /\ UNCHANGED vars
    BY <1>2, <1>4, <2>1 DEF Allocate, vars, hidVars
  <2>2. ASSUME NEW h \in Hid, NewHIDInterface(h), at' = "open"
        PROVE  TriedInv'
    <3>1. /\ alive' = {h} /\ devHandle' = [devHandle EXCEPT ![h] = NULL]
          /\ pc' = "idle" /\ at = "new"
      BY <1>4, <2>2 DEF Allocate, NewHIDInterface, ResetHid, MainInv
    <3>2. devHandle \in [Hid -> Handle \cup {NULL}]
      BY DEF Inv, TypeOK
    <3>3. UNCHANGED <<program, seen, tried>>
      BY <1>4 DEF Allocate
    <3> QED  BY <2>2, <3>1, <3>2, <3>3
             DEF TriedInv, TriedOnce, Tried, Fresh, SeenBefore, IsOpened
  <2> QED  BY <1>4, <2>1, <2>2 DEF Allocate, Proceed, Leave
<1>5. ASSUME NEW h \in alive, ForceOpen(h)
      PROVE  TriedInv'
  <2>1. UNCHANGED <<alive, devHandle, device, program, seen, tried>> /\ at = "open"
    BY <1>5 DEF ForceOpen, OpenBegin, OpenRejected, hidVars
  <2>2. CASE OpenRejected(h, Wanted) /\ OpenReturned(ret')
    <3>1. UNCHANGED <<pc, call>> /\ \A g \in alive : ~IsOpened(g)
      BY <2>1, <2>2 DEF OpenRejected, TriedInv
    <3> QED  BY <1>2, <2>1, <2>2, <3>1, ReturnedPlace
  <2>3. CASE at' = "opening" /\ pc' = "scan" /\ call'.matcher = Wanted
    <3>1. \A d \in Wanted.accepts : ~Tried(d)
      BY <2>1, HidClassDevices DEF Wanted, Iterated, TriedInv, Tried
    <3> QED  BY <2>1, <2>3, <3>1 DEF TriedInv, TriedOnce, Tried, SeenBefore
  <2> QED  BY <1>5, <2>2, <2>3 DEF ForceOpen, OpenBegin, Goto, Proceed
<1>6. ASSUME NEW h \in alive, WriteIdentification(h)
      PROVE  TriedInv'
  <2>1. /\ UNCHANGED <<alive, devHandle, device, pc, call, program, seen>>
        /\ at = "write" /\ at' \in {"close", "dump", "exited"} /\ pc = "idle"
    BY <1>6 DEF WriteIdentification, vars, hidVars, Proceed, Leave, MainInv
  <2>2. CASE IsOpened(h)
    <3>1. tried' = Append(tried, <<device[h], "listed">>) /\ Fresh(device[h])
      BY <1>6, <2>2 DEF WriteIdentification, TriedInv
    <3>2. /\ tried' \in Seq(Device \X {"listed", "failed"})
          /\ TriedOnce'
          /\ \A e \in Device : Tried(e)' <=> Tried(e) \/ e = device[h]
      BY <3>1, TriedGrows DEF TriedInv, Fresh
    <3> QED  BY <2>1, <3>1, <3>2 DEF TriedInv, Fresh, SeenBefore
  <2>3. CASE ~IsOpened(h)
    BY <1>2, <1>6, <2>1, <2>3 DEF WriteIdentification
  <2> QED  BY <2>2, <2>3
<1>7. ASSUME NEW h \in alive, DumpTree(h)
      PROVE  TriedInv'
  BY <1>2, <1>7 DEF DumpTree, vars, hidVars, Proceed, Leave
<1>8. ASSUME NEW h \in alive, Close(h)
      PROVE  TriedInv'
  <2>1. /\ UNCHANGED <<alive, pc, call, program, seen, tried>> /\ pc = "idle"
        /\ devHandle' = [devHandle EXCEPT ![h] = NULL]
        /\ at = "close" /\ at' \in {"open", "delete", "exited"}
        /\ at' = "open" => program = Lister
    BY <1>8 DEF Close, HidClose, ForgetHid, ResetHid, Proceed, Leave
  <2>2. \A g \in alive' : ~IsOpened(g)'
    BY <1>1, <2>1 DEF MainInv, IsOpened, Inv, TypeOK
  <2> QED  BY <2>1, <2>2 DEF TriedInv, TriedOnce, Tried, SeenBefore
<1>9. ASSUME NEW h \in alive, Delete(h)
      PROVE  TriedInv'
  <2>1. /\ UNCHANGED <<devHandle, device, pc, call, program, seen, tried>> /\ pc = "idle"
        /\ at' = "cleanup"
    BY <1>9 DEF Delete, DeleteHIDInterface, Proceed
  <2> QED  BY <2>1 DEF TriedInv, TriedOnce, Tried, SeenBefore
<1>10. CASE (Environment /\ UNCHANGED mainVars) \/ Gone \/ UNCHANGED programVars
  <2>1. UNCHANGED <<alive, devHandle, device, pc, call, program, seen, tried, at>>
    BY <1>10 DEF Environment, Gone, programVars, mainVars, vars, hidVars
  <2> QED  BY <2>1 DEF TriedInv, TriedOnce, Tried, Fresh, SeenBefore, IsOpened
<1> QED  BY <1>3, <1>4, <1>5, <1>6, <1>7, <1>8, <1>9, <1>10, TriedOpening
         DEF ProgramNext, ProgramStep

LEMMA TriedInvariant == ProgramSpec => [](Inv /\ MainInv /\ TriedInv)
<1>1. ProgramInit => TriedInv
  BY DEF ProgramInit, Init, TriedInv, TriedOnce, Tried, Scanning, Holding
<1>2. Inv /\ MainInv /\ TriedInv /\ [ProgramNext]_programVars => TriedInv'
  BY TriedStep
<1> QED  BY <1>1, <1>2, ProgramInvariant, PTL DEF ProgramSpec

\* lshid, whose table remembers what it was shown, opens no device a second
\* time, listed or failed, however many devices come, go and fail in between.
THEOREM ListedOnce == ProgramSpec => []TriedOnce
<1>1. TriedInv => TriedOnce
  BY DEF TriedInv
<1> QED  BY <1>1, TriedInvariant, PTL

\* Every variable of the programs keeps its type, and main() is at "opening"
\* just while a call is under way and has a status just when it has exited.
THEOREM ProgramTypesCorrect == ProgramSpec => []ProgramTypeOK
<1> DEFINE StatusInv == status \in {0, 1, NULL} /\ at \in Place /\ (at = "exited" <=> status # NULL)
<1>1. ProgramInit => StatusInv
  BY DEF ProgramInit, Place
<1>2. MainInv /\ StatusInv /\ [ProgramNext]_programVars => StatusInv'
  <2>1. ASSUME NEW code, OpenReturned(code)
        PROVE  (at' = "exited" /\ status' = 1) \/ (at' \in Place \ {"exited"} /\ status' = status)
    BY <2>1 DEF OpenReturned, Proceed, Leave, Place
  <2>2. ASSUME MainInv, StatusInv, ProgramStep
        PROVE  StatusInv'
    <3>1. CASE Opening
      <4>1. at = "opening" /\ status = NULL
        BY <2>2, <3>1 DEF MainInv, Opening, Step, ScanFails, ScanOpen, ScanClaim, ScanClose,
           ClaimOnce, ClaimOrRetry, DetachDriver, InitParser, PrepareHidDescriptor,
           PrepareReportDescriptor, GiveUp
      <4>2. OpenReturned(ret') \/ (at' = at /\ status' = status)
        BY <3>1 DEF Opening
      <4> QED  BY <2>1, <4>1, <4>2, NullIsNoStatus, SMTT(60) DEF Place
    <3>2. ASSUME NEW h, ForceOpen(h)
          PROVE  StatusInv'
      <4>1. at = "open" /\ status = NULL
        BY <2>2, <3>2 DEF ForceOpen
      <4>2. \/ at' = "opening" /\ status' = status
            \/ OpenReturned(ret')
        BY <3>2 DEF ForceOpen, Proceed
      <4> QED  BY <2>1, <4>1, <4>2, NullIsNoStatus DEF Place
    <3>3. CASE Initialise \/ Allocate \/ Cleanup
      BY <2>2, <3>3, NullIsNoStatus DEF Initialise, Allocate, Cleanup, Proceed, Leave, Place
    <3>4. ASSUME NEW h, WriteIdentification(h) \/ DumpTree(h) \/ Close(h) \/ Delete(h)
          PROVE  StatusInv'
      BY <2>2, <3>4, NullIsNoStatus DEF WriteIdentification, DumpTree, Close, Delete, Proceed,
         Leave, Place
    <3> QED  BY <2>2, <3>1, <3>2, <3>3, <3>4 DEF ProgramStep
  <2> QED  BY <2>2 DEF ProgramNext, Gone, programVars, mainVars
<1>3. Inv /\ MainInv /\ TriedInv /\ StatusInv => ProgramTypeOK
  BY AskedForIds DEF Inv, MainInv, TriedInv, AnyIds, ProgramTypeOK
<1> QED  BY <1>1, <1>2, <1>3, TriedInvariant, PTL DEF ProgramSpec

-----------------------------------------------------------------------------
(* What is open.                                                           *)

\* Only the object of main() can be open.
LEMMA OneObject ==
    ASSUME Inv, MainInv
    PROVE  /\ \A g, h \in Hid : IsOpened(g) /\ h \in alive => g = h
           /\ (\A h \in alive : ~IsOpened(h)) => \A h \in Hid : ~IsOpened(h)
           /\ pc # "idle" => /\ call.hid \in alive /\ call.hid \in Hid
                             /\ \A h \in alive : h = call.hid
           /\ pc \in Scanning => \A h \in Hid : ~IsOpened(h)
BY CallType DEF Inv, OpeningInv, OpenedIsWhole, CallInv, MainInv, TypeOK, Scanning

LEMMA NothingMatched ==
    ASSUME Inv, MainInv, pc \in Scanning, NEW d, NEW i
    PROVE  ~PreviouslyMatched(d, i)
BY OneObject, ListedFacts DEF PreviouslyMatched

\* How an open of the program ends: its object is listed, or nothing is open.
LEMMA OpeningEnds ==
    ASSUME Inv, MainInv, CodeInv, Opening, pc' = "idle"
    PROVE  \/ /\ ret' = "SUCCESS" /\ PrepareReportDescriptor
              /\ \A h \in alive : Listed(h)'
           \/ /\ ret' # "SUCCESS" /\ \A h \in Hid : ~IsOpened(h)'
              /\ ret' = "DEVICE_NOT_FOUND" => pc = "scan" /\ call.todo = <<>>
<1> USE DEF Goto, Return, IsOpened
<1>1. Step
  BY DEF Opening
<1>2. pc # "idle"
  BY <1>1 DEF Step, ScanFails, ScanOpen, ScanClaim, ScanClose, ClaimOnce, ClaimOrRetry,
     DetachDriver, InitParser, PrepareHidDescriptor, PrepareReportDescriptor, GiveUp
<1>3. /\ call.hid \in alive /\ call.hid \in Hid /\ \A h \in alive : h = call.hid
      /\ \A g \in Hid : IsOpened(g) => g = call.hid
  BY <1>2, OneObject
<1>4. devHandle \in [Hid -> Handle \cup {NULL}] /\ openList \in Seq(Hid)
  BY DEF Inv, TypeOK
<1>5. ASSUME NEW code, ScanFails(code)
      PROVE  /\ ret' # "SUCCESS" /\ \A h \in Hid : ~IsOpened(h)'
             /\ ret' = "DEVICE_NOT_FOUND" => pc = "scan" /\ call.todo = <<>>
  BY <1>3, <1>4, <1>5 DEF ScanFails
<1>6. CASE GiveUp
  <2>1. \A h \in Hid : ~IsOpened(h)'
    BY <1>3, <1>4, <1>6 DEF GiveUp, ForgetHid, ResetHid
  <2>2. ret' \notin {"SUCCESS", "DEVICE_NOT_FOUND"}
    BY <1>6 DEF GiveUp, CodeInv
  <2> QED  BY <2>1, <2>2
<1>7. CASE PrepareReportDescriptor
  <2>1. openList' = AddOpenDevice(openList, call.hid) /\ ret' = "SUCCESS"
    BY <1>7 DEF PrepareReportDescriptor
  <2>2. openList = <<>>
    <3>1. \A k \in DOMAIN openList : openList[k] # call.hid
      BY <1>2 DEF Inv, OpeningInv, ListInv, Listed
    <3>2. DOMAIN openList = {}
      BY <1>3, <3>1, ListedFacts
    <3> QED  BY <1>4, <3>2
  <2>3. openList' = <<call.hid>>
    BY <2>1, <2>2, BoundsAreNumbers DEF AddOpenDevice
  <2>4. 1 \in DOMAIN openList' /\ openList'[1] = call.hid
    BY <2>3
  <2> QED  BY <1>3, <1>7, <2>1, <2>4 DEF Listed
<1>8. ~(\E x \in Handle : ScanOpen(x)) /\ ~ScanClaim /\ ~ScanClose /\ ~Preparing
  BY PreparingKeeps DEF ScanOpen, ScanClaim, ScanClose, Holding
<1> QED  BY <1>1, <1>5, <1>6, <1>7, <1>8, StepsOfACall

\* What is open at which place of main(), and that no handle is lost.
ShutInv ==
    /\ \A x \in Handle : ~Lost(x)
    /\ at \in {"delete", "cleanup", "exited"} => \A h \in Hid : ~IsOpened(h)
    /\ at = "close" /\ program = Detacher => \A h \in alive : Listed(h)
    /\ at = "write" => program # Detacher
    /\ at = "dump" => program = Tester

LEMMA ShutStep ==
    ASSUME Inv, ScanInv, MainInv, CodeInv, TriedInv, ShutInv, [ProgramNext]_programVars
    PROVE  ShutInv'
<1>1. \A x \in Handle : ~Lost(x)'
  <2>1. [Next]_vars
    BY ProgramMoves DEF Inv
  <2>2. ASSUME NEW x \in Handle, ~Lost(x), Lost(x)'
        PROVE  FALSE
    BY <2>1, <2>2, LostStep, OneObject DEF Scanning
  <2> QED  BY <2>2 DEF ShutInv
<1>2. program' = program
  BY DEF ProgramNext, ProgramStep, Initialise, Allocate, Opening, ForceOpen,
         WriteIdentification, DumpTree, Close, Delete, Cleanup, Gone, programVars, mainVars
<1> DEFINE Shut == \A h \in Hid : ~IsOpened(h)
           Placed == /\ at' \in {"delete", "cleanup", "exited"} => Shut'
                     /\ at' = "close" /\ program = Detacher => \A h \in alive' : Listed(h)'
                     /\ at' = "write" => program # Detacher
                     /\ at' = "dump" => program = Tester
<1> SUFFICES Placed
  BY <1>1, <1>2 DEF ShutInv
<1>3. UNCHANGED devHandle /\ Shut => Shut'
  BY DEF IsOpened
<1>4. alive = {} => Shut
  BY OneObject
<1>5. CASE Initialise
  <2>1. at = "init" /\ devHandle' = devHandle /\ at' \in {"new", "exited"}
    BY <1>5 DEF Initialise, HidInit, hidVars, Proceed, Leave
  <2> QED  BY <1>3, <1>4, <2>1 DEF MainInv
<1>6. CASE Allocate
  <2>1. at = "new" /\ (at' = "open" \/ (at' = "exited" /\ devHandle' = devHandle))
    BY <1>6 DEF Allocate, vars, hidVars, Proceed, Leave
  <2> QED  BY <1>3, <1>4, <2>1 DEF MainInv
<1>7. ASSUME NEW code, OpenReturned(code)
      PROVE  /\ at' \in {"write", "close", "delete", "exited"}
             /\ at' = "delete" => code = "DEVICE_NOT_FOUND"
             /\ at' = "exited" => code # "SUCCESS"
             /\ at' = "close" => code = "SUCCESS"
             /\ at' = "write" => program # Detacher
  BY <1>7 DEF OpenReturned, EndOfList, Proceed, Leave, Lister, Detacher, Tester
<1>8. CASE Opening
  <2>1. at = "opening" /\ alive' = alive
    BY <1>8, StepKeeps, ZenonT(60) DEF Opening, MainInv, Step, ScanFails, ScanOpen, ScanClaim, ScanClose,
       ClaimOnce, ClaimOrRetry, DetachDriver, InitParser, PrepareHidDescriptor,
       PrepareReportDescriptor, GiveUp
  <2>2. CASE pc' # "idle"
    <3>1. at' = at
      BY <1>8, <2>2 DEF Opening
    <3> QED  BY <2>1, <3>1
  <2>3. CASE pc' = "idle"
    <3>1. OpenReturned(ret')
      BY <1>8, <2>3 DEF Opening
    <3>2. CASE ret' = "SUCCESS" /\ \A h \in alive : Listed(h)'
      BY <1>7, <2>1, <3>1, <3>2
    <3>3. CASE ret' # "SUCCESS" /\ Shut'
      BY <1>7, <3>1, <3>3
    <3> QED  BY <1>8, <2>3, <3>2, <3>3, OpeningEnds
  <2> QED  BY <2>2, <2>3, SMTT(60)
<1>9. ASSUME NEW h \in alive, ForceOpen(h)
      PROVE  Placed
  <2>1. at = "open" /\ devHandle' = devHandle
    BY <1>9 DEF ForceOpen, OpenBegin, OpenRejected, hidVars
  <2>2. Shut
    BY <2>1, OneObject DEF TriedInv
  <2>3. CASE at' = "opening"
    BY <2>3
  <2>4. CASE OpenRejected(h, Wanted) /\ OpenReturned(ret')
    <3>1. ret' # "SUCCESS"
      BY <2>4 DEF OpenRejected
    <3> QED  BY <1>3, <1>7, <2>1, <2>2, <2>4, <3>1
  <2> QED  BY <1>9, <2>3, <2>4 DEF ForceOpen, Proceed
<1>10. ASSUME NEW h \in alive, WriteIdentification(h) \/ DumpTree(h)
       PROVE  Placed
  <2>1. /\ devHandle' = devHandle /\ at' \in {"close", "dump", "exited"}
        /\ at' = "exited" => ~IsOpened(h)
        /\ at' = "close" => program = Lister \/ at = "dump"
        /\ at' = "dump" => program # Lister /\ at = "write"
    BY <1>10 DEF WriteIdentification, DumpTree, vars, hidVars, Proceed, Leave
  <2>2. at' = "exited" => Shut
    BY <2>1, OneObject DEF Inv, TypeOK
  <2>3. at' = "dump" => program = Tester
    BY <2>1, ProgramsKnown DEF ShutInv, MainInv
  <2>4. at' = "close" => program # Detacher
    BY <2>1 DEF ShutInv, Lister, Detacher, Tester
  <2> QED  BY <1>3, <2>1, <2>2, <2>3, <2>4
<1>11. ASSUME NEW h \in alive, Close(h)
       PROVE  Placed
  <2>1. /\ devHandle' = [devHandle EXCEPT ![h] = NULL]
        /\ at' \in {"open", "delete", "exited"}
    BY <1>11 DEF Close, HidClose, ForgetHid, ResetHid, Proceed, Leave
  <2>2. Shut'
    BY <2>1, OneObject DEF Inv, TypeOK, IsOpened
  <2> QED  BY <2>1, <2>2
<1>12. CASE Cleanup \/ \E h \in alive : Delete(h)
  <2>1. /\ devHandle' = devHandle /\ at \in {"delete", "cleanup"}
        /\ at' \in {"cleanup", "exited"}
    BY <1>12 DEF Delete, DeleteHIDInterface, Cleanup, HidCleanup, hidVars, Proceed, Leave
  <2> QED  BY <1>3, <2>1 DEF ShutInv
<1>13. CASE (Environment /\ UNCHANGED mainVars) \/ Gone \/ UNCHANGED programVars
  <2>1. UNCHANGED <<alive, devHandle, openList, at>>
    BY <1>13 DEF Environment, Gone, programVars, mainVars, vars, hidVars
  <2> QED  BY <1>3, <2>1 DEF ShutInv, Listed
<1> QED  BY <1>5, <1>6, <1>8, <1>9, <1>10, <1>11, <1>12, <1>13 DEF ProgramNext, ProgramStep

LEMMA ShutInvariant ==
    ProgramSpec => [](Inv /\ ScanInv /\ ClaimInv /\ MainInv /\ CodeInv /\ TriedInv /\ ShutInv)
<1>1. ProgramInit => ScanInv /\ ClaimInv /\ CodeInv /\ ShutInv
  BY HoldersDiffer, NullIsNothing DEF ProgramInit, Init, UsbInit, ScanInv, ClaimInv, CodeInv, ShutInv,
     Holding, Scanning, Lost
<1>2. Inv /\ MainInv /\ [ProgramNext]_programVars => [Next]_vars
  BY ProgramMoves DEF Inv
<1>3. Inv /\ ScanInv /\ ClaimInv /\ CodeInv /\ [Next]_vars => ScanInv' /\ ClaimInv' /\ CodeInv'
  BY ScanStep, ClaimStep, CodeStep
<1>4. Inv /\ ScanInv /\ MainInv /\ CodeInv /\ TriedInv /\ ShutInv /\ [ProgramNext]_programVars
         => ShutInv'
  BY ShutStep
<1> QED  BY <1>1, <1>2, <1>3, <1>4, TriedInvariant, PTL DEF ProgramSpec

\* However a program ends, and whatever it opened, passed over or failed to
\* open on the way, it has closed each handle before it deletes its object.
THEOREM NothingLeftOpen == ProgramSpec => []LeavesNothingOpen
<1>1. MainInv /\ ShutInv => LeavesNothingOpen
  BY NullIsNothing DEF MainInv, ShutInv, LeavesNothingOpen, Lost, IsOpened
<1> QED  BY <1>1, ShutInvariant, PTL

-----------------------------------------------------------------------------
(* The claim of libhid-detach-device.                                      *)

\* What libhid-detach-device closes with success it has held until then, and
\* nobody has it afterwards, unless other processes detach interfaces too.
THEOREM DetachedIsFree ==
    ASSUME ~Evictions, Os # "darwin" PROVE ProgramSpec => DoneIsDetached
<1>1. Inv /\ MainInv /\ [ProgramNext]_programVars => [Next]_vars
  BY ProgramMoves DEF Inv
<1>2. ProgramInit => HeldInv
  BY DEF ProgramInit, Init, HeldInv, Claimed, Listed
<1>3. Inv /\ ClaimInv /\ HeldInv /\ [Next]_vars => HeldInv'
  BY HeldStep
<1>4. ASSUME Inv, MainInv, ShutInv, HeldInv, [ProgramNext]_programVars,
             program = Detacher, at = "close", at' = "delete",
             NEW h \in alive, plug[device[h]] = "attached"
      PROVE  holder[Target(h)] = devHandle[h] /\ holder'[Target(h)] = Free
  <2>1. Close(h) /\ ret' = "SUCCESS"
    <3>1. ~Opening
      BY <1>4 DEF Opening, MainInv, Step, ScanFails, ScanOpen, ScanClaim, ScanClose,
         ClaimOnce, ClaimOrRetry, DetachDriver, InitParser, PrepareHidDescriptor,
         PrepareReportDescriptor, GiveUp
    <3>2. /\ ~Initialise /\ ~Allocate /\ ~Cleanup /\ ~Gone /\ at' # at
          /\ \A g \in alive : /\ ~ForceOpen(g) /\ ~WriteIdentification(g)
                             /\ ~DumpTree(g) /\ ~Delete(g)
      BY <1>4 DEF Initialise, Allocate, ForceOpen, WriteIdentification, DumpTree, Delete,
         Cleanup, Gone
    <3>3. \E g \in alive : Close(g)
      BY <1>4, <3>1, <3>2 DEF ProgramNext, ProgramStep, programVars, mainVars
    <3>4. Close(h)
      BY <1>4, <3>3 DEF MainInv
    <3>5. program # Lister
      BY <1>4 DEF Lister, Detacher
    <3> QED  BY <1>4, <3>4, <3>5 DEF Close, Proceed, Leave
  <2>2. h \in Hid /\ Listed(h) /\ IsOpened(h)
    <3>1. h \in Hid
      BY <1>4 DEF Inv, TypeOK
    <3>2. Listed(h)
      BY <1>4 DEF ShutInv
    <3> QED  BY <1>4, <3>1, <3>2 DEF Inv, OpeningInv, OpenedIsWhole
  <2>3. holder[Target(h)] = devHandle[h]
    BY <1>4, <2>2 DEF HeldInv, Claimed
  <2>4. UsbClose(devHandle[h])
    BY <2>1, <2>2 DEF Close, HidClose
  <2>5. Target(h) \in DOMAIN holder
    BY <1>4, <2>2 DEF Inv, OpeningInv, OpenedIsWhole, TypeOK, UsbTypeOK, Target
  <2> QED  BY <2>3, <2>4, <2>5 DEF UsbClose
<1>5. Inv /\ MainInv /\ ShutInv /\ HeldInv /\ [ProgramNext]_programVars =>
        [program = Detacher /\ at = "close" /\ at' = "delete" =>
           \A h \in alive :
              plug[device[h]] = "attached" =>
                  /\ holder[Target(h)] = devHandle[h]
                  /\ holder'[Target(h)] = Free]_programVars
  BY <1>4
<1> QED  BY <1>1, <1>2, <1>3, <1>5, ShutInvariant, PTL DEF ProgramSpec, DoneIsDetached

-----------------------------------------------------------------------------
(* The table of lshid.                                                     *)

\* Behind TableFits: its entries are distinct devices of the lists.
TableInv ==
    /\ \A j, k \in DOMAIN seen : j # k => seen[j] # seen[k]
    /\ \A k \in DOMAIN seen : seen[k] \in ToSet(busDevices)
    /\ at \in {"init", "new"} => seen = <<>>

LEMMA TableStep ==
    ASSUME Inv, ScanInv, MainInv, TriedInv, TableInv, [ProgramNext]_programVars
    PROVE  TableInv'
<1> HIDE DEF ToSet
<1>1. seen \in Seq(Device)
  BY DEF TriedInv
<1>2. UNCHANGED <<seen, busDevices>> /\ at' \notin {"init", "new"} => TableInv'
  BY DEF TableInv
<1>3. CASE Initialise
  <2>1. seen' = seen /\ at = "init"
    BY <1>3 DEF Initialise
  <2> QED  BY <2>1 DEF TableInv
<1>4. CASE Opening
  <2>1. UNCHANGED busDevices /\ at' \notin {"init", "new"}
    <3>1. UNCHANGED busDevices /\ pc # "idle"
      BY <1>4 DEF Opening, Step, ScanFails, ScanOpen, ScanClaim, ScanClose,
         ClaimOnce, ClaimOrRetry, DetachDriver, InitParser, PrepareHidDescriptor,
         PrepareReportDescriptor, GiveUp, usbVars
    <3>2. at' = "opening" \/ at' \in {"write", "close", "delete", "exited"}
      BY <1>4, <3>1, ReturnedPlace DEF Opening, MainInv
    <3> QED  BY <3>1, <3>2, SMTT(60)
  <2>2. CASE seen' = SeenAfter(handleOf[call.handle]) /\ pc = "scanClaim"
    <3>1. handleOf[call.handle] \in ToSet(busDevices) /\ handleOf[call.handle] \in Device
      BY <2>2 DEF ScanInv, Inv, OpeningInv, CallInv
    <3> DEFINE d == handleOf[call.handle]
    <3>2. CASE SeenBefore(d)
      BY <1>2, <2>1, <2>2, <3>2 DEF SeenAfter
    <3>3. CASE ~SeenBefore(d)
      <4>1. /\ DOMAIN seen' = DOMAIN seen \cup {Len(seen) + 1}
            /\ seen'[Len(seen) + 1] = d
            /\ \A k \in DOMAIN seen : seen'[k] = seen[k]
        BY <1>1, <2>2, <3>1, <3>3 DEF SeenAfter
      <4> QED  BY <2>1, <3>1, <3>3, <4>1 DEF TableInv, SeenBefore
    <3> QED  BY <3>2, <3>3
  <2> QED  BY <1>2, <1>4, <2>1, <2>2 DEF Opening
<1>5. CASE Allocate \/ Cleanup
  BY <1>2, <1>5 DEF Allocate, NewHIDInterface, Cleanup, HidCleanup, usbVars, vars, Proceed, Leave
<1>6. ASSUME NEW h \in alive, ForceOpen(h)
      PROVE  TableInv'
  <2>1. UNCHANGED <<seen, busDevices>>
    BY <1>6 DEF ForceOpen, OpenBegin, OpenRejected, usbVars
  <2>2. at' \notin {"init", "new"}
    BY <1>6, ReturnedPlace DEF ForceOpen, Proceed
  <2> QED  BY <1>2, <2>1, <2>2
<1>7. ASSUME NEW h \in alive, WriteIdentification(h) \/ DumpTree(h) \/ Close(h) \/ Delete(h)
      PROVE  TableInv'
  BY <1>2, <1>7 DEF WriteIdentification, DumpTree, Close, HidClose, Delete, DeleteHIDInterface,
     vars, usbVars, Proceed, Leave
<1>8. CASE (Environment /\ UNCHANGED mainVars) \/ Gone \/ UNCHANGED programVars
  <2>1. UNCHANGED <<seen, busDevices, at>>
    BY <1>8 DEF Environment, UsbNext, Plug, Unplug, ForeignClaim, ForeignRelease, ForeignEvict,
       Gone, programVars, mainVars, vars, usbVars
  <2> QED  BY <2>1 DEF TableInv
<1> QED  BY <1>3, <1>4, <1>5, <1>6, <1>7, <1>8 DEF ProgramNext, ProgramStep

\* A sequence has as many distinct entries as its length at the most.
LEMMA ListHolds ==
    ASSUME NEW s \in Seq(Device)
    PROVE  IsFiniteSet(ToSet(s)) /\ Cardinality(ToSet(s)) <= Len(s)
<1>1. Len(s) \in Nat /\ DOMAIN s = 1..Len(s)
  OBVIOUS
<1>2. s \in Surjection(1..Len(s), ToSet(s))
  BY <1>1 DEF Surjection, ToSet
<1>3. IsFiniteSet(1..Len(s)) /\ Cardinality(1..Len(s)) = Len(s)
  BY <1>1, FS_Interval, SMTT(60)
<1> QED  BY <1>2, <1>3, FS_Surjection

\* lshid's table of 32 entries is enough for 32 devices: it has no more of
\* them than the lists have devices, however often they are scanned.
THEOREM TableIsLargeEnough == ProgramSpec => []TableFits
<1>1. ProgramInit => TableInv
  BY DEF ProgramInit, TableInv
<1>2. Inv /\ ScanInv /\ MainInv /\ TriedInv /\ TableInv /\ [ProgramNext]_programVars => TableInv'
  BY TableStep
<1>3. ASSUME Inv, TriedInv, TableInv
      PROVE  TableFits
  <2>1. seen \in Seq(Device) /\ busDevices \in Seq(Device)
    BY <1>3 DEF TriedInv, Inv, TypeOK, UsbTypeOK
  <2>2. seen \in Seq(ToSet(busDevices))
    <3> HIDE DEF ToSet
    <3> QED  BY <1>3, <2>1 DEF TableInv
  <2>3. Len(seen) <= Cardinality(ToSet(busDevices))
    BY <1>3, <2>1, <2>2, ListHolds, DistinctFit DEF TableInv
  <2>4. Cardinality(ToSet(busDevices)) \in Nat /\ Len(seen) \in Nat /\ Len(busDevices) \in Nat
    BY <2>1, ListHolds, FS_CardinalityType
  <2> QED  BY <2>1, <2>3, <2>4, ListHolds DEF TableFits
<1> QED  BY <1>1, <1>2, <1>3, ShutInvariant, PTL DEF ProgramSpec

-----------------------------------------------------------------------------
(* No HID device is missed.                                                *)

\* main() of lshid is at a device that it has not entered in tried yet.
AtDevice(d) ==
    \/ pc \in Holding /\ device[call.hid] = d
    \/ at = "write" /\ \E h \in alive : IsOpened(h) /\ device[h] = d

\* Behind NoneMissed: what the matching function of lshid has been shown was
\* tried or is at hand, and a scan accepts all that it was not shown before.
MissedInv ==
    /\ program = Lister => asked = AnyIds
    /\ program = Lister =>
          \A d \in HidClass : SeenBefore(d) /\ VendorId[d] # {} => Tried(d) \/ AtDevice(d)
    /\ program = Lister /\ pc \in Scanning =>
          /\ call.matcher.vendor = {} /\ call.matcher.product = {}
          /\ \A d \in HidClass : d \in call.matcher.accepts \/ SeenBefore(d)
    /\ NoneMissed

\* A step of an open: what is shown is matched or was tried, and DEVICE_NOT_FOUND
\* means that all devices were shown before.
LEMMA MissedOpening ==
    ASSUME Inv, ScanInv, MainInv, CodeInv, TriedInv, MissedInv, Opening, program = Lister
    PROVE  MissedInv'
<1> USE DEF Goto, Return, Scanning, Holding
<1> HIDE DEF ToSet
<1>1. /\ program' = program /\ asked' = asked /\ at = "opening" /\ pc # "idle"
      /\ call \in Call /\ call.hid \in alive /\ call.hid \in Hid /\ alive' = alive
      /\ UNCHANGED busDevices
  BY CallType, StepKeeps, ZenonT(60) DEF Opening, Inv, OpeningInv, CallInv, MainInv, Step, ScanFails,
     ScanOpen, ScanClaim, ScanClose, ClaimOnce, ClaimOrRetry, DetachDriver, InitParser,
     PrepareHidDescriptor, PrepareReportDescriptor, GiveUp, usbVars
<1>2. IF pc' = "idle" THEN at' = IF ret' = "DEVICE_NOT_FOUND" THEN "delete" ELSE "write"
                      ELSE at' = "opening"
  BY <1>1 DEF Opening, OpenReturned, EndOfList, Proceed, Lister, Detacher, Tester
<1>3. device \in [Hid -> Device \cup {NULL}] /\ seen \in Seq(Device)
  BY DEF Inv, TypeOK, TriedInv
<1>4. tried' = IF pc = "giveUp" THEN Append(tried, <<device[call.hid], "failed">>) ELSE tried
  BY DEF Opening
<1>5. \A d \in HidClass : SeenBefore(d) /\ VendorId[d] # {} =>
         Tried(d) \/ (pc \in Holding /\ device[call.hid] = d)
  BY <1>1 DEF MissedInv, AtDevice
<1>6. CASE ScanClaim
  <2>1. PICK e \in Device : e = handleOf[call.handle]
    BY <1>6 DEF ScanClaim, Inv, OpeningInv, CallInv
  <2>2. /\ ~PreviouslyMatched(e, interface[call.hid])
        /\ pc = "scanClaim" /\ pc' \in {"claim", "scanClose"} /\ tried' = tried
    BY <1>4, <1>6, <2>1, NothingMatched DEF ScanClaim
  <2>3. seen' = SeenAfter(e)
    BY <2>1, <2>2 DEF Opening
  <2>4. /\ \A d \in HidClass : SeenBefore(d) => SeenBefore(d)'
        /\ \A d \in HidClass : SeenBefore(d)' => SeenBefore(d) \/ d = e
    <3>1. CASE SeenBefore(e)
      BY <2>3, <3>1 DEF SeenAfter, SeenBefore
    <3>2. CASE ~SeenBefore(e)
      BY <1>3, <2>1, <2>3, <3>2 DEF SeenAfter, SeenBefore
    <3> QED  BY <3>1, <3>2
  <2>5. \A d : Tried(d)' <=> Tried(d)
    BY <2>2 DEF Tried
  <2>6. CASE pc' = "claim"
    <3>1. device' = [device EXCEPT ![call.hid] = e] /\ call'.hid = call.hid
      BY <1>1, <1>6, <2>1, <2>6 DEF ScanClaim, Call
    <3>2. device'[call'.hid] = e
      BY <1>1, <1>3, <3>1
    <3>3. \A d \in HidClass : SeenBefore(d)' /\ VendorId[d] # {} => Tried(d)' \/ d = e
      BY <1>5, <2>2, <2>4, <2>5
    <3> QED  BY <1>1, <1>2, <2>6, <3>2, <3>3 DEF MissedInv, NoneMissed, AtDevice
  <2>7. CASE pc' = "scanClose"
    <3>1. call' = call /\ ~CompareUsbDevice(e, call.matcher)
      BY <1>6, <2>1, <2>2, <2>7 DEF ScanClaim
    <3>2. e \in HidClass /\ VendorId[e] # {} => SeenBefore(e)
      BY <1>1, <2>2, <3>1 DEF MissedInv, CompareUsbDevice
    <3>3. \A d \in HidClass : SeenBefore(d)' /\ VendorId[d] # {} => Tried(d)'
      BY <1>5, <2>2, <2>4, <2>5, <3>2
    <3> QED  BY <1>1, <1>2, <2>2, <2>4, <2>7, <3>1, <3>3 DEF MissedInv, NoneMissed
  <2> QED  BY <2>2, <2>6, <2>7
<1>7. CASE ~ScanClaim
  <2>1. pc # "scanClaim"
    BY <1>7 DEF Opening, Step, ScanFails, ScanOpen, ScanClose, ClaimOnce, ClaimOrRetry,
       DetachDriver, InitParser, PrepareHidDescriptor, PrepareReportDescriptor, GiveUp
  <2>2. seen' = seen
    BY <2>1 DEF Opening
  <2>3. \A d : SeenBefore(d)' <=> SeenBefore(d)
    BY <2>2 DEF SeenBefore
  <2>4. pc # "giveUp" => \A d : Tried(d)' <=> Tried(d)
    BY <1>4 DEF Tried
  <2>5. CASE \E code : ScanFails(code)
    <3>1. pc = "scan" /\ pc' = "idle"
      BY <2>5 DEF ScanFails
    <3>2. \A d \in HidClass : SeenBefore(d)' /\ VendorId[d] # {} => Tried(d)'
      BY <1>5, <2>3, <2>4, <3>1
    <3>3. ASSUME ret' = "DEVICE_NOT_FOUND", NEW d \in HidClass, d \in ToSet(busDevices),
                 VendorId[d] # {}
          PROVE  Tried(d)'
      <4>1. call.todo = <<>>
        BY <2>5, <3>3 DEF ScanFails
      <4>2. d \notin ToSet(call.todo)
        BY <4>1 DEF ToSet
      <4>3. ~Passed(d)
        BY <3>1, OneObject DEF Passed
      <4>4. ~CompareUsbDevice(d, call.matcher)
        BY <3>1, <3>3, <4>2, <4>3 DEF ScanInv
      <4>5. SeenBefore(d)
        BY <3>1, <3>3, <4>4 DEF MissedInv, CompareUsbDevice
      <4> QED  BY <2>3, <3>2, <3>3, <4>5
    <3>4. NoneMissed'
      <4>1. ASSUME at' \in {"delete", "cleanup", "exited"},
                   NEW d \in HidClass \cap ToSet(busDevices'), VendorId[d] # {}
            PROVE  Tried(d)'
        BY <1>1, <1>2, <3>1, <3>3, <4>1
      <4> QED  BY <4>1 DEF NoneMissed, Tried
    <3> QED  BY <1>1, <3>1, <3>2, <3>4 DEF MissedInv
  <2>6. CASE ScanClose \/ \E x \in Handle : ScanOpen(x)
    <3>1. call'.matcher = call.matcher /\ pc \in Scanning /\ pc' \in Scanning
      BY <1>1, <2>6 DEF ScanOpen, ScanClose, Call
    <3>2. \A d \in HidClass : SeenBefore(d)' /\ VendorId[d] # {} => Tried(d)'
      BY <1>5, <2>3, <2>4, <3>1
    <3> QED  BY <1>1, <1>2, <2>3, <3>1, <3>2 DEF MissedInv, NoneMissed
  <2>7. CASE Preparing
    <3>1. device' = device /\ call'.hid = call.hid /\ pc \in Holding /\ pc' \in Holding /\ pc # "giveUp"
      BY <2>7, PreparingKeeps DEF Preparing, ClaimOnce, ClaimOrRetry, DetachDriver, InitParser,
         PrepareHidDescriptor, PrepareReportDescriptor
    <3>2. \A d \in HidClass : SeenBefore(d)' /\ VendorId[d] # {} => Tried(d)' \/ AtDevice(d)'
      BY <1>5, <2>3, <2>4, <3>1 DEF AtDevice
    <3> QED  BY <1>1, <1>2, <3>1, <3>2 DEF MissedInv, NoneMissed
  <2>8. CASE PrepareReportDescriptor /\ pc' = "idle"
    <3>1. /\ device' = device /\ devHandle' = devHandle /\ ret' = "SUCCESS" /\ pc = "reportDesc"
          /\ IsOpened(call.hid)
      BY <2>8 DEF PrepareReportDescriptor, hidVars, Inv, OpeningInv, CallInv
    <3>2. at' = "write"
      BY <1>2, <2>8, <3>1
    <3>3. \A d : device[call.hid] = d => AtDevice(d)'
      BY <1>1, <3>1, <3>2 DEF AtDevice, IsOpened
    <3>4. \A d \in HidClass : SeenBefore(d)' /\ VendorId[d] # {} => Tried(d)' \/ AtDevice(d)'
      BY <1>5, <2>3, <2>4, <3>1, <3>3
    <3> QED  BY <1>1, <2>8, <3>2, <3>4 DEF MissedInv, NoneMissed
  <2>9. CASE GiveUp
    <3>1. /\ pc = "giveUp" /\ pc' = "idle" /\ ret' # "DEVICE_NOT_FOUND"
          /\ tried' = Append(tried, <<device[call.hid], "failed">>)
      BY <1>4, <2>9 DEF GiveUp, CodeInv
    <3>2. /\ tried \in Seq(Device \X {"listed", "failed"}) /\ TriedOnce
          /\ device[call.hid] \in Device /\ ~Tried(device[call.hid])
      BY <3>1 DEF TriedInv, Fresh
    <3>3. \A d \in Device : Tried(d)' <=> Tried(d) \/ d = device[call.hid]
      BY <3>1, <3>2, TriedGrows
    <3>4. \A d \in HidClass : SeenBefore(d)' /\ VendorId[d] # {} => Tried(d)'
      BY <1>5, <2>3, <3>3, HidClassDevices
    <3> QED  BY <1>1, <1>2, <3>1, <3>4 DEF MissedInv, NoneMissed
  <2> QED  BY <1>7, <2>5, <2>6, <2>7, <2>8, <2>9, StepsOfACall, SMTT(60) DEF Opening
<1> QED  BY <1>6, <1>7

LEMMA MissedStep ==
    ASSUME Inv, ScanInv, MainInv, CodeInv, TriedInv, ShutInv, MissedInv,
           [ProgramNext]_programVars
    PROVE  MissedInv'
<1> USE DEF Scanning, Holding
<1> HIDE DEF ToSet
<1>1. program' = program /\ asked' = asked
  BY DEF ProgramNext, ProgramStep, Initialise, Allocate, Opening, ForceOpen,
         WriteIdentification, DumpTree, Close, Delete, Cleanup, Gone, programVars, mainVars
<1>2. program # Lister => MissedInv'
  BY <1>1 DEF MissedInv, NoneMissed
<1> SUFFICES ASSUME program = Lister PROVE MissedInv'
  BY <1>2
<1>3. pc = "idle" /\ at # "write" => \A d \in HidClass : SeenBefore(d) /\ VendorId[d] # {} => Tried(d)
  BY DEF MissedInv, AtDevice
\* steps of main() that touch neither table
<1>4. ASSUME UNCHANGED <<seen, tried, pc>>, pc = "idle", at # "write",
             at' \in {"delete", "cleanup", "exited"} =>
                at \in {"delete", "cleanup", "exited"} /\ UNCHANGED busDevices
      PROVE  MissedInv'
  <2>1. \A d \in HidClass : SeenBefore(d)' /\ VendorId[d] # {} => Tried(d)'
    BY <1>3, <1>4 DEF SeenBefore, Tried
  <2>2. NoneMissed'
    BY <1>1, <1>4 DEF MissedInv, NoneMissed
  <2> QED  BY <1>1, <1>4, <2>1, <2>2 DEF MissedInv
<1>5. CASE Initialise \/ Allocate
  <2>1. UNCHANGED <<seen, tried, pc>> /\ pc = "idle" /\ at # "write" /\ at' \in {"new", "open"}
    BY <1>5 DEF Initialise, HidInit, Allocate, NewHIDInterface, Proceed, Leave
  <2> QED  BY <1>4, <2>1
<1>6. CASE Opening
  BY <1>6, MissedOpening
<1>7. ASSUME NEW h \in alive, ForceOpen(h)
      PROVE  MissedInv'
  <2>1. at = "open" /\ pc = "idle" /\ UNCHANGED <<seen, tried>>
    BY <1>7 DEF ForceOpen, OpenBegin, OpenRejected
  <2>2. CASE at' = "opening" /\ pc' = "scan" /\ call'.matcher = Wanted
    <3>1. /\ Wanted.vendor = {} /\ Wanted.product = {}
          /\ Wanted.accepts = Iterated
      BY DEF Wanted, MissedInv, AnyIds
    <3>2. \A d \in HidClass : d \in Wanted.accepts \/ SeenBefore(d)
      BY <3>1 DEF Iterated
    <3>3. \A d \in HidClass : /\ SeenBefore(d)' <=> SeenBefore(d)
                              /\ SeenBefore(d) /\ VendorId[d] # {} => Tried(d)'
      BY <1>3, <2>1 DEF SeenBefore, Tried
    <3>4. NoneMissed'
      BY <2>2 DEF NoneMissed
    <3> QED  BY <1>1, <2>2, <3>1, <3>2, <3>3, <3>4 DEF MissedInv
  <2>3. CASE OpenRejected(h, Wanted) /\ OpenReturned(ret')
    <3>1. ret' # "DEVICE_NOT_FOUND" /\ pc' = pc
      BY <2>3 DEF OpenRejected
    <3>2. at' = "write"
      BY <2>3, <3>1 DEF OpenReturned, EndOfList, Proceed, Lister, Detacher, Tester
    <3> QED  BY <1>4, <2>1, <3>1, <3>2
  <2> QED  BY <1>7, <2>2, <2>3 DEF ForceOpen, OpenBegin, Goto, Proceed
<1>8. ASSUME NEW h \in alive, WriteIdentification(h)
      PROVE  MissedInv'
  <2>1. /\ at = "write" /\ at' = "close" /\ UNCHANGED <<seen, pc, device, devHandle, alive>>
        /\ pc = "idle"
    BY <1>8 DEF WriteIdentification, Proceed, vars, hidVars, MainInv
  <2>2. \A d \in HidClass : SeenBefore(d) /\ VendorId[d] # {} =>
           Tried(d) \/ (IsOpened(h) /\ device[h] = d)
    BY <1>8, <2>1 DEF MissedInv, AtDevice, MainInv
  <2>3. \A d \in HidClass : SeenBefore(d)' /\ VendorId[d] # {} => Tried(d)'
    <3>1. CASE IsOpened(h)
      <4>1. tried' = Append(tried, <<device[h], "listed">>) /\ Fresh(device[h])
        BY <1>8, <2>1, <3>1 DEF WriteIdentification, TriedInv
      <4>2. \A e \in Device : Tried(e)' <=> Tried(e) \/ e = device[h]
        BY <4>1, TriedGrows DEF TriedInv, Fresh
      <4> QED  BY <2>1, <2>2, <4>2, HidClassDevices DEF SeenBefore
    <3>2. CASE ~IsOpened(h)
      <4>1. tried' = tried
        BY <1>8, <3>2 DEF WriteIdentification
      <4> QED  BY <2>1, <2>2, <3>2, <4>1 DEF SeenBefore, Tried
    <3> QED  BY <3>1, <3>2
  <2> QED  BY <1>1, <2>1, <2>3 DEF MissedInv, NoneMissed
<1>9. ASSUME NEW h \in alive, DumpTree(h)
      PROVE  MissedInv'
  BY <1>9 DEF DumpTree, ShutInv, Lister, Tester
<1>10. CASE Cleanup \/ \E h \in alive : Close(h) \/ Delete(h)
  <2>1. /\ UNCHANGED <<seen, tried, pc>> /\ pc = "idle" /\ at \in {"close", "delete", "cleanup"}
        /\ UNCHANGED busDevices
        /\ at' \in {"delete", "cleanup", "exited"} => at \in {"delete", "cleanup"}
    BY <1>10 DEF Cleanup, HidCleanup, Close, HidClose, Delete, DeleteHIDInterface, Proceed,
       Leave, usbVars
  <2> QED  BY <1>4, <2>1
<1>11. CASE (Environment /\ UNCHANGED mainVars) \/ Gone \/ UNCHANGED programVars
  <2>1. UNCHANGED <<seen, tried, at, pc, call, device, devHandle, alive, busDevices>>
    BY <1>11 DEF Environment, UsbNext, Plug, Unplug, ForeignClaim, ForeignRelease, ForeignEvict,
       Gone, programVars, mainVars, vars, usbVars, hidVars
  <2> QED  BY <1>1, <2>1 DEF MissedInv, NoneMissed, AtDevice, SeenBefore, Tried, IsOpened
<1> QED  BY <1>5, <1>6, <1>7, <1>8, <1>9, <1>10, <1>11 DEF ProgramNext, ProgramStep

\* When the loop of lshid ends, by DEVICE_NOT_FOUND and by nothing else, each
\* HID device of the lists has been listed or has failed to open.
THEOREM NoDeviceMissed == ProgramSpec => []NoneMissed
<1>1. ProgramInit => MissedInv
  BY DEF ProgramInit, Init, MissedInv, NoneMissed, AnyIds, SeenBefore, Scanning
<1>2. Inv /\ ScanInv /\ MainInv /\ CodeInv /\ TriedInv /\ ShutInv /\ MissedInv
         /\ [ProgramNext]_programVars => MissedInv'
  BY MissedStep
<1>3. MissedInv => NoneMissed
  BY DEF MissedInv
<1> QED  BY <1>1, <1>2, <1>3, ShutInvariant, PTL DEF ProgramSpec
=============================================================================
