--------------------------- MODULE HidWrap_proofs ---------------------------
(***************************************************************************)
(* Theorems about HidWrap, for any number of Interfaces, devices and       *)
(* initialisations, and on each operating system.                          *)
(***************************************************************************)
EXTENDS HidWrap, HidOpening_proofs

\* The program and the interpreter move the library by its own steps only, so
\* that what HidOpening keeps is kept under them.
LEMMA WrapStep ==
    ASSUME WrapNext PROVE [Next]_vars
<1>1. PyInit \/ PyCleanup => Client
  BY DEF PyInit, PyCleanup, Client
<1>2. ASSUME NEW h \in Hid, ConstructNew(h) \/ Close(h)
      PROVE  Client
  BY <1>2 DEF ConstructNew, Close, Client
<1>3. ASSUME NEW h \in Hid, NEW i \in Iface, NEW m \in Matcher,
             \/ ConstructOpen(h, i, m, FALSE, 0)
             \/ \E n \in 0..MaxRetries : ConstructOpen(h, i, m, TRUE, n)
      PROVE  Client
  BY <1>3, Interface0IsOne DEF ConstructOpen, InterfaceOpened, Client
<1>4. ASSUME NEW h \in Hid, ConstructInit(h) PROVE Client
  BY <1>1, <1>4 DEF ConstructInit
<1>5. ASSUME NEW h \in Hid, Del(h) PROVE Client \/ UNCHANGED vars
  BY <1>5 DEF Del, Client
<1>6. InitCall \/ CleanupCall => Client
  BY <1>1 DEF InitCall, CleanupCall
<1>7. Finalize => Client \/ UNCHANGED vars
  BY <1>1 DEF Finalize
<1>8. BeginExit \/ Exit \/ Gone => UNCHANGED vars
  BY DEF BeginExit, Exit, Gone, wrapVars
<1>9. ConstructStep => Step
  BY DEF ConstructStep
<1>10. Proceeding => Step \/ Client \/ UNCHANGED vars
  BY <1>2, <1>3, <1>7, <1>8, <1>9 DEF Proceeding
<1> QED  BY <1>2, <1>4, <1>5, <1>6, <1>8, <1>10 DEF WrapNext, Next

\* The Python class uses the library as its clients may: the list stays
\* exclusive and objects whole, in whatever order the program makes, closes
\* and drops Interfaces.
THEOREM WrapKeepsOpening == WrapSpec => [](TypeOK /\ OpeningInv)
<1>1. WrapInit => Inv
  BY InitInv DEF WrapInit
<1>2. Inv /\ [WrapNext]_wrapVars => Inv'
  <2>1. ASSUME Inv, [Next]_vars PROVE Inv'
    BY <2>1, TypeStep, CallStep, ListStep, WholeStep DEF Inv, OpeningInv
  <2>2. UNCHANGED wrapVars => UNCHANGED vars
    BY DEF wrapVars
  <2> QED  BY <2>1, <2>2, WrapStep
<1>3. Inv => TypeOK /\ OpeningInv
  BY DEF Inv
<1> QED  BY <1>1, <1>2, <1>3, PTL DEF WrapSpec

-----------------------------------------------------------------------------
(* The flag and the handlers of atexit.                                    *)

\* The flag is the library's, and while it is set a handler is still to come.
FlagInv ==
    /\ isInitialized \in BOOLEAN
    /\ initialised \in BOOLEAN
    /\ isInitialized <=> initialised
    /\ finalizers \in Nat
    /\ isInitialized => finalizers > 0 /\ interpreter # "exited"

\* What a step has to do with them.
LEMMA FlagMoves ==
    ASSUME [WrapNext]_wrapVars
    PROVE  \/ PyInit /\ interpreter = "running" /\ UNCHANGED interpreter
           \/ /\ PyCleanup
              /\ UNCHANGED interpreter
              /\ UNCHANGED finalizers \/ (finalizers > 0 /\ finalizers' = finalizers - 1)
           \/ /\ UNCHANGED <<isInitialized, initialised>>
              /\ \/ UNCHANGED <<finalizers, interpreter>>
                 \/ UNCHANGED finalizers /\ interpreter' = "exiting"
                 \/ UNCHANGED finalizers /\ finalizers = 0
                 \/ /\ UNCHANGED interpreter
                    /\ ~isInitialized /\ finalizers > 0 /\ finalizers' = finalizers - 1
<1>1. CASE InitCall \/ \E h \in Hid : ConstructInit(h)
  BY <1>1 DEF InitCall, ConstructInit, Ready
<1>2. CASE CleanupCall
  BY <1>2, SMTT(60) DEF CleanupCall
<1>3. Step => UNCHANGED initialised
  BY DEF Step, ScanFails, ScanOpen, ScanClaim, ScanClose, ClaimOnce, ClaimOrRetry,
         DetachDriver, InitParser, PrepareHidDescriptor, PrepareReportDescriptor, GiveUp
<1>4. CASE ConstructStep
  BY <1>3, <1>4 DEF ConstructStep
<1>5. ASSUME NEW h \in Hid, ConstructNew(h) \/ Close(h) \/ Del(h)
      PROVE  UNCHANGED <<isInitialized, initialised, finalizers, interpreter>>
  BY <1>5 DEF ConstructNew, NewHIDInterface, Close, Del, HidClose, vars
<1>6. ASSUME NEW h \in Hid, NEW i, NEW m, NEW force, NEW n, ConstructOpen(h, i, m, force, n)
      PROVE  UNCHANGED <<isInitialized, initialised, finalizers, interpreter>>
  BY <1>6 DEF ConstructOpen, OpenBegin, OpenRejected
<1>7. CASE Finalize \/ Exit \/ BeginExit
  BY <1>7 DEF Finalize, Exit, BeginExit, vars
<1>8. CASE Gone \/ UNCHANGED wrapVars \/ (Environment /\ UNCHANGED pyVars)
  BY <1>8 DEF Gone, wrapVars, pyVars, vars, Environment
<1> QED  BY <1>1, <1>2, <1>4, <1>5, <1>6, <1>7, <1>8 DEF WrapNext, Proceeding

LEMMA FlagStep ==
    ASSUME FlagInv, [WrapNext]_wrapVars PROVE FlagInv'
<1>1. CASE PyInit /\ interpreter = "running" /\ UNCHANGED interpreter
  <2>1. \/ ret' = "SUCCESS" /\ initialised' = TRUE
        \/ ret' # "SUCCESS" /\ UNCHANGED initialised
    BY <1>1 DEF PyInit, HidInit
  <2>2. /\ isInitialized' = (isInitialized \/ ret' = "SUCCESS")
        /\ finalizers' = IF ret' = "SUCCESS" THEN finalizers + 1 ELSE finalizers
    BY <1>1 DEF PyInit, Registered
  <2>3. CASE ret' = "SUCCESS"
    <3>1. isInitialized' = TRUE /\ initialised' = TRUE
      BY <2>1, <2>2, <2>3
    <3>2. finalizers' \in Nat /\ finalizers' > 0 /\ interpreter' # "exited"
      BY <1>1, <2>2, <2>3 DEF FlagInv
    <3> QED  BY <3>1, <3>2 DEF FlagInv
  <2>4. CASE ret' # "SUCCESS"
    <3>1. isInitialized' = isInitialized
      BY <2>2, <2>4 DEF FlagInv
    <3>2. initialised' = initialised
      BY <2>1, <2>4
    <3> QED  BY <1>1, <2>2, <2>4, <3>1, <3>2 DEF FlagInv
  <2> QED  BY <2>3, <2>4
<1>2. CASE /\ PyCleanup
           /\ UNCHANGED interpreter
           /\ UNCHANGED finalizers \/ (finalizers > 0 /\ finalizers' = finalizers - 1)
  <2>1. initialised' = FALSE /\ (initialised => ret' = "SUCCESS")
    BY <1>2 DEF PyCleanup, HidCleanup
  <2>2. isInitialized' = (isInitialized /\ ret' # "SUCCESS")
    BY <1>2 DEF PyCleanup, FlagAfterCleanup
  <2>3. isInitialized' = FALSE
    BY <2>1, <2>2, Zenon DEF FlagInv
  <2>4. finalizers' \in Nat
    BY <1>2 DEF FlagInv
  <2> QED  BY <2>1, <2>3, <2>4, Zenon DEF FlagInv
<1>3. CASE /\ UNCHANGED <<isInitialized, initialised>>
           /\ \/ UNCHANGED <<finalizers, interpreter>>
              \/ UNCHANGED finalizers /\ interpreter' = "exiting"
              \/ UNCHANGED finalizers /\ finalizers = 0
              \/ /\ UNCHANGED interpreter
                 /\ ~isInitialized /\ finalizers > 0 /\ finalizers' = finalizers - 1
  <2>1. finalizers' \in Nat
    BY <1>3 DEF FlagInv
  <2>2. isInitialized => finalizers' > 0 /\ interpreter' # "exited"
    BY <1>3 DEF FlagInv
  <2>3. isInitialized' = isInitialized /\ initialised' = initialised
    BY <1>3
  <2>4. /\ isInitialized' \in BOOLEAN
        /\ initialised' \in BOOLEAN
        /\ isInitialized' <=> initialised'
    BY <2>3, Zenon DEF FlagInv
  <2>5. isInitialized' => finalizers' > 0 /\ interpreter' # "exited"
    BY <2>2, <2>3, Zenon
  <2> QED  BY <2>1, <2>4, <2>5, Zenon DEF FlagInv
<1> QED  BY <1>1, <1>2, <1>3, FlagMoves

LEMMA FlagInvariant == WrapSpec => []FlagInv
<1>1. WrapInit => FlagInv
  <2>1. WrapInit => isInitialized = FALSE /\ initialised = FALSE /\ finalizers = 0
    BY DEF WrapInit, Init
  <2>2. 0 \in Nat
    OBVIOUS
  <2> QED  BY <2>1, <2>2, Zenon DEF FlagInv
<1> QED  BY <1>1, FlagStep, PTL DEF WrapSpec

\* IS_INITIALIZED is the flag of the library, though it is set and cleared
\* behind the calls by which the library changes its own.
THEOREM FlagIsTrue == WrapSpec => []FlagTracksLibrary
<1>1. FlagInv => FlagTracksLibrary
  BY DEF FlagInv, FlagTracksLibrary
<1> QED  BY <1>1, FlagInvariant, PTL

\* However often the program initialises and cleans up, and whichever of these
\* calls fail, _finalize_hid leaves the library cleaned up.
THEOREM ExitIsClean == WrapSpec => []CleanAtExit
<1>1. FlagInv => CleanAtExit
  BY DEF FlagInv, CleanAtExit
<1> QED  BY <1>1, FlagInvariant, PTL

-----------------------------------------------------------------------------
(* The Interfaces.                                                         *)

LEMMA WrapTypeStep ==
    ASSUME TypeOK, TypeOK', FlagInv', WrapTypeOK, [WrapNext]_wrapVars
    PROVE  WrapTypeOK'
<1> DEFINE Others ==
              /\ isOpen \in [Hid -> BOOLEAN]
              /\ life \in [Hid -> {"none", "constructing", "live", "failed", "collected"}]
              /\ interpreter \in {"running", "exiting", "exited"}
              /\ raised \in Method \cup {NULL}
              /\ history \in [closed : SUBSET Hid, cleaned : BOOLEAN]
<1>1. finalizers' \in 0..MaxInits
  BY FlagMoves, MaxInitsNumber DEF WrapTypeOK, PyInit, Registered
<1> SUFFICES Others'
  BY <1>1 DEF WrapTypeOK, FlagInv
<1>2. Others
  BY DEF WrapTypeOK
<1>3. ASSUME NEW success \in BOOLEAN, NEW method \in Method, RaiseUnless(success, method)
      PROVE  raised' \in Method \cup {NULL}
  BY <1>3 DEF RaiseUnless
<1>4. {"init", "cleanup", "__init__", "__del__", "close"} = Method
  BY DEF Method
<1>5. ASSUME NEW h, OpenReturned(h)
      PROVE  /\ isOpen' \in [Hid -> BOOLEAN]
             /\ life' \in [Hid -> {"none", "constructing", "live", "failed", "collected"}]
             /\ raised' \in Method \cup {NULL}
  BY <1>2, <1>4, <1>5 DEF OpenReturned, FlagAfterOpen, RaiseUnless
<1>6. ASSUME PyCleanup
      PROVE  /\ raised' \in Method \cup {NULL}
             /\ history' \in [closed : SUBSET Hid, cleaned : BOOLEAN]
  <2>1. history' = [history EXCEPT !.cleaned = @ \/ \E h \in Hid : IsOpened(h)]
    BY <1>6 DEF PyCleanup
  <2>2. (history.cleaned \/ \E h \in Hid : IsOpened(h)) \in BOOLEAN
    OBVIOUS
  <2>3. raised' \in Method \cup {NULL}
    BY <1>4, <1>6 DEF PyCleanup, RaiseUnless
  <2> QED  BY <1>2, <2>1, <2>2, <2>3
<1>7. CASE InitCall
  BY <1>2, <1>4, <1>7 DEF InitCall, RaiseUnless
<1>8. CASE CleanupCall \/ Finalize
  BY <1>2, <1>6, <1>8 DEF CleanupCall, Finalize
<1>9. ASSUME NEW h \in Hid, ConstructInit(h) \/ ConstructNew(h)
      PROVE  Others'
  BY <1>2, <1>4, <1>9 DEF ConstructInit, ConstructNew, RaiseUnless
<1>10. ASSUME NEW h \in Hid, NEW i, NEW m, NEW force, NEW n, ConstructOpen(h, i, m, force, n)
       PROVE  Others'
  BY <1>2, <1>5, <1>10 DEF ConstructOpen
<1>11. CASE ConstructStep
  BY <1>2, <1>5, <1>11 DEF ConstructStep
<1>12. ASSUME NEW h \in Hid, Close(h) \/ Del(h)
       PROVE  Others'
  BY <1>2, <1>4, <1>12 DEF Close, Del, RaiseUnless
<1>13. CASE BeginExit \/ Exit
  BY <1>2, <1>13 DEF BeginExit, Exit
<1>14. CASE Gone \/ UNCHANGED wrapVars \/ UNCHANGED pyVars
  BY <1>2, <1>14 DEF Gone, wrapVars, pyVars
<1> QED  BY <1>7, <1>8, <1>9, <1>10, <1>11, <1>12, <1>13, <1>14 DEF WrapNext, Proceeding

\* Behind NoneLeftOpen and DelRaises: the call under way is that of the one
\* constructor that runs, and is_open is set from the success of that call on.
LifeInv ==
    /\ pc # "idle" => Constructing(call.hid)
    /\ \A g, h \in Hid : Constructing(g) /\ Constructing(h) => g = h
    /\ NoneLeftOpen
    /\ \A h \in Hid : life[h] = "live" => isOpen[h] /\ (IsOpened(h) \/ h \in history.closed)
    /\ \A h \in Hid : isOpen[h] => life[h] \in {"live", "collected"}

\* The constructor's call goes on, or ends with its Interface open or failed.
LEMMA LifeConstruct ==
    ASSUME Inv, CodeInv, WrapTypeOK, LifeInv, ConstructStep PROVE LifeInv'
<1> PICK c : c = call.hid
  OBVIOUS
<1>1. Step /\ [Next]_vars /\ history' = history
  BY SMTT(60) DEF ConstructStep, Next
<1>2. pc # "idle"
  BY <1>1 DEF Step, ScanFails, ScanOpen, ScanClaim, ScanClose, ClaimOnce, ClaimOrRetry,
     DetachDriver, InitParser, PrepareHidDescriptor, PrepareReportDescriptor, GiveUp
<1>3. c \in Hid /\ Constructing(c)
  BY <1>2, CallType DEF Inv, LifeInv
<1>4. /\ isOpen \in [Hid -> BOOLEAN]
      /\ life \in [Hid -> {"none", "constructing", "live", "failed", "collected"}]
  BY DEF WrapTypeOK
<1>5. \A h \in Hid : ~HidClose(h)
  BY <1>2 DEF HidClose
\* the other objects
<1>6. ASSUME NEW h \in Hid, h # c
      PROVE  /\ ~Constructing(h)
             /\ IsOpened(h) => IsOpened(h)'
             /\ IsOpened(h)' /\ Between(h)' => IsOpened(h)
  <2>1. ~Constructing(h)
    BY <1>3, <1>6 DEF LifeInv
  <2>2. ASSUME IsOpened(h) PROVE IsOpened(h)'
    <3>1. devHandle'[h] = devHandle[h]
      BY <1>1, <1>5, <1>6, <2>2, OpenKept
    <3> QED  BY <2>2, <3>1 DEF IsOpened
  <2>3. ASSUME IsOpened(h)', Between(h)' PROVE IsOpened(h)
    BY <1>1, <1>6, <2>3, OpenedBefore
  <2> QED  BY <2>1, <2>2, <2>3
<1>7. CASE pc' # "idle"
  <2>1. call'.hid = c
    BY <1>1, <1>2, <1>7, SameObject
  <2>2. life' = life /\ isOpen' = isOpen
    BY <1>7 DEF ConstructStep
  <2>3. \A h \in Hid : h # c => Between(h)'
    BY <2>1 DEF Between
  <2>4. NoneLeftOpen'
    BY <1>3, <1>6, <1>7, <2>2, <2>3 DEF LifeInv, NoneLeftOpen, Constructing
  <2>5. ASSUME NEW h \in Hid, life'[h] = "live"
        PROVE  isOpen'[h] /\ (IsOpened(h)' \/ h \in history'.closed)
    <3>1. h # c /\ life[h] = "live"
      BY <1>3, <2>2, <2>5 DEF Constructing
    <3> QED  BY <1>1, <1>6, <2>2, <3>1 DEF LifeInv
  <2> QED  BY <1>3, <2>1, <2>2, <2>4, <2>5 DEF LifeInv, Constructing
<1>8. CASE pc' = "idle"
  <2>1. /\ isOpen' = [isOpen EXCEPT ![c] = (ret' = "SUCCESS")]
        /\ life' = [life EXCEPT ![c] = IF ret' = "SUCCESS" THEN "live" ELSE "failed"]
    BY <1>8 DEF ConstructStep, OpenReturned, FlagAfterOpen
  <2>2. /\ isOpen'[c] <=> ret' = "SUCCESS"
        /\ life'[c] = IF ret' = "SUCCESS" THEN "live" ELSE "failed"
        /\ \A h \in Hid : h # c => isOpen'[h] = isOpen[h] /\ life'[h] = life[h]
    BY <1>3, <1>4, <2>1
  <2>3. IsOpened(c)' <=> ret' = "SUCCESS"
    BY <1>1, <1>3, <1>8, ReturnOpens
  <2>4. \A h \in Hid : Between(h)'
    BY <1>8 DEF Between
  <2>5. NoneLeftOpen'
    BY <1>6, <2>2, <2>3, <2>4 DEF LifeInv, NoneLeftOpen, Constructing
  <2>6. ASSUME NEW h \in Hid, life'[h] = "live"
        PROVE  isOpen'[h] /\ (IsOpened(h)' \/ h \in history'.closed)
    BY <1>1, <1>6, <2>2, <2>3, <2>6 DEF LifeInv
  <2>7. \A h \in Hid : ~Constructing(h)'
    BY <1>6, <2>2 DEF Constructing
  <2>8. ASSUME NEW h \in Hid, isOpen'[h]
        PROVE  life'[h] \in {"live", "collected"}
    BY <2>2, <2>8 DEF LifeInv
  <2> QED  BY <1>8, <2>5, <2>6, <2>7, <2>8 DEF LifeInv
<1> QED  BY <1>7, <1>8

LEMMA LifeStep ==
    ASSUME Inv, CodeInv, WrapTypeOK, LifeInv, [WrapNext]_wrapVars PROVE LifeInv'
<1> USE DEF IsOpened, Constructing
<1>1. /\ devHandle \in [Hid -> Handle \cup {NULL}]
      /\ isOpen \in [Hid -> BOOLEAN]
      /\ life \in [Hid -> {"none", "constructing", "live", "failed", "collected"}]
      /\ history \in [closed : SUBSET Hid, cleaned : BOOLEAN]
  BY DEF Inv, TypeOK, WrapTypeOK
\* no object, no call and no Interface is touched
<1>2. ASSUME UNCHANGED <<devHandle, pc, call, life, isOpen>>, history'.closed = history.closed
      PROVE  LifeInv'
  BY <1>2 DEF LifeInv, NoneLeftOpen
<1>3. CASE InitCall \/ BeginExit \/ Exit \/ Gone \/ UNCHANGED wrapVars
           \/ (Environment /\ UNCHANGED pyVars)
  BY <1>2, <1>3 DEF InitCall, PyInit, HidInit, BeginExit, Exit, Gone, Environment, wrapVars,
     pyVars, vars, hidVars
<1>4. CASE CleanupCall \/ Finalize
  <2>1. /\ UNCHANGED <<life, isOpen>>
        /\ PyCleanup \/ UNCHANGED <<vars, history>>
    BY <1>4 DEF CleanupCall, Finalize
  <2>2. UNCHANGED <<devHandle, pc, call>> /\ history'.closed = history.closed
    BY <1>1, <2>1 DEF PyCleanup, HidCleanup, vars, hidVars
  <2> QED  BY <1>2, <2>1, <2>2
<1>5. ASSUME NEW h \in Hid, ConstructInit(h)
      PROVE  LifeInv'
  <2>1. /\ UNCHANGED <<devHandle, pc, call, isOpen, history>> /\ pc = "idle"
        /\ life[h] = "none" /\ \A g \in Hid : ~Constructing(g)
        /\ life' = life \/ life' = [life EXCEPT ![h] = "constructing"]
    BY <1>5 DEF ConstructInit, PyInit, HidInit, Ready, hidVars
  <2> QED  BY <1>1, <2>1 DEF LifeInv, NoneLeftOpen
<1>6. ASSUME NEW h \in Hid, ConstructNew(h)
      PROVE  LifeInv'
  <2>1. /\ UNCHANGED <<pc, call, isOpen, history>> /\ pc = "idle"
        /\ devHandle' = [devHandle EXCEPT ![h] = NULL]
        /\ life[h] \in {"none", "constructing"}
        /\ \A g \in Hid : Constructing(g) => g = h
        /\ life' = [life EXCEPT ![h] = "constructing"]
    BY <1>6 DEF ConstructNew, NewHIDInterface, ResetHid, Ready, LifeInv
  <2> QED  BY <1>1, <2>1 DEF LifeInv, NoneLeftOpen
<1>7. ASSUME NEW h \in Hid, NEW i, NEW m, NEW force, NEW n, ConstructOpen(h, i, m, force, n)
      PROVE  LifeInv'
  <2>1. Constructing(h) /\ pc = "idle" /\ history' = history /\ devHandle' = devHandle
    BY <1>7 DEF ConstructOpen, OpenBegin, OpenRejected, hidVars
  <2>2. CASE OpenBegin(h, InterfaceOpened(i, force), m, force, n) /\ UNCHANGED <<isOpen, life>>
    <3>1. call'.hid = h
      BY <2>2 DEF OpenBegin
    <3> QED  BY <2>1, <2>2, <3>1 DEF LifeInv, NoneLeftOpen
  <2>3. CASE OpenRejected(h, m) /\ OpenReturned(h)
    <3>1. pc' = pc /\ ret' # "SUCCESS"
      BY <2>3 DEF OpenRejected
    <3>2. isOpen' = [isOpen EXCEPT ![h] = FALSE] /\ life' = [life EXCEPT ![h] = "failed"]
      BY <2>3, <3>1 DEF OpenReturned, FlagAfterOpen
    <3>3. ~IsOpened(h)
      BY <2>1 DEF LifeInv, NoneLeftOpen
    <3> QED  BY <1>1, <2>1, <3>1, <3>2, <3>3 DEF LifeInv, NoneLeftOpen
  <2> QED  BY <1>7, <2>2, <2>3 DEF ConstructOpen
<1>8. ASSUME NEW h \in Hid, Close(h)
      PROVE  LifeInv'
  <2>1. /\ UNCHANGED <<pc, call, isOpen, life>>
        /\ devHandle' = [devHandle EXCEPT ![h] = NULL]
        /\ history'.closed = history.closed \cup {h}
    BY <1>1, <1>8 DEF Close, HidClose, ForgetHid, ResetHid
  <2> QED  BY <1>1, <2>1 DEF LifeInv, NoneLeftOpen
<1>9. ASSUME NEW h \in Hid, Del(h)
      PROVE  LifeInv'
  <2>1. /\ UNCHANGED <<pc, call, isOpen, history>>
        /\ life[h] \in {"live", "failed"}
        /\ life' = [life EXCEPT ![h] = "collected"]
        /\ \/ devHandle' = [devHandle EXCEPT ![h] = NULL]
           \/ ~isOpen[h] /\ devHandle' = devHandle
    BY <1>9 DEF Del, ClosesOnDel, HidClose, ForgetHid, ResetHid, vars, hidVars
  <2>2. IsOpened(h) => isOpen[h]
    BY <2>1 DEF LifeInv, NoneLeftOpen
  <2>3. ~IsOpened(h)' /\ \A g \in Hid : g # h => (IsOpened(g)' <=> IsOpened(g))
    BY <1>1, <2>1, <2>2
  <2> QED  BY <1>1, <2>1, <2>3 DEF LifeInv, NoneLeftOpen
<1> QED  BY <1>3, <1>4, <1>5, <1>6, <1>7, <1>8, <1>9, LifeConstruct DEF WrapNext, Proceeding

LEMMA WrapInvariant ==
    WrapSpec => [](Inv /\ ScanInv /\ CodeInv /\ WrapTypeOK /\ LifeInv)
<1>1. WrapInit => Inv /\ ScanInv /\ CodeInv
  BY InitInv DEF WrapInit, Init, ScanInv, CodeInv, Scanning, Holding
<1>2. WrapInit => WrapTypeOK
  <2>1. WrapInit => TypeOK
    BY InitInv DEF WrapInit, Inv
  <2>2. WrapInit => isInitialized \in BOOLEAN
    BY DEF WrapInit
  <2>3. WrapInit => /\ finalizers \in 0..MaxInits
                    /\ isOpen \in [Hid -> BOOLEAN]
                    /\ life \in [Hid -> {"none", "constructing", "live", "failed", "collected"}]
                    /\ history \in [closed : SUBSET Hid, cleaned : BOOLEAN]
    BY MaxInitsNumber DEF WrapInit
  <2>4. WrapInit => interpreter \in {"running", "exiting", "exited"} /\ raised \in Method \cup {NULL}
    BY DEF WrapInit
  <2> QED  BY <2>1, <2>2, <2>3, <2>4, Zenon DEF WrapTypeOK
<1>3. WrapInit => LifeInv
  BY DEF WrapInit, Init, LifeInv, NoneLeftOpen, Constructing, IsOpened
<1>4. [WrapNext]_wrapVars => [Next]_vars
  BY WrapStep DEF wrapVars
<1>5. Inv /\ ScanInv /\ CodeInv /\ [Next]_vars => (Inv /\ ScanInv /\ CodeInv)'
  BY InvStep, ScanStep, CodeStep
<1>6. Inv /\ Inv' /\ FlagInv' /\ WrapTypeOK /\ [WrapNext]_wrapVars => WrapTypeOK'
  BY WrapTypeStep DEF Inv
<1>7. Inv /\ CodeInv /\ WrapTypeOK /\ LifeInv /\ [WrapNext]_wrapVars => LifeInv'
  BY LifeStep
<1> QED  BY <1>1, <1>2, <1>3, <1>4, <1>5, <1>6, <1>7, FlagInvariant, PTL DEF WrapSpec

\* Every variable of the binding keeps its type.
THEOREM WrapTypesCorrect == WrapSpec => []WrapTypeOK
BY WrapInvariant, PTL

\* Nothing stays open behind an Interface whose constructor has raised, that
\* was closed, or that was dropped while it was open.
THEOREM NothingStaysOpen == WrapSpec => []NoneLeftOpen
<1>1. LifeInv => NoneLeftOpen
  BY DEF LifeInv
<1> QED  BY <1>1, WrapInvariant, PTL

\* A destructor raises where usb_close fails on an open interface, or where
\* close() was called before, which leaves is_open set.
THEOREM DestructorsRaise == WrapSpec => DelRaises
<1>1. ASSUME Inv, WrapTypeOK, LifeInv, [WrapNext]_wrapVars,
             NEW h \in Hid, life[h] # life'[h], life'[h] = "collected", raised' = "__del__"
      PROVE  IsOpened(h) \/ h \in history.closed
  <2>1. life \in [Hid -> {"none", "constructing", "live", "failed", "collected"}]
    BY <1>1 DEF WrapTypeOK
  <2>2. ASSUME NEW g, OpenReturned(g) PROVE FALSE
    BY <1>1, <2>1, <2>2 DEF OpenReturned
  <2>3. ~ConstructStep
    BY <1>1, <2>2 DEF ConstructStep
  <2>4. ASSUME NEW g, NEW i, NEW m, NEW force, NEW n, ConstructOpen(g, i, m, force, n)
        PROVE  FALSE
    BY <1>1, <2>2, <2>4 DEF ConstructOpen
  <2>5. ASSUME NEW g, ConstructInit(g) \/ ConstructNew(g) \/ Close(g) PROVE FALSE
    BY <1>1, <2>1, <2>5 DEF ConstructInit, ConstructNew, Close
  <2>6. ~(InitCall \/ CleanupCall \/ Finalize \/ BeginExit \/ Exit \/ Gone)
    BY <1>1 DEF InitCall, CleanupCall, Finalize, BeginExit, Exit, Gone, wrapVars, pyVars
  <2>7. ~(UNCHANGED wrapVars) /\ ~(UNCHANGED pyVars)
    BY <1>1 DEF wrapVars, pyVars
  <2>8. PICK g \in Hid : Del(g)
    BY <1>1, <2>3, <2>4, <2>5, <2>6, <2>7 DEF WrapNext, Proceeding
  <2>9. g = h
    BY <1>1, <2>1, <2>8 DEF Del
  <2>10. raised' # NULL
    BY <1>1, NullIsNoMethod DEF Method
  <2>11. isOpen[h] /\ life[h] \in {"live", "failed"}
    BY <2>8, <2>9, <2>10 DEF Del, ClosesOnDel
  <2>12. life[h] = "live"
    BY <1>1, <2>11 DEF LifeInv
  <2> QED  BY <1>1, <2>12 DEF LifeInv
<1>2. Inv /\ WrapTypeOK /\ LifeInv /\ [WrapNext]_wrapVars =>
        [\A h \in Hid :
           life[h] # life'[h] /\ life'[h] = "collected" /\ raised' = "__del__"
              => IsOpened(h) \/ h \in history.closed]_wrapVars
  BY <1>1
<1> QED  BY <1>2, WrapInvariant, PTL DEF WrapSpec, DelRaises

-----------------------------------------------------------------------------
(* What the library promises its clients, for Interfaces.                  *)

\* Initialising on demand never frees the device of an open Interface: as long
\* as the program calls cleanup() with nothing open, devices stay in the lists.
THEOREM DevicesOutlastInterfaces == WrapSpec => []FreedAfterCleanup
<1> DEFINE FreedInv == LiveInv \/ history.cleaned
<1>1. WrapInit => FreedInv
  BY DEF WrapInit, Init, LiveInv, DeviceLive, IsOpened
<1>2. ASSUME Inv, ScanInv, WrapTypeOK, FreedInv, [WrapNext]_wrapVars
      PROVE  FreedInv'
  <2>1. history \in [closed : SUBSET Hid, cleaned : BOOLEAN]
    BY <1>2 DEF WrapTypeOK
  <2>2. \/ UNCHANGED history
        \/ \E h : history' = [history EXCEPT !.closed = @ \cup {h}]
        \/ PyCleanup /\ history' = [history EXCEPT !.cleaned = @ \/ \E h \in Hid : IsOpened(h)]
    BY <1>2 DEF WrapNext, Proceeding, InitCall, CleanupCall, ConstructInit, ConstructNew,
       ConstructOpen, ConstructStep, Close, Del, BeginExit, Finalize, Exit, Gone, PyCleanup,
       wrapVars, pyVars
  <2>3. history.cleaned => history'.cleaned
    BY <2>1, <2>2
  <2>4. [Next]_vars
    BY <1>2, WrapStep DEF wrapVars
  <2>5. ASSUME HidCleanup, initialised, NEW h \in Hid, IsOpened(h)
        PROVE  history'.cleaned
    <3>1. initialised' = FALSE
      BY <2>5 DEF HidCleanup
    <3>2. PyCleanup
      BY <1>2, <2>5, <3>1, FlagMoves DEF PyInit, HidInit
    <3> QED  BY <2>1, <2>5, <3>2 DEF PyCleanup
  <2> QED  BY <1>2, <2>3, <2>4, <2>5, LiveStep
<1>3. FreedInv => FreedAfterCleanup
  BY DEF LiveInv, FreedAfterCleanup
<1> QED  BY <1>1, <1>2, <1>3, WrapInvariant, PTL DEF WrapSpec

\* No two Interfaces are open on the same interface of the same device, where
\* the open list has room for all of them.
THEOREM NoInterfaceTwice ==
    ASSUME RoomForAll PROVE WrapSpec => []NoReopen
<1>1. WrapInit => RoomInv
  BY DEF WrapInit, Init, RoomInv, IsOpened
<1>2. Inv /\ RoomInv /\ [WrapNext]_wrapVars => RoomInv'
  BY WrapStep, RoomStep DEF wrapVars
<1>3. Inv /\ RoomInv => NoReopen
  BY OpenTargetsDiffer
<1> QED  BY <1>1, <1>2, <1>3, WrapInvariant, PTL DEF WrapSpec
=============================================================================
