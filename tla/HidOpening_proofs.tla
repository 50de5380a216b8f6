-------------------------- MODULE HidOpening_proofs --------------------------
(***************************************************************************)
(* Theorems about HidOpening, for any set of objects, devices, interfaces  *)
(* and handles, any length of the open list and any environment: the list  *)
(* and the objects; what a scan has passed over and which handles are      *)
(* lost; who has claimed what; and, where the list has room for every      *)
(* object of the process, that no interface is opened twice and opening    *)
(* implements DeviceOwnership.                                             *)
(***************************************************************************)
EXTENDS HidOpening, SequenceTheorems, FiniteSetTheorems,
        WellFoundedInduction, TLAPS

-----------------------------------------------------------------------------
(* Lemmas about the operators.                                             *)

\* The lists of libusb are sequences of devices.
LEMMA FindDevicesType ==
    ASSUME FindDevices PROVE busDevices' \in Seq(Device)
<1>1. IsFiniteSet(Attached)
  BY DeviceFinite, FS_Subset DEF Attached
<1>2. Cardinality(Attached) \in Nat
  BY <1>1, FS_CardinalityType
<1>3. busDevices' \in [1..Cardinality(Attached) -> Device]
  BY DEF FindDevices, SetToSeqs, Attached
<1> QED  BY <1>2, <1>3

\* A set of numbers has a least one.
LEMMA LeastNatural ==
    ASSUME NEW I \in SUBSET Nat, I # {}
    PROVE  \E m \in I : \A n \in I : m <= n
<1>1. PICK m \in I : \A n \in I : <<n, m>> \notin OpToRel(<, Nat)
  BY NatLessThanWellFounded, WFMin
<1>2. \A n \in I : ~ (n < m)
  BY <1>1 DEF OpToRel
<1> QED  BY <1>2

\* remove_open_device moves the entries behind the first h up by one, and
\* does nothing when there is none.
LEMMA RemoveOpenDeviceShifts ==
    ASSUME NEW s \in Seq(Hid), NEW h \in Hid
    PROVE  \/ /\ \A k \in DOMAIN s : s[k] # h
              /\ RemoveOpenDevice(s, h) = s
           \/ \E i \in DOMAIN s :
                 /\ s[i] = h
                 /\ RemoveOpenDevice(s, h)
                       = [k \in 1..(Len(s) - 1) |-> IF k < i THEN s[k] ELSE s[k + 1]]
<1>1. CASE \A k \in 1..Len(s) : s[k] # h
  <2>1. ~ \E k \in 1..Len(s) : s[k] = h
    BY <1>1
  <2>2. RemoveOpenDevice(s, h) = s
    BY <2>1, Zenon DEF RemoveOpenDevice, RemoveFirst
  <2> QED  BY <1>1, <2>2
<1>2. CASE \E k \in 1..Len(s) : s[k] = h
  <2> DEFINE I == {i \in 1..Len(s) : s[i] = h}
             i == SelectInSeq(s, LAMBDA v : v = h)
  <2>1. I # {} /\ I \subseteq Nat
    BY <1>2
  <2>2. \E m \in I : \A n \in I : m <= n
    BY <2>1, LeastNatural
  <2>3. i \in I
    BY <2>1, <2>2 DEF SelectInSeq, Min
  <2>4. RemoveOpenDevice(s, h) = SubSeq(s, 1, i - 1) \o SubSeq(s, i + 1, Len(s))
    BY <1>2 DEF RemoveOpenDevice, RemoveFirst, RemoveAt
  <2> HIDE DEF i
  <2> DEFINE front == SubSeq(s, 1, i - 1)
             back == SubSeq(s, i + 1, Len(s))
  <2>5. /\ front \in Seq(Hid) /\ Len(front) = i - 1
        /\ \A k \in 1..(i - 1) : front[k] = s[k]
    BY <2>3
  <2>6. /\ back \in Seq(Hid) /\ Len(back) = Len(s) - i
        /\ \A k \in 1..(Len(s) - i) : back[k] = s[i + k]
    BY <2>3
  <2> HIDE DEF front, back
  <2>7. front \o back = [k \in 1..(Len(s) - 1) |-> IF k < i THEN s[k] ELSE s[k + 1]]
    <3> DEFINE cat == front \o back
    <3>1. /\ cat \in Seq(Hid)
          /\ Len(cat) = Len(front) + Len(back)
          /\ \A k \in 1..(Len(front) + Len(back)) :
                cat[k] = IF k <= Len(front) THEN front[k] ELSE back[k - Len(front)]
      BY <2>5, <2>6, ConcatProperties
    <3> HIDE DEF cat
    <3>2. Len(front) = i - 1 /\ Len(back) = Len(s) - i /\ Len(s) \in Nat /\ i \in 1..Len(s)
      BY <2>3, <2>5, <2>6
    <3>3. Len(cat) = Len(s) - 1
      BY <3>1, <3>2
    <3>4. ASSUME NEW k \in 1..(Len(s) - 1)
          PROVE  cat[k] = IF k < i THEN s[k] ELSE s[k + 1]
      <4>1. CASE k < i
        <5>1. k \in 1..(i - 1) /\ k \in 1..(Len(front) + Len(back)) /\ k <= Len(front)
          BY <3>2, <4>1
        <5> QED  BY <2>5, <3>1, <4>1, <5>1
      <4>2. CASE ~(k < i)
        <5>3. /\ k \in 1..(Len(front) + Len(back)) /\ ~(k <= Len(front))
              /\ k - Len(front) = k - (i - 1) /\ k - (i - 1) \in 1..(Len(s) - i)
          BY <3>2, <4>2
        <5>1. cat[k] = back[k - (i - 1)] /\ k - (i - 1) \in 1..(Len(s) - i)
          BY <3>1, <5>3
        <5>2. back[k - (i - 1)] = s[i + (k - (i - 1))] /\ i + (k - (i - 1)) = k + 1
          BY <2>6, <3>2, <5>1
        <5> QED  BY <4>2, <5>1, <5>2
      <4> QED  BY <4>1, <4>2
    <3>5. cat = [k \in 1..(Len(s) - 1) |-> cat[k]]
      BY <3>1, <3>3
    <3>6. cat = [k \in 1..(Len(s) - 1) |-> IF k < i THEN s[k] ELSE s[k + 1]]
      BY <3>4, <3>5
    <3> QED  BY <3>6 DEF cat
  <2>8. i \in DOMAIN s /\ s[i] = h
    BY <2>3
  <2> QED  BY <2>4, <2>7, <2>8 DEF front, back
<1> QED  BY <1>1, <1>2

\* It leaves a sequence of what was there; of distinct entries it leaves
\* distinct ones, all but h.
LEMMA RemoveOpenDeviceProps ==
    ASSUME NEW s \in Seq(Hid), NEW h \in Hid
    PROVE  LET t == RemoveOpenDevice(s, h) IN
           /\ t \in Seq(Hid)
           /\ Len(t) <= Len(s)
           /\ (\A j, k \in DOMAIN s : j # k => s[j] # s[k])
                 => /\ \A k \in DOMAIN t : t[k] # h
                    /\ \A j, k \in DOMAIN t :
                          j # k => \E m, n \in DOMAIN s : m # n /\ t[j] = s[m] /\ t[k] = s[n]
                    /\ \A k \in DOMAIN t : \E n \in DOMAIN s : t[k] = s[n]
<1> DEFINE t == RemoveOpenDevice(s, h)
<1>1. CASE /\ \A k \in DOMAIN s : s[k] # h
           /\ t = s
  BY <1>1
<1>2. ASSUME NEW i \in DOMAIN s, s[i] = h,
             t = [k \in 1..(Len(s) - 1) |-> IF k < i THEN s[k] ELSE s[k + 1]]
      PROVE  /\ t \in Seq(Hid)
             /\ Len(t) <= Len(s)
             /\ (\A j, k \in DOMAIN s : j # k => s[j] # s[k])
                   => /\ \A k \in DOMAIN t : t[k] # h
                      /\ \A j, k \in DOMAIN t :
                            j # k => \E m, n \in DOMAIN s : m # n /\ t[j] = s[m] /\ t[k] = s[n]
                      /\ \A k \in DOMAIN t : \E n \in DOMAIN s : t[k] = s[n]
  <2> HIDE DEF t
  <2> DEFINE up(k) == IF k < i THEN k ELSE k + 1
  <2>1. Len(s) \in Nat /\ DOMAIN s = 1..Len(s) /\ i \in 1..Len(s)
    OBVIOUS
  <2>2. t \in Seq(Hid) /\ Len(t) = Len(s) - 1 /\ DOMAIN t = 1..(Len(s) - 1)
    BY <1>2, <2>1
  <2>3. \A k \in DOMAIN t : up(k) \in DOMAIN s /\ up(k) # i /\ t[k] = s[up(k)]
    BY <1>2, <2>1, <2>2
  <2>4. \A j, k \in DOMAIN t : j # k => up(j) # up(k)
    BY <2>1, <2>2
  <2> HIDE DEF up
  <2>5. \A k \in DOMAIN t : \E n \in DOMAIN s : t[k] = s[n]
    BY <2>3
  <2>6. \A j, k \in DOMAIN t :
           j # k => \E m, n \in DOMAIN s : m # n /\ t[j] = s[m] /\ t[k] = s[n]
    BY <2>3, <2>4
  <2>7. (\A j, k \in DOMAIN s : j # k => s[j] # s[k]) => \A k \in DOMAIN t : t[k] # h
    BY <1>2, <2>3
  <2> QED  BY <2>1, <2>2, <2>5, <2>6, <2>7
<1> QED  BY <1>1, <1>2, RemoveOpenDeviceShifts

\* add_open_device appends, or does nothing when the list is full.
LEMMA AddOpenDeviceProps ==
    ASSUME NEW s \in Seq(Hid), NEW h \in Hid, Len(s) <= MaxOpen
    PROVE  LET t == AddOpenDevice(s, h) IN
           /\ t \in Seq(Hid)
           /\ Len(t) <= MaxOpen
           /\ \/ t = s
              \/ /\ DOMAIN t = 1..(Len(s) + 1)
                 /\ t[Len(s) + 1] = h
                 /\ \A k \in DOMAIN s : t[k] = s[k]
BY BoundsAreNumbers DEF AddOpenDevice

-----------------------------------------------------------------------------
(* The inductive invariant.                                                *)

Inv == TypeOK /\ OpeningInv

\* The invariant holds before the first call.
LEMMA InitInv == Init => Inv
<1> SUFFICES ASSUME Init PROVE Inv
  OBVIOUS
<1>1. UsbTypeOK
  BY DEF Init, UsbInit, UsbTypeOK
<1>2. openList \in Seq(Hid) /\ Len(openList) <= MaxOpen
  BY BoundsAreNumbers DEF Init
<1>3. TypeOK
  BY <1>1, <1>2 DEF Init, TypeOK
<1>4. CallInv
  BY DEF Init, CallInv, Scanning, Holding
<1>5. ListInv
  BY DEF Init, ListInv, ExclusiveListed, Holding
<1>6. OpenedIsWhole
  BY DEF Init, OpenedIsWhole, Listed, IsOpened
<1> QED  BY <1>3, <1>4, <1>5, <1>6 DEF Inv, OpeningInv

\* No call of an open is under way between calls, and one is in every step.
LEMMA CallType ==
    ASSUME TypeOK, pc # "idle"
    PROVE  /\ call \in Call
           /\ call.hid \in Hid
           /\ call.handle \in Handle \cup {NULL}
           /\ call.todo \in Seq(Device)
           /\ call.retries \in Nat
BY DEF TypeOK, Call

\* A claim taken or dropped leaves holder a function of the same type.
LEMMA HolderType ==
    ASSUME TypeOK, NEW x \in Handle, NEW i
    PROVE  /\ AfterClaim(x, i) \in [Device \X Iface -> Handle \cup {Free, Foreign}]
           /\ AfterDetach(x, i) \in [Device \X Iface -> Handle \cup {Free, Foreign}]
           /\ UsbClose(x) => /\ holder' \in [Device \X Iface -> Handle \cup {Free, Foreign}]
                             /\ handleOf' \in [Handle -> Device \cup {NULL}]
BY DEF TypeOK, UsbTypeOK, AfterClaim, AfterDetach, UsbClose

\* Every step keeps the types: one case for each action.
LEMMA TypeStep ==
    ASSUME Inv, [Next]_vars PROVE TypeOK'
<1> USE DEF Goto, Return, Holding, Scanning, ReturnCode
<1>1. TypeOK /\ CallInv
  BY DEF Inv, OpeningInv
<1>2. CASE UNCHANGED vars
  BY <1>1, <1>2 DEF vars, usbVars, hidVars, TypeOK, UsbTypeOK
<1>3. CASE Environment
  <2>1. ASSUME NEW d \in Device, Plug(d) \/ Unplug(d)
        PROVE  UsbTypeOK'
    BY <1>1, <2>1 DEF Plug, Unplug, TypeOK, UsbTypeOK
  <2>2. ASSUME NEW p \in Device \X Iface,
               ForeignClaim(p) \/ ForeignRelease(p) \/ ForeignEvict(p)
        PROVE  UsbTypeOK'
    BY <1>1, <2>2 DEF ForeignClaim, ForeignRelease, ForeignEvict, TypeOK, UsbTypeOK
  <2>3. UsbTypeOK'
    BY <1>3, <2>1, <2>2 DEF Environment, UsbNext
  <2> QED  BY <1>1, <1>3, <2>3 DEF Environment, hidVars, TypeOK
<1>4. CASE HidInit
  BY <1>1, <1>4, FindDevicesType DEF HidInit, hidVars, TypeOK, UsbTypeOK
<1>5. CASE HidCleanup
  BY <1>1, <1>5 DEF HidCleanup, usbVars, hidVars, TypeOK, UsbTypeOK
<1>6. ASSUME NEW h \in Hid, NewHIDInterface(h) \/ DeleteHIDInterface(h)
      PROVE  TypeOK'
  <2>1. alive' \subseteq Hid
    BY <1>1, <1>6 DEF NewHIDInterface, DeleteHIDInterface, TypeOK
  <2>2. /\ devHandle' \in [Hid -> Handle \cup {NULL}]
        /\ device' \in [Hid -> Device \cup {NULL}]
        /\ interface' \in [Hid -> Iface \cup {NULL}]
        /\ hasData' \in [Hid -> BOOLEAN]
        /\ hasParser' \in [Hid -> BOOLEAN]
    BY <1>1, <1>6 DEF NewHIDInterface, DeleteHIDInterface, ResetHid, TypeOK
  <2>3. UNCHANGED <<usbVars, initialised, openList, pc, call, ret>>
    BY <1>6 DEF NewHIDInterface, DeleteHIDInterface
  <2> QED  BY <1>1, <2>1, <2>2, <2>3 DEF usbVars, TypeOK, UsbTypeOK
<1>7. ASSUME NEW h \in Hid, HidClose(h)
      PROVE  TypeOK'
  <2>1. openList' \in Seq(Hid) /\ Len(openList') <= MaxOpen
    BY <1>1, <1>7, RemoveOpenDeviceProps, BoundsAreNumbers DEF HidClose, ForgetHid, TypeOK
  <2>2. UsbTypeOK'
    BY <1>1, <1>7, HolderType DEF HidClose, IsOpened, TypeOK, UsbTypeOK
  <2> QED  BY <1>1, <1>7, <2>1, <2>2 DEF HidClose, ForgetHid, ResetHid, TypeOK
<1>8. ASSUME NEW h \in Hid, NEW m, OpenRejected(h, m)
      PROVE  TypeOK'
  BY <1>1, <1>8 DEF OpenRejected, usbVars, hidVars, TypeOK, UsbTypeOK
<1>9. ASSUME NEW h \in Hid, NEW i \in Iface, NEW m \in Matcher, NEW force \in BOOLEAN,
             NEW n \in Nat, OpenBegin(h, i, m, force, n)
      PROVE  TypeOK'
  <2>1. call' \in Call
    BY <1>1, <1>9 DEF OpenBegin, Call, TypeOK, UsbTypeOK
  <2>2. UsbTypeOK'
    BY <1>1, <1>9 DEF OpenBegin, usbVars, TypeOK, UsbTypeOK
  <2> QED  BY <1>1, <1>9, <2>1, <2>2 DEF OpenBegin, TypeOK
<1>10. ASSUME NEW code, ScanFails(code)
       PROVE  TypeOK'
  BY <1>1, <1>10, CallType DEF ScanFails, usbVars, TypeOK, UsbTypeOK
<1>11. ASSUME NEW x \in Handle, ScanOpen(x)
       PROVE  TypeOK'
  <2>2. Head(call.todo) \in Device /\ Tail(call.todo) \in Seq(Device)
    BY <1>1, <1>11, CallType DEF ScanOpen
  <2>1. call' \in Call
    <3>1. call \in Call
      BY <1>1, <1>11, CallType DEF ScanOpen
    <3> QED  BY <1>11, <2>2, <3>1 DEF ScanOpen, Call
  <2>3. UsbTypeOK'
    BY <1>1, <1>11, <2>2 DEF ScanOpen, UsbOpen, TypeOK, UsbTypeOK
  <2> QED  BY <1>1, <1>11, <2>1, <2>3 DEF ScanOpen, hidVars, TypeOK
<1>12. CASE ScanClaim
  <2>1. call.handle \in Handle /\ call \in Call /\ call.hid \in Hid
    BY <1>1, <1>12, CallType DEF ScanClaim, CallInv
  <2>2. handleOf[call.handle] \in Device
    BY <1>1, <1>12 DEF ScanClaim, CallInv
  <2>3. UsbTypeOK'
    BY <1>1, <1>12, <2>1, HolderType DEF ScanClaim, TypeOK, UsbTypeOK
  <2>4. call' \in Call /\ pc' \in Scanning \cup Holding
    BY <1>12, <2>1 DEF ScanClaim, Call, Continue
  <2> QED  BY <1>1, <1>12, <2>1, <2>2, <2>3, <2>4 DEF ScanClaim, TypeOK
<1>13. CASE ScanClose
  <2>1. call.handle \in Handle /\ call \in Call
    BY <1>1, <1>13, CallType DEF ScanClose, CallInv
  <2>2. UsbTypeOK'
    BY <1>1, <1>13, <2>1, HolderType DEF ScanClose, TypeOK, UsbTypeOK
  <2>3. call' \in Call
    BY <1>13, <2>1 DEF ScanClose, Call
  <2> QED  BY <1>1, <1>13, <2>2, <2>3 DEF ScanClose, hidVars, TypeOK
<1>14. ASSUME ClaimOnce \/ ClaimOrRetry \/ DetachDriver
       PROVE  TypeOK'
  <2> USE DEF ClaimOnce, ClaimOrRetry, DetachDriver
  <2>1. devHandle[call.hid] \in Handle /\ call \in Call
    BY <1>1, <1>14, CallType DEF CallInv, IsOpened, TypeOK
  <2> DEFINE x == devHandle[call.hid]
             i == interface[call.hid]
  <2>2. holder' \in {holder, AfterClaim(x, i), AfterDetach(x, i)}
    BY <1>14, Zenon
  <2>3. holder' \in [Device \X Iface -> Handle \cup {Free, Foreign}]
    BY <1>1, <2>1, <2>2, HolderType DEF TypeOK, UsbTypeOK
  <2>4. UNCHANGED <<plug, busDevices, handleOf, initialised, hidVars, openList>>
    BY <1>14
  <2>5. UsbTypeOK'
    BY <1>1, <2>3, <2>4 DEF TypeOK, UsbTypeOK
  <2>6. call' \in Call /\ pc' \in Holding /\ UNCHANGED ret
    BY <1>14, <2>1 DEF Call, RetryLeft, RetriesAfter
  <2> QED  BY <1>1, <2>4, <2>5, <2>6 DEF hidVars, TypeOK
<1>15. CASE InitParser
  <2>1. call' \in Call /\ pc' \in Holding
    BY <1>1, <1>15, CallType DEF InitParser, Call
  <2> QED  BY <1>1, <1>15, <2>1, CallType DEF InitParser, usbVars, TypeOK, UsbTypeOK
<1>16. CASE PrepareHidDescriptor
  <2>1. call' \in Call /\ pc' \in Holding
    BY <1>1, <1>16, CallType DEF PrepareHidDescriptor, Call
  <2> QED  BY <1>1, <1>16, <2>1 DEF PrepareHidDescriptor, usbVars, hidVars, TypeOK, UsbTypeOK
<1>17. CASE PrepareReportDescriptor
  <2>1. openList' \in Seq(Hid) /\ Len(openList') <= MaxOpen
    BY <1>1, <1>17, CallType, AddOpenDeviceProps DEF PrepareReportDescriptor, TypeOK
  <2>2. IF pc' = "idle" THEN call' = NULL ELSE call' \in Call /\ pc' \in Holding
    BY <1>1, <1>17, CallType DEF PrepareReportDescriptor, Call
  <2> QED  BY <1>1, <1>17, <2>1, <2>2 DEF PrepareReportDescriptor, usbVars, hidVars, TypeOK, UsbTypeOK
<1>18. CASE GiveUp
  <2>1. devHandle[call.hid] \in Handle /\ call.hid \in Hid /\ call.code \in ReturnCode
    BY <1>1, <1>18, CallType DEF GiveUp, CallInv, IsOpened, TypeOK
  <2>2. UsbTypeOK'
    BY <1>1, <1>18, <2>1, HolderType DEF GiveUp, TypeOK, UsbTypeOK
  <2>3. openList' \in Seq(Hid) /\ Len(openList') <= MaxOpen
    BY <1>1, <1>18, <2>1, RemoveOpenDeviceProps, BoundsAreNumbers DEF GiveUp, ForgetHid, TypeOK
  <2> QED  BY <1>1, <1>18, <2>1, <2>2, <2>3 DEF GiveUp, ForgetHid, ResetHid, TypeOK
<1>19. CASE Step
  BY <1>10, <1>11, <1>12, <1>13, <1>14, <1>15, <1>16, <1>17, <1>18, <1>19 DEF Step
<1>20. CASE Client
  <2>1. 0 \in Nat /\ 0..MaxRetries \subseteq Nat
    BY BoundsAreNumbers
  <2> QED  BY <1>4, <1>5, <1>6, <1>7, <1>8, <1>9, <1>20, <2>1 DEF Client
<1> QED  BY <1>2, <1>3, <1>19, <1>20 DEF Next

\* Entries of the open list are distinct, open and alive.
LEMMA ListedFacts ==
    ASSUME Inv
    PROVE  /\ openList \in Seq(Hid)
           /\ \A k \in DOMAIN openList : /\ openList[k] \in Hid
                                        /\ IsOpened(openList[k])
                                        /\ openList[k] \in alive
           /\ \A j, k \in DOMAIN openList : j # k => openList[j] # openList[k]
<1>1. openList \in Seq(Hid)
  BY DEF Inv, TypeOK
<1>2. \A k \in DOMAIN openList : openList[k] \in Hid
  BY <1>1
<1>3. \A k \in DOMAIN openList : IsOpened(openList[k]) /\ openList[k] \in alive
  BY <1>2 DEF Inv, OpeningInv, OpenedIsWhole, Listed
<1>4. \A j, k \in DOMAIN openList : j # k => openList[j] # openList[k]
  BY DEF Inv, OpeningInv, ListInv, ExclusiveListed
<1> QED  BY <1>1, <1>2, <1>3, <1>4

\* hid_close takes h, and nothing else, out of the list.
LEMMA ForgetFacts ==
    ASSUME Inv, NEW h \in Hid, ForgetHid(h)
    PROVE  /\ \A k \in DOMAIN openList' :
                 openList'[k] # h /\ \E n \in DOMAIN openList : openList'[k] = openList[n]
           /\ \A j, k \in DOMAIN openList' :
                 j # k => \E m, n \in DOMAIN openList :
                            m # n /\ openList'[j] = openList[m] /\ openList'[k] = openList[n]
<1>1. openList' = RemoveOpenDevice(openList, h)
  BY DEF ForgetHid
<1>2. openList \in Seq(Hid) /\ \A j, k \in DOMAIN openList : j # k => openList[j] # openList[k]
  BY ListedFacts
<1> DEFINE t == RemoveOpenDevice(openList, h)
<1>3. /\ \A k \in DOMAIN t : t[k] # h
      /\ \A k \in DOMAIN t : \E n \in DOMAIN openList : t[k] = openList[n]
      /\ \A j, k \in DOMAIN t :
            j # k => \E m, n \in DOMAIN openList :
                       m # n /\ t[j] = openList[m] /\ t[k] = openList[n]
  BY <1>2, RemoveOpenDeviceProps, ZenonT(60)
<1>4. openList' = t
  BY <1>1
<1> HIDE DEF t
<1>5. \A k \in DOMAIN openList' :
         openList'[k] # h /\ \E n \in DOMAIN openList : openList'[k] = openList[n]
  BY <1>3, <1>4
<1>6. \A j, k \in DOMAIN openList' :
         j # k => \E m, n \in DOMAIN openList :
                    m # n /\ openList'[j] = openList[m] /\ openList'[k] = openList[n]
  BY <1>3, <1>4
<1> QED  BY <1>5, <1>6

\* Every step keeps what the call in progress relies on.
LEMMA CallStep ==
    ASSUME Inv, [Next]_vars PROVE CallInv'
<1> USE DEF Goto, Return, Holding, Scanning, IsOpened
<1>1. TypeOK /\ CallInv /\ OpenedIsWhole
  BY DEF Inv, OpeningInv
<1>2. CASE UNCHANGED vars
  BY <1>1, <1>2 DEF vars, usbVars, hidVars, CallInv
<1>3. CASE Environment
  BY <1>1, <1>3 DEF Environment, UsbNext, Plug, Unplug, ForeignClaim, ForeignRelease,
     ForeignEvict, hidVars, CallInv
<1>4. ASSUME pc' = "idle"
      PROVE  CallInv'
  BY <1>4 DEF CallInv
<1>5. ASSUME NEW h \in Hid, NEW i \in Iface, NEW m, NEW force, NEW n, OpenBegin(h, i, m, force, n)
      PROVE  CallInv'
  BY <1>1, <1>5 DEF OpenBegin, CallInv, OpenedIsWhole, Between, TypeOK
<1>6. ASSUME NEW x \in Handle, ScanOpen(x)
      PROVE  CallInv'
  <2>1. call' = [call EXCEPT !.handle = x, !.todo = Tail(@)] /\ call \in Call
    BY <1>1, <1>6, CallType DEF ScanOpen
  <2>2. call'.handle = x /\ call'.hid = call.hid
    BY <2>1 DEF Call
  <2>3. handleOf[x] = NULL /\ handleOf'[x] \in Device
    BY <1>1, <1>6, CallType DEF ScanOpen, UsbOpen, TypeOK, UsbTypeOK
  <2>4. \A h \in Hid : devHandle[h] # x
    BY <1>1, <2>3, NullIsNothing DEF OpenedIsWhole
  <2> QED  BY <1>1, <1>6, <2>2, <2>3, <2>4 DEF ScanOpen, hidVars, CallInv
<1>7. CASE ScanClaim
  <2>1. call \in Call /\ call.hid \in Hid /\ call.handle \in Handle
    BY <1>1, <1>7, CallType DEF ScanClaim, CallInv
  <2>2. call'.hid = call.hid /\ (pc' = "scanClose" => call' = call)
    BY <1>7, <2>1 DEF ScanClaim, Call
  <2> QED  BY <1>1, <1>7, <2>1, <2>2, NullIsNothing DEF ScanClaim, CallInv, TypeOK
<1>8. CASE ScanClose
  <2>1. call'.hid = call.hid
    BY <1>1, <1>8, CallType DEF ScanClose, Call
  <2> QED  BY <1>1, <1>8, <2>1 DEF ScanClose, hidVars, CallInv
<1>9. ASSUME ClaimOnce \/ ClaimOrRetry \/ DetachDriver
      PROVE  CallInv'
  <2> USE DEF ClaimOnce, ClaimOrRetry, DetachDriver
  <2>1. call \in Call
    BY <1>1, <1>9, CallType
  <2>2. call'.hid = call.hid /\ (pc' = "giveUp" => call'.code \in ReturnCode)
    BY <1>9, <2>1 DEF Call, ReturnCode
  <2> QED  BY <1>1, <1>9, <2>2 DEF hidVars, CallInv
<1>10. CASE InitParser
  <2>1. call \in Call /\ call.hid \in Hid
    BY <1>1, <1>10, CallType DEF InitParser
  <2>2. call'.hid = call.hid /\ (pc' = "giveUp" => call'.code \in ReturnCode)
    BY <1>10, <2>1 DEF InitParser, Call, ReturnCode
  <2> QED  BY <1>1, <1>10, <2>1, <2>2 DEF InitParser, CallInv, TypeOK
<1>11. CASE PrepareHidDescriptor
  <2>1. call'.hid = call.hid /\ (pc' = "giveUp" => call'.code \in ReturnCode)
    BY <1>1, <1>11, CallType DEF PrepareHidDescriptor, Call, ReturnCode
  <2> QED  BY <1>1, <1>11, <2>1 DEF PrepareHidDescriptor, hidVars, CallInv
<1>12. CASE PrepareReportDescriptor /\ pc' # "idle"
  <2>1. call'.hid = call.hid /\ (pc' = "giveUp" => call'.code \in ReturnCode)
    BY <1>1, <1>12, CallType DEF PrepareReportDescriptor, Call, ReturnCode
  <2> QED  BY <1>1, <1>12, <2>1 DEF PrepareReportDescriptor, hidVars, CallInv
<1>13. CASE Step
  <2>1. (\E code : ScanFails(code)) \/ GiveUp => pc' = "idle"
    BY DEF ScanFails, GiveUp
  <2> QED  BY <1>4, <1>6, <1>7, <1>8, <1>9, <1>10, <1>11, <1>12, <1>13, <2>1 DEF Step
<1>14. CASE Client
  <2>1. HidInit \/ HidCleanup => pc' = "idle"
    BY DEF HidInit, HidCleanup
  <2>2. ASSUME NEW h \in Hid, NEW m,
               NewHIDInterface(h) \/ DeleteHIDInterface(h) \/ HidClose(h) \/ OpenRejected(h, m)
        PROVE  pc' = "idle"
    BY <2>2 DEF NewHIDInterface, DeleteHIDInterface, HidClose, OpenRejected
  <2> QED  BY <1>4, <1>5, <1>14, <2>1, <2>2 DEF Client
<1> QED  BY <1>2, <1>3, <1>13, <1>14 DEF Next

\* Every step leaves the objects whole, but for the one it is opening.
LEMMA WholeStep ==
    ASSUME Inv, [Next]_vars PROVE OpenedIsWhole'
<1> USE DEF Goto, Return, Holding, Scanning, IsOpened, Between
<1>1. TypeOK /\ CallInv /\ OpenedIsWhole
  BY DEF Inv, OpeningInv
<1>2. CASE UNCHANGED vars
  BY <1>1, <1>2 DEF vars, usbVars, hidVars, OpenedIsWhole, Listed
<1>3. CASE Environment
  BY <1>1, <1>3 DEF Environment, UsbNext, Plug, Unplug, ForeignClaim, ForeignRelease,
     ForeignEvict, hidVars, OpenedIsWhole, Listed
<1>4. CASE HidInit \/ HidCleanup
  BY <1>1, <1>4 DEF HidInit, HidCleanup, usbVars, hidVars, OpenedIsWhole, Listed
<1>5. ASSUME NEW h \in Hid, NewHIDInterface(h) \/ DeleteHIDInterface(h)
      PROVE  OpenedIsWhole'
  <2>1. ~IsOpened(h)
    BY <1>1, <1>5 DEF NewHIDInterface, DeleteHIDInterface, OpenedIsWhole
  <2> QED  BY <1>1, <1>5, <2>1 DEF NewHIDInterface, DeleteHIDInterface, ResetHid, usbVars,
              OpenedIsWhole, Listed, TypeOK
\* closing h: no other object has its handle
<1>6. ASSUME NEW h \in Hid, ForgetHid(h), alive' = alive, pc' = "idle",
             pc = "idle" \/ call.hid = h,
             IsOpened(h) => UsbClose(devHandle[h]),
             ~IsOpened(h) => UNCHANGED handleOf
      PROVE  OpenedIsWhole'
  <2>1. ASSUME NEW g \in Hid, Listed(g)'
        PROVE  Listed(g) /\ g # h
    BY <2>1, <1>6, ForgetFacts DEF Listed
  <2>2. ASSUME NEW g \in Hid, g # h
        PROVE  /\ devHandle'[g] = devHandle[g] /\ device'[g] = device[g]
               /\ hasData'[g] = hasData[g] /\ hasParser'[g] = hasParser[g]
               /\ interface'[g] = interface[g]
               /\ Between(g)
               /\ IsOpened(g) => handleOf'[devHandle[g]] = device[g]
    BY <1>1, <1>6, <2>2 DEF ForgetHid, ResetHid, UsbClose, OpenedIsWhole, TypeOK, UsbTypeOK
  <2>3. ~IsOpened(h)' /\ ~hasData'[h] /\ ~hasParser'[h]
    BY <1>1, <1>6 DEF ForgetHid, ResetHid, TypeOK
  <2> QED  BY <1>1, <1>6, <2>1, <2>2, <2>3 DEF OpenedIsWhole
<1>7. ASSUME NEW h \in Hid, HidClose(h)
      PROVE  OpenedIsWhole'
  BY <1>6, <1>7 DEF HidClose
<1>8. CASE GiveUp
  BY <1>1, <1>6, <1>8, CallType DEF GiveUp, CallInv
<1>9. ASSUME NEW h \in Hid, NEW m, OpenRejected(h, m)
      PROVE  OpenedIsWhole'
  BY <1>1, <1>9 DEF OpenRejected, usbVars, hidVars, OpenedIsWhole, Listed
<1>10. ASSUME NEW h \in Hid, NEW i \in Iface, NEW m, NEW force, NEW n, OpenBegin(h, i, m, force, n)
       PROVE  OpenedIsWhole'
  BY <1>1, <1>10 DEF OpenBegin, usbVars, OpenedIsWhole, Listed
<1>11. ASSUME NEW code, ScanFails(code)
       PROVE  OpenedIsWhole'
  BY <1>1, <1>11, CallType DEF ScanFails, usbVars, CallInv, OpenedIsWhole, Listed, TypeOK
<1>12. ASSUME NEW x \in Handle, ScanOpen(x)
       PROVE  OpenedIsWhole'
  <2>1. call'.hid = call.hid
    BY <1>1, <1>12, CallType DEF ScanOpen, Call
  <2>2. \A h \in Hid : devHandle[h] # x
    BY <1>1, <1>12, NullIsNothing DEF ScanOpen, UsbOpen, OpenedIsWhole
  <2> QED  BY <1>1, <1>12, <2>1, <2>2 DEF ScanOpen, UsbOpen, hidVars, OpenedIsWhole, Listed,
              TypeOK, UsbTypeOK
<1>13. CASE ScanClaim
  <2>1. call.hid \in Hid /\ call'.hid = call.hid /\ ~IsOpened(call.hid) /\ call.hid \in alive
    BY <1>1, <1>13, CallType DEF ScanClaim, CallInv, Call
  <2>2. /\ call.handle \in Handle /\ handleOf[call.handle] \in Device
        /\ \A h \in Hid : devHandle[h] # call.handle
    BY <1>1, <1>13 DEF ScanClaim, CallInv
  <2>3. interface[call.hid] \in Iface
    BY <1>1, <1>13 DEF ScanClaim, CallInv
  <2> QED  BY <1>1, <1>13, <2>1, <2>2, <2>3, NullIsNothing DEF ScanClaim, OpenedIsWhole, Listed,
              TypeOK
<1>14. CASE ScanClose
  <2>1. call'.hid = call.hid
    BY <1>1, <1>14, CallType DEF ScanClose, Call
  <2>2. \A h \in Hid : devHandle[h] # call.handle
    BY <1>1, <1>14 DEF ScanClose, CallInv
  <2> QED  BY <1>1, <1>14, <2>1, <2>2 DEF ScanClose, UsbClose, hidVars, OpenedIsWhole, Listed,
              TypeOK, UsbTypeOK
<1>15. ASSUME ClaimOnce \/ ClaimOrRetry \/ DetachDriver \/ PrepareHidDescriptor
       PROVE  OpenedIsWhole'
  <2> USE DEF ClaimOnce, ClaimOrRetry, DetachDriver, PrepareHidDescriptor
  <2>1. call'.hid = call.hid
    BY <1>1, <1>15, CallType DEF Call
  <2> QED  BY <1>1, <1>15, <2>1 DEF usbVars, hidVars, OpenedIsWhole, Listed
<1>16. CASE InitParser
  <2>1. call.hid \in Hid /\ call'.hid = call.hid
    BY <1>1, <1>16, CallType DEF InitParser, Call
  <2> QED  BY <1>1, <1>16, <2>1 DEF InitParser, usbVars, OpenedIsWhole, Listed, TypeOK
<1>17. CASE PrepareReportDescriptor
  <2>1. call.hid \in Hid /\ (pc' # "idle" => call'.hid = call.hid)
    BY <1>1, <1>17, CallType DEF PrepareReportDescriptor, Call
  <2>2. ASSUME NEW h \in Hid, Listed(h)'
        PROVE  Listed(h) \/ h = call.hid
    <3>1. CASE openList' = openList
      BY <2>2, <3>1 DEF Listed
    <3>2. CASE openList' = AddOpenDevice(openList, call.hid)
      <4>1. PICK k \in DOMAIN openList' : openList'[k] = h
        BY <2>2 DEF Listed
      <4>2. /\ openList \in Seq(Hid) /\ Len(openList) <= MaxOpen
            /\ \/ openList' = openList
               \/ /\ DOMAIN openList' = 1..(Len(openList) + 1)
                  /\ openList'[Len(openList) + 1] = call.hid
                  /\ \A n \in DOMAIN openList : openList'[n] = openList[n]
        BY <1>1, <2>1, <3>2, AddOpenDeviceProps DEF TypeOK
      <4>3. k \in DOMAIN openList \/ k = Len(openList) + 1
        BY <4>1, <4>2
      <4> QED  BY <4>1, <4>2, <4>3 DEF Listed
    <3> QED  BY <1>17, <3>1, <3>2 DEF PrepareReportDescriptor
  <2> QED  BY <1>1, <1>17, <2>1, <2>2 DEF PrepareReportDescriptor, usbVars, hidVars, CallInv, OpenedIsWhole
<1>18. CASE Step
  BY <1>8, <1>11, <1>12, <1>13, <1>14, <1>15, <1>16, <1>17, <1>18 DEF Step
<1>19. CASE Client
  BY <1>4, <1>5, <1>7, <1>9, <1>10, <1>19 DEF Client
<1> QED  BY <1>2, <1>3, <1>18, <1>19 DEF Next

\* The target of an object after a step.
TargetAfter(h) == <<device'[h], interface'[h]>>

\* The list may shrink to some of its entries, and objects off the list may
\* change: the targets of the entries stay distinct.
LEMMA FewerListed ==
    ASSUME Inv,
           \A k \in DOMAIN openList' : \E n \in DOMAIN openList : openList'[k] = openList[n],
           \A j, k \in DOMAIN openList' :
              j # k => \E m, n \in DOMAIN openList :
                         m # n /\ openList'[j] = openList[m] /\ openList'[k] = openList[n],
           \A k \in DOMAIN openList' :
              TargetAfter(openList'[k]) = Target(openList'[k])
    PROVE  ExclusiveListed'
<1>1. ASSUME NEW j \in DOMAIN openList', NEW k \in DOMAIN openList', j # k
      PROVE  TargetAfter(openList'[j]) # TargetAfter(openList'[k])
  <2>1. PICK m \in DOMAIN openList, n \in DOMAIN openList :
           m # n /\ openList'[j] = openList[m] /\ openList'[k] = openList[n]
    BY <1>1
  <2>2. Target(openList[m]) # Target(openList[n])
    BY <2>1 DEF Inv, OpeningInv, ListInv, ExclusiveListed
  <2> QED  BY <2>1, <2>2
<1> QED  BY <1>1 DEF ExclusiveListed, Target, TargetAfter

\* Every step keeps the discipline of the open list; an entry is added only at
\* the end of an open, for a target the scan has found to be on no entry.
LEMMA ListStep ==
    ASSUME Inv, [Next]_vars PROVE ListInv'
<1> USE DEF Goto, Return, Holding, Scanning
<1>1. TypeOK /\ CallInv /\ ListInv /\ OpenedIsWhole
  BY DEF Inv, OpeningInv
<1>2. CASE UNCHANGED vars
  BY <1>1, <1>2 DEF vars, usbVars, hidVars, ListInv, ExclusiveListed, Listed, Target
<1>3. CASE Environment
  BY <1>1, <1>3 DEF Environment, hidVars, ListInv, ExclusiveListed, Listed, Target
<1>4. CASE HidInit \/ HidCleanup
  BY <1>1, <1>4 DEF HidInit, HidCleanup, hidVars, ListInv, ExclusiveListed, Target
\* an object that is not open is not listed, and may change
<1>5. ASSUME NEW h \in Hid, ~IsOpened(h), UNCHANGED openList,
             \A g \in Hid \ {h} : device'[g] = device[g] /\ interface'[g] = interface[g]
      PROVE  /\ ExclusiveListed'
             /\ \A k \in DOMAIN openList' :
                   openList'[k] # h /\ TargetAfter(openList'[k]) = Target(openList[k])
  <2>1. \A k \in DOMAIN openList : openList[k] \in Hid \ {h}
    BY <1>5, ListedFacts
  <2> QED  BY <1>1, <1>5, <2>1 DEF ListInv, ExclusiveListed, Target, TargetAfter
<1>6. ASSUME NEW h \in Hid, NewHIDInterface(h) \/ DeleteHIDInterface(h)
      PROVE  ListInv'
  <2>1. ~IsOpened(h) /\ pc' = "idle" /\ UNCHANGED openList
    BY <1>1, <1>6 DEF NewHIDInterface, DeleteHIDInterface, OpenedIsWhole
  <2>2. \A g \in Hid \ {h} : device'[g] = device[g] /\ interface'[g] = interface[g]
    BY <1>1, <1>6 DEF NewHIDInterface, DeleteHIDInterface, ResetHid, TypeOK
  <2> QED  BY <1>5, <2>1, <2>2 DEF ListInv
<1>7. ASSUME NEW h \in Hid, ForgetHid(h), pc' = "idle"
      PROVE  ListInv'
  <2>1. \A k \in DOMAIN openList' : openList'[k] \in Hid \ {h}
    BY <1>7, ForgetFacts, ListedFacts
  <2>2. \A g \in Hid \ {h} : device'[g] = device[g] /\ interface'[g] = interface[g]
    BY <1>1, <1>7 DEF ForgetHid, ResetHid, TypeOK
  <2>3. \A k \in DOMAIN openList' : TargetAfter(openList'[k]) = Target(openList'[k])
    BY <2>1, <2>2 DEF Target, TargetAfter
  <2>4. ExclusiveListed'
    BY <1>7, <2>3, ForgetFacts, FewerListed
  <2> QED  BY <1>7, <2>4 DEF ListInv
<1>8. ASSUME NEW h \in Hid, HidClose(h)
      PROVE  ListInv'
  BY <1>7, <1>8 DEF HidClose
<1>9. CASE GiveUp
  BY <1>1, <1>7, <1>9, CallType DEF GiveUp
<1>10. ASSUME NEW h \in Hid, NEW m, OpenRejected(h, m)
       PROVE  ListInv'
  BY <1>1, <1>10 DEF OpenRejected, hidVars, ListInv, ExclusiveListed, Target
<1>11. ASSUME NEW h \in Hid, NEW i \in Iface, NEW m, NEW force, NEW n, OpenBegin(h, i, m, force, n)
       PROVE  ListInv'
  <2>1. ~IsOpened(h) /\ UNCHANGED openList /\ pc' = "scan" /\ call'.hid = h
    BY <1>11 DEF OpenBegin
  <2>2. \A g \in Hid \ {h} : device'[g] = device[g] /\ interface'[g] = interface[g]
    BY <1>1, <1>11 DEF OpenBegin, TypeOK
  <2> QED  BY <1>5, <2>1, <2>2 DEF ListInv, Listed
<1>12. ASSUME NEW code, ScanFails(code)
       PROVE  ListInv'
  <2>1. call.hid \in Hid /\ ~IsOpened(call.hid) /\ UNCHANGED openList /\ pc' = "idle"
    BY <1>1, <1>12, CallType DEF ScanFails, CallInv
  <2>2. \A g \in Hid \ {call.hid} : device'[g] = device[g] /\ interface'[g] = interface[g]
    BY <1>1, <1>12 DEF ScanFails, TypeOK
  <2> QED  BY <1>5, <2>1, <2>2 DEF ListInv
<1>13. CASE ScanClaim
  <2>1. /\ call.hid \in Hid /\ ~IsOpened(call.hid) /\ UNCHANGED openList /\ call'.hid = call.hid
        /\ UNCHANGED interface
    BY <1>1, <1>13, CallType DEF ScanClaim, CallInv, Call
  <2>2. \A g \in Hid \ {call.hid} : device'[g] = device[g] /\ interface'[g] = interface[g]
    BY <1>1, <1>13 DEF ScanClaim, TypeOK
  <2>3. /\ ExclusiveListed'
        /\ \A k \in DOMAIN openList' :
              openList'[k] # call.hid /\ TargetAfter(openList'[k]) = Target(openList[k])
    BY <1>5, <2>1, <2>2
  <2>4. pc' \in Holding => /\ TargetAfter(call.hid) = <<handleOf[call.handle], interface[call.hid]>>
                           /\ ~PreviouslyMatched(handleOf[call.handle], interface[call.hid])
    BY <1>1, <1>13, <2>1 DEF ScanClaim, TargetAfter, TypeOK
  <2>5. pc' \in Holding => \A k \in DOMAIN openList' : TargetAfter(openList'[k]) # TargetAfter(call.hid)
    BY <2>1, <2>3, <2>4 DEF PreviouslyMatched, Target
  <2> QED  BY <2>1, <2>3, <2>5 DEF ListInv, Listed, Target, TargetAfter
<1>14. ASSUME \/ ScanClose \/ ClaimOnce \/ ClaimOrRetry \/ DetachDriver \/ InitParser
              \/ PrepareHidDescriptor \/ \E x \in Handle : ScanOpen(x)
       PROVE  ListInv'
  <2> USE DEF ScanClose, ClaimOnce, ClaimOrRetry, DetachDriver, InitParser,
              PrepareHidDescriptor, ScanOpen
  <2>1. call'.hid = call.hid
    BY <1>1, <1>14, CallType DEF Call
  <2>2. UNCHANGED <<device, interface, openList>> /\ pc # "idle" /\ (pc' \in Holding => pc \in Holding)
    BY <1>14 DEF hidVars
  <2> QED  BY <1>1, <2>1, <2>2 DEF ListInv, ExclusiveListed, Listed, Target
<1>15. CASE PrepareReportDescriptor
  <2>1. call.hid \in Hid /\ (pc' # "idle" => call'.hid = call.hid)
    BY <1>1, <1>15, CallType DEF PrepareReportDescriptor, Call
  <2>2. UNCHANGED <<device, interface>> /\ pc \in Holding
    BY <1>15 DEF PrepareReportDescriptor, hidVars
  <2>3. CASE openList' = openList /\ pc' # "idle"
    BY <1>1, <2>1, <2>2, <2>3 DEF ListInv, ExclusiveListed, Listed, Target
  <2>4. CASE openList' = AddOpenDevice(openList, call.hid) /\ pc' = "idle"
    <3>1. /\ openList \in Seq(Hid) /\ Len(openList) <= MaxOpen
          /\ \/ openList' = openList
             \/ /\ DOMAIN openList' = 1..(Len(openList) + 1)
                /\ openList'[Len(openList) + 1] = call.hid
                /\ \A n \in DOMAIN openList : openList'[n] = openList[n]
      BY <1>1, <2>1, <2>4, AddOpenDeviceProps DEF TypeOK
    <3>2. \A k \in DOMAIN openList' : k \in DOMAIN openList \/ k = Len(openList) + 1
      BY <3>1
    <3>3. \A k \in DOMAIN openList : Target(openList[k]) # Target(call.hid)
      BY <1>1, <2>2 DEF ListInv
    <3>4. ExclusiveListed'
      BY <1>1, <2>2, <3>1, <3>2, <3>3 DEF ListInv, ExclusiveListed, Target
    <3> QED  BY <2>4, <3>4 DEF ListInv
  <2> QED  BY <1>15, <2>3, <2>4 DEF PrepareReportDescriptor
<1>16. CASE Step
  BY <1>9, <1>12, <1>13, <1>14, <1>15, <1>16 DEF Step
<1>17. CASE Client
  BY <1>4, <1>6, <1>8, <1>10, <1>11, <1>17 DEF Client
<1> QED  BY <1>2, <1>3, <1>16, <1>17 DEF Next

-----------------------------------------------------------------------------
(* The theorems.                                                           *)

\* The inductive invariant holds: the type of the state, what a call in
\* progress may rely on, and the discipline of the open list.
THEOREM OpeningInvariant == Spec => [](TypeOK /\ OpeningInv)
<1>1. Init => Inv
  BY InitInv
<1>2. Inv /\ [Next]_vars => Inv'
  BY TypeStep, CallStep, ListStep, WholeStep DEF Inv, OpeningInv
<1>3. Inv => TypeOK /\ OpeningInv
  BY DEF Inv
<1> QED  BY <1>1, <1>2, <1>3, PTL DEF Spec

\* Every variable of the model keeps its type; the open list never exceeds
\* MAX_OPEN_DEVICES.
THEOREM TypeCorrect == Spec => []TypeOK
BY OpeningInvariant, PTL

\* Two entries of the open list never stand for one interface of one device
\* (hid_previously_matched keeps the scan away from it).
THEOREM ListIsExclusive == Spec => []ExclusiveListed
<1>1. OpeningInv => ExclusiveListed
  BY DEF OpeningInv, ListInv
<1> QED  BY <1>1, OpeningInvariant, PTL

\* hid_open, hid_force_open and hid_close leave an object open altogether or
\* not at all, with a handle no other object has.
THEOREM OpenedObjectsAreWhole == Spec => []OpenedIsWhole
<1>1. OpeningInv => OpenedIsWhole
  BY DEF OpeningInv
<1> QED  BY <1>1, OpeningInvariant, PTL

\* A step of an open that another object is going through does not take the
\* claim of a listed one.
LEMMA ClaimKeptStep ==
    ASSUME Inv, [Next]_vars, pc' # pc,
           NEW h \in Hid, Listed(h), holder[Target(h)] = devHandle[h]
    PROVE  holder'[Target(h)] = devHandle[h]
<1> USE DEF Goto, Return, Holding, Scanning, IsOpened
<1>1. TypeOK /\ CallInv /\ ListInv /\ OpenedIsWhole
  BY DEF Inv, OpeningInv
<1>2. /\ devHandle[h] \in Handle
      /\ handleOf[devHandle[h]] = device[h]
      /\ Target(h) \in Device \X Iface
      /\ \A g \in Hid \ {h} : devHandle[g] # devHandle[h]
  BY <1>1 DEF OpenedIsWhole, TypeOK, Target
<1>3. holder \in [Device \X Iface -> Handle \cup {Free, Foreign}]
  BY <1>1 DEF TypeOK, UsbTypeOK
\* a claim takes only what is free or held by the claiming handle already
<1>4. ASSUME NEW x \in Handle, NEW i, holder' = AfterClaim(x, i)
      PROVE  holder'[Target(h)] = devHandle[h]
  BY <1>2, <1>3, <1>4, HoldersDiffer DEF AfterClaim, Claimable
<1>5. ASSUME NEW x \in Handle, x # devHandle[h], UsbClose(x)
      PROVE  holder'[Target(h)] = devHandle[h]
  BY <1>2, <1>3, <1>5 DEF UsbClose
<1>6. pc \in Holding => /\ call.hid \in Hid \ {h}
                        /\ devHandle[call.hid] \in Handle
                        /\ Target(call.hid) # Target(h)
                        /\ handleOf[devHandle[call.hid]] = device[call.hid]
  BY <1>1, CallType DEF ListInv, CallInv, OpenedIsWhole, Listed, TypeOK
<1>7. CASE ScanClaim
  BY <1>1, <1>4, <1>7 DEF ScanClaim, CallInv
<1>8. CASE ScanClose
  BY <1>1, <1>5, <1>8 DEF ScanClose, CallInv
<1>9. CASE ClaimOnce \/ ClaimOrRetry
  BY <1>4, <1>6, <1>9 DEF ClaimOnce, ClaimOrRetry
<1>10. CASE DetachDriver
  <2>1. holder' = holder \/ holder' = [holder EXCEPT ![Target(call.hid)] = Free]
    BY <1>6, <1>10 DEF DetachDriver, AfterDetach, Target
  <2> QED  BY <1>2, <1>3, <1>6, <1>10, <2>1 DEF DetachDriver
<1>11. CASE GiveUp
  BY <1>2, <1>5, <1>6, <1>11 DEF GiveUp
<1>12. CASE UNCHANGED holder
  BY <1>12
<1>13. CASE Step
  <2>1. (\E code : ScanFails(code)) \/ (\E x \in Handle : ScanOpen(x)) \/ InitParser
           \/ PrepareHidDescriptor \/ PrepareReportDescriptor => UNCHANGED holder
    BY DEF ScanFails, ScanOpen, InitParser, PrepareHidDescriptor, PrepareReportDescriptor, usbVars
  <2> QED  BY <1>7, <1>8, <1>9, <1>10, <1>11, <1>12, <1>13, <2>1 DEF Step
<1>14. CASE Client
  <2>1. HidInit \/ HidCleanup => UNCHANGED pc
    BY DEF HidInit, HidCleanup
  <2>2. ASSUME NEW g \in Hid, NEW m,
               NewHIDInterface(g) \/ DeleteHIDInterface(g) \/ HidClose(g) \/ OpenRejected(g, m)
        PROVE  UNCHANGED pc
    BY <2>2 DEF NewHIDInterface, DeleteHIDInterface, HidClose, OpenRejected
  <2>3. ASSUME NEW g \in Hid, NEW i \in Iface, NEW m, NEW force, NEW n, OpenBegin(g, i, m, force, n)
        PROVE  UNCHANGED holder
    BY <2>3 DEF OpenBegin, usbVars
  <2> QED  BY <1>12, <1>14, <2>1, <2>2, <2>3 DEF Client
<1>15. CASE Environment \/ UNCHANGED vars
  BY <1>15 DEF Environment, vars
<1> QED  BY <1>13, <1>14, <1>15 DEF Next

\* Opening one interface never costs another listed one its claim, whoever
\* else evicts or unplugs, and however full the list.
THEOREM ClaimsAreKept == Spec => OwnClaimKept
<1>1. Inv /\ [Next]_vars =>
        [pc' # pc =>
           \A h \in Hid :
              Listed(h) /\ holder[Target(h)] = devHandle[h]
                  => holder'[Target(h)] = devHandle[h]]_vars
  BY ClaimKeptStep
<1>2. Spec => []Inv
  BY OpeningInvariant DEF Inv
<1> QED  BY <1>1, <1>2, PTL DEF Spec, OwnClaimKept

-----------------------------------------------------------------------------
(* Handles and claims.                                                    *)

\* The inductive invariant, as a step needs it.
LEMMA InvStep ==
    ASSUME Inv, [Next]_vars PROVE Inv'
BY TypeStep, CallStep, ListStep, WholeStep DEF Inv, OpeningInv

LEMMA InvAlways == Spec => []Inv
BY OpeningInvariant DEF Inv

\* The steps of an open once it holds a device, but for its last one.
Preparing ==
    \/ ClaimOnce \/ ClaimOrRetry \/ DetachDriver \/ InitParser \/ PrepareHidDescriptor
    \/ PrepareReportDescriptor /\ pc' # "idle"

\* They leave the devices and the objects alone, and the scan's part of call.
LEMMA PreparingKeeps ==
    ASSUME Inv, Preparing
    PROVE  /\ UNCHANGED <<plug, busDevices, handleOf, initialised, alive, devHandle, device,
                          interface, openList>>
           /\ pc \in Holding /\ pc' \in Holding
           /\ call'.hid = call.hid /\ call'.handle = call.handle
           /\ call'.todo = call.todo /\ call'.matcher = call.matcher
<1> USE DEF Goto, Holding
<1>1. pc \in Holding /\ pc' \in Holding
  BY DEF Preparing, ClaimOnce, ClaimOrRetry, DetachDriver, InitParser, PrepareHidDescriptor,
         PrepareReportDescriptor, Return
<1>2. UNCHANGED <<plug, busDevices, handleOf, initialised, alive, devHandle, device,
                  interface, openList>>
  BY DEF Preparing, ClaimOnce, ClaimOrRetry, DetachDriver, InitParser, PrepareHidDescriptor,
         PrepareReportDescriptor, Return, usbVars, hidVars
<1>3. call \in Call
  BY <1>1, CallType DEF Inv
<1>4. /\ call'.hid = call.hid /\ call'.handle = call.handle
      /\ call'.todo = call.todo /\ call'.matcher = call.matcher
  BY <1>3 DEF Preparing, ClaimOnce, ClaimOrRetry, DetachDriver, InitParser,
     PrepareHidDescriptor, PrepareReportDescriptor, Return, Call
<1> QED  BY <1>1, <1>2, <1>4

\* The steps after which no call is in progress
LEMMA IdleAfter ==
    ASSUME Next, pc' # "idle"
    PROVE  \/ \E h \in Hid, i \in Iface, m \in Matcher, force \in BOOLEAN, n \in Nat :
                 OpenBegin(h, i, m, force, n)
           \/ \E x \in Handle : ScanOpen(x)
           \/ ScanClaim
           \/ ScanClose
           \/ Preparing
           \/ Environment
<1>1. CASE Step
  <2>1. ~(\E code : ScanFails(code)) /\ ~GiveUp
    BY DEF ScanFails, GiveUp, Return
  <2> QED  BY <1>1, <2>1 DEF Step, Preparing
<1>2. CASE Client
  <2>1. ~HidInit /\ ~HidCleanup
    BY DEF HidInit, HidCleanup
  <2>2. ASSUME NEW h \in Hid, NEW m
        PROVE  /\ ~NewHIDInterface(h) /\ ~DeleteHIDInterface(h)
               /\ ~HidClose(h) /\ ~OpenRejected(h, m)
    BY DEF NewHIDInterface, DeleteHIDInterface, HidClose, OpenRejected
  <2>3. 0 \in Nat /\ 0..MaxRetries \subseteq Nat
    BY BoundsAreNumbers
  <2> QED  BY <1>2, <2>1, <2>2, <2>3 DEF Client
<1> QED  BY <1>1, <1>2 DEF Next

-----------------------------------------------------------------------------
(* The scan.                                                               *)

\* Another object has the interface asked for on device d.
Passed(d) ==
    \E h \in Hid \ {call.hid} : IsOpened(h) /\ Target(h) = <<d, interface[call.hid]>>

\* What a scan has done so far: each device of the lists that the matcher
\* describes is still to come, is being looked at, or was passed over.
ScanInv ==
    /\ pc # "idle" => initialised /\ ToSet(call.todo) \subseteq ToSet(busDevices)
    /\ pc \in {"scan"} \cup Holding => call.handle = NULL
    /\ pc \in {"scanClaim", "scanClose"} => handleOf[call.handle] \in ToSet(busDevices)
    /\ pc = "scanClose" => ~CompareUsbDevice(handleOf[call.handle], call.matcher)
    /\ pc \in Scanning =>
          \A d \in ToSet(busDevices) : CompareUsbDevice(d, call.matcher) =>
             \/ d \in ToSet(call.todo)
             \/ pc = "scanClaim" /\ d = handleOf[call.handle]
             \/ Passed(d)

\* The devices still to come, once the first of them has been taken.
LEMMA HeadAndTail ==
    ASSUME NEW s \in Seq(Device), s # <<>>
    PROVE  ToSet(s) = {Head(s)} \cup ToSet(Tail(s))
<1>1. /\ Len(s) \in Nat \ {0} /\ DOMAIN s = 1..Len(s) /\ Head(s) = s[1]
      /\ DOMAIN Tail(s) = 1..(Len(s) - 1)
      /\ \A k \in 1..(Len(s) - 1) : Tail(s)[k] = s[k + 1]
  OBVIOUS
<1>2. ASSUME NEW k \in DOMAIN s
      PROVE  s[k] \in {Head(s)} \cup {Tail(s)[j] : j \in DOMAIN Tail(s)}
  <2>1. k = 1 \/ (k - 1 \in DOMAIN Tail(s) /\ s[k] = Tail(s)[k - 1])
    BY <1>1
  <2> QED  BY <1>1, <2>1
<1>3. ASSUME NEW k \in DOMAIN Tail(s)
      PROVE  Tail(s)[k] \in {s[j] : j \in DOMAIN s}
  <2>1. k + 1 \in DOMAIN s /\ Tail(s)[k] = s[k + 1]
    BY <1>1
  <2> QED  BY <2>1
<1>4. Head(s) \in {s[j] : j \in DOMAIN s}
  BY <1>1
<1> QED  BY <1>2, <1>3, <1>4, Zenon DEF ToSet

LEMMA ScanStep ==
    ASSUME Inv, ScanInv, [Next]_vars PROVE ScanInv'
<1> USE DEF Goto, Holding, Scanning, IsOpened
<1>1. TypeOK /\ CallInv /\ ListInv /\ OpenedIsWhole
  BY DEF Inv, OpeningInv
<1>2. CASE pc' = "idle"
  BY <1>2 DEF ScanInv
<1>3. CASE Environment \/ UNCHANGED vars
  <2>1. UNCHANGED <<busDevices, handleOf, initialised, devHandle, device, interface, pc, call>>
    BY <1>3 DEF vars, usbVars, hidVars, Environment, UsbNext, Plug, Unplug, ForeignClaim,
       ForeignRelease, ForeignEvict
  <2> QED  BY <2>1 DEF ScanInv, Passed, Target, CompareUsbDevice
<1>4. ASSUME NEW h \in Hid, NEW i \in Iface, NEW m, NEW force, NEW n, OpenBegin(h, i, m, force, n)
      PROVE  ScanInv'
  <2>1. /\ pc' = "scan" /\ initialised' /\ call'.todo = busDevices'
        /\ call'.handle = NULL
    BY <1>4 DEF OpenBegin, usbVars
  <2> QED  BY <2>1 DEF ScanInv
<1>5. ASSUME NEW x \in Handle, ScanOpen(x)
      PROVE  ScanInv'
  <2>1. /\ call \in Call /\ call.todo \in Seq(Device) /\ call.todo # <<>>
        /\ call' = [call EXCEPT !.handle = x, !.todo = Tail(@)]
        /\ pc = "scan" /\ pc' = "scanClaim"
        /\ UNCHANGED <<busDevices, initialised, devHandle, device, interface>>
    BY <1>1, <1>5, CallType DEF ScanOpen, hidVars
  <2>2. /\ call'.hid = call.hid /\ call'.handle = x /\ call'.todo = Tail(call.todo)
        /\ call'.matcher = call.matcher
    BY <2>1 DEF Call
  <2>3. handleOf'[x] = Head(call.todo)
    BY <1>1, <1>5 DEF ScanOpen, UsbOpen, TypeOK, UsbTypeOK
  <2>4. ToSet(call.todo) = {handleOf'[x]} \cup ToSet(call'.todo)
    BY <2>1, <2>2, <2>3, HeadAndTail
  <2> HIDE DEF ToSet
  <2>5. \A d : Passed(d)' <=> Passed(d)
    BY <2>1, <2>2 DEF Passed, Target
  <2>6. \A d : CompareUsbDevice(d, call.matcher)' <=> CompareUsbDevice(d, call.matcher)
    BY <2>2 DEF CompareUsbDevice
  <2>7. ToSet(busDevices') = ToSet(busDevices)
    BY <2>1
  <2> QED  BY <2>1, <2>2, <2>4, <2>5, <2>6, <2>7 DEF ScanInv
<1>6. CASE ScanClaim
  <2> DEFINE d == handleOf[call.handle]
  <2>1. /\ call \in Call /\ call.hid \in Hid /\ pc = "scanClaim"
        /\ UNCHANGED <<busDevices, handleOf, initialised, interface>>
    BY <1>1, <1>6, CallType DEF ScanClaim
  <2>2. CASE /\ PreviouslyMatched(d, interface[call.hid])
             /\ call' = [call EXCEPT !.handle = NULL, !.todo = Continue]
             /\ pc' = "scan"
             /\ UNCHANGED <<devHandle, device>>
    <3>1. /\ call'.hid = call.hid /\ call'.handle = NULL /\ call'.todo = call.todo
          /\ call'.matcher = call.matcher
      BY <2>1, <2>2 DEF Call, Continue
    <3>2. PICK k \in DOMAIN openList : Target(openList[k]) = <<d, interface[call.hid]>>
      BY <2>2 DEF PreviouslyMatched, Target
    <3>3. openList[k] \in Hid \ {call.hid} /\ IsOpened(openList[k])
      BY <1>1, <2>1, ListedFacts DEF ListInv, Listed
    <3>4. Passed(d)
      BY <3>2, <3>3 DEF Passed
    <3>5. \A e : Passed(e)' <=> Passed(e)
      BY <2>1, <2>2, <3>1 DEF Passed, Target
    <3>6. \A e : CompareUsbDevice(e, call.matcher)' <=> CompareUsbDevice(e, call.matcher)
      BY <3>1 DEF CompareUsbDevice
    <3> HIDE DEF d, ToSet
    <3> QED  BY <2>1, <2>2, <3>1, <3>4, <3>5, <3>6 DEF ScanInv, d
  <2>3. CASE pc' = "claim" /\ call' = [call EXCEPT !.handle = NULL]
    <3>1. call'.handle = NULL /\ call'.todo = call.todo
      BY <2>1, <2>3 DEF Call
    <3> QED  BY <2>1, <2>3, <3>1 DEF ScanInv
  <2>4. CASE /\ ~CompareUsbDevice(d, call.matcher)
             /\ pc' = "scanClose"
             /\ UNCHANGED <<devHandle, device, call>>
    <3>1. \A e : Passed(e)' <=> Passed(e)
      BY <2>1, <2>4 DEF Passed, Target
    <3>2. \A e : CompareUsbDevice(e, call.matcher)' <=> CompareUsbDevice(e, call.matcher)
      BY <2>4 DEF CompareUsbDevice
    <3>3. ~CompareUsbDevice(handleOf[call.handle], call.matcher)'
      BY <2>1, <2>4 DEF CompareUsbDevice
    <3> QED  BY <2>1, <2>4, <3>1, <3>2, <3>3 DEF ScanInv
  <2> QED  BY <1>6, <2>2, <2>3, <2>4 DEF ScanClaim
<1>7. CASE ScanClose
  <2>1. /\ call \in Call /\ pc = "scanClose" /\ pc' = "scan"
        /\ call' = [call EXCEPT !.handle = NULL]
        /\ UNCHANGED <<busDevices, initialised, devHandle, device, interface>>
    BY <1>1, <1>7, CallType DEF ScanClose, hidVars
  <2>2. /\ call'.hid = call.hid /\ call'.handle = NULL /\ call'.todo = call.todo
        /\ call'.matcher = call.matcher
    BY <2>1 DEF Call
  <2>3. \A e : Passed(e)' <=> Passed(e)
    BY <2>1, <2>2 DEF Passed, Target
  <2>4. \A e : CompareUsbDevice(e, call.matcher)' <=> CompareUsbDevice(e, call.matcher)
    BY <2>2 DEF CompareUsbDevice
  <2> QED  BY <2>1, <2>2, <2>3, <2>4 DEF ScanInv
<1>8. CASE Preparing
  BY <1>8, PreparingKeeps DEF ScanInv
<1> QED  BY <1>2, <1>3, <1>4, <1>5, <1>6, <1>7, <1>8, IdleAfter

LEMMA ScanInvariant == Spec => [](Inv /\ ScanInv)
<1>1. Init => ScanInv
  BY DEF Init, ScanInv, Holding, Scanning
<1> QED  BY <1>1, ScanStep, InvAlways, PTL DEF Spec

\* DEVICE_NOT_FOUND is true: whatever other devices and objects there are, each
\* device of the lists that the matcher describes is open already.
THEOREM NotFound == Spec => NotFoundIsTrue
<1>1. ASSUME Inv, ScanInv
      PROVE  pc = "scan" /\ call.todo = <<>> /\ pc' = "idle" =>
                \A d \in ToSet(busDevices) :
                   CompareUsbDevice(d, call.matcher) =>
                       \E h \in Hid \ {call.hid} :
                          IsOpened(h) /\ Target(h) = <<d, interface[call.hid]>>
  <2>1. ToSet(<<>>) = {}
    BY DEF ToSet
  <2> QED  BY <1>1, <2>1 DEF ScanInv, Scanning, Passed
<1> QED  BY <1>1, ScanInvariant, PTL DEF NotFoundIsTrue

-----------------------------------------------------------------------------
(* The handles.                                                            *)

\* A step of a call ends it only in one of three ways.
LEMMA StepsOfACall ==
    ASSUME Step
    PROVE  \/ \E code : ScanFails(code)
           \/ \E x \in Handle : ScanOpen(x)
           \/ ScanClaim
           \/ ScanClose
           \/ Preparing
           \/ PrepareReportDescriptor /\ pc' = "idle"
           \/ GiveUp
BY DEF Step, Preparing

\* A step of a call that does not end it goes on with its object.
LEMMA SameObject ==
    ASSUME Inv, [Next]_vars, pc # "idle", pc' # "idle" PROVE call'.hid = call.hid
<1>1. call \in Call
  BY CallType DEF Inv
<1>2. CASE Environment \/ UNCHANGED vars
  BY <1>2 DEF Environment, vars
<1>3. CASE ScanClaim \/ ScanClose \/ \E x \in Handle : ScanOpen(x)
  BY <1>1, <1>3 DEF ScanClaim, ScanClose, ScanOpen, Call
<1>4. CASE Preparing
  BY <1>4, PreparingKeeps
<1> QED  BY <1>2, <1>3, <1>4, IdleAfter DEF OpenBegin

\* GiveUp returns what made an open fail behind its scan.
CodeInv == pc = "giveUp" => call.code \notin {"SUCCESS", "DEVICE_NOT_FOUND"}

LEMMA CodeStep ==
    ASSUME Inv, CodeInv, [Next]_vars PROVE CodeInv'
<1> USE DEF Goto
<1>1. CASE UNCHANGED vars \/ Environment
  BY <1>1 DEF vars, Environment, CodeInv
<1>2. CASE pc' = "giveUp" /\ Next /\ ~Environment
  <2>1. Preparing /\ pc # "idle"
    BY <1>2, IdleAfter, PreparingKeeps DEF OpenBegin, ScanOpen, ScanClaim, ScanClose, Holding
  <2>2. call \in Call
    BY <2>1, CallType DEF Inv
  <2> QED  BY <1>2, <2>1, <2>2 DEF Preparing, ClaimOnce, ClaimOrRetry, DetachDriver, InitParser,
           PrepareHidDescriptor, PrepareReportDescriptor, Return, Call, CodeInv
<1> QED  BY <1>1, <1>2 DEF CodeInv

\* An open returns with its object open just where it returns SUCCESS.
LEMMA ReturnOpens ==
    ASSUME Inv, CodeInv, Step, pc' = "idle", NEW h, h = call.hid
    PROVE  IsOpened(h)' <=> ret' = "SUCCESS"
<1> USE DEF Return, Goto, IsOpened
<1>1. devHandle \in [Hid -> Handle \cup {NULL}] /\ (pc # "idle" => call.hid \in Hid)
  BY CallType DEF Inv, TypeOK
<1>2. CASE \E code : ScanFails(code)
  BY <1>1, <1>2 DEF ScanFails
<1>3. CASE GiveUp
  <2>1. ret' # "SUCCESS"
    BY <1>3 DEF GiveUp, CodeInv
  <2> QED  BY <1>1, <1>3, <2>1 DEF GiveUp, ForgetHid, ResetHid
<1>4. CASE PrepareReportDescriptor
  BY <1>4 DEF PrepareReportDescriptor, hidVars, Inv, OpeningInv, CallInv, Holding
<1>5. ~(\E x \in Handle : ScanOpen(x)) /\ ~ScanClaim /\ ~ScanClose /\ ~Preparing
  BY PreparingKeeps DEF ScanOpen, ScanClaim, ScanClose, Holding
<1> QED  BY <1>2, <1>3, <1>4, <1>5, StepsOfACall

\* A handle that is lost in a step belongs to a device that the scan has found
\* another object to have.
LEMMA LostStep ==
    ASSUME Inv, ScanInv, [Next]_vars, NEW x \in Handle, ~Lost(x), Lost(x)'
    PROVE  /\ pc = "scanClaim"
           /\ \E h \in Hid : IsOpened(h) /\ device[h] = handleOf[x]
<1> USE DEF Goto, Holding, Scanning, IsOpened
<1>1. TypeOK /\ CallInv /\ ListInv /\ OpenedIsWhole
  BY DEF Inv, OpeningInv
<1>2. /\ handleOf'[x] # NULL
      /\ pc' # "idle" => call'.handle # x
      /\ \A h \in Hid : devHandle'[h] # x
  BY DEF Lost
<1>3. \/ handleOf[x] = NULL
      \/ pc # "idle" /\ call.handle = x
      \/ \E h \in Hid : devHandle[h] = x
  BY DEF Lost
<1>4. /\ devHandle \in [Hid -> Handle \cup {NULL}] /\ handleOf \in [Handle -> Device \cup {NULL}]
      /\ x # NULL
  BY <1>1, NullIsNothing DEF TypeOK, UsbTypeOK
\* x is neither opened in the step nor known after it
<1>5. ASSUME handleOf'[x] = handleOf[x],
             \A h \in Hid : devHandle[h] = x => devHandle'[h] = x,
             pc # "idle" /\ call.handle = x => pc' # "idle" /\ call'.handle = x
      PROVE  FALSE
  BY <1>2, <1>3, <1>5
<1>6. CASE UNCHANGED vars \/ Environment
  <2>1. UNCHANGED <<handleOf, devHandle, pc, call>>
    BY <1>6 DEF vars, usbVars, hidVars, Environment, UsbNext, Plug, Unplug, ForeignClaim,
       ForeignRelease, ForeignEvict
  <2> QED  BY <1>5, <2>1
<1>7. CASE HidInit \/ HidCleanup
  BY <1>5, <1>7 DEF HidInit, HidCleanup, usbVars, hidVars
<1>8. ASSUME NEW h \in Hid, NEW m,
             NewHIDInterface(h) \/ DeleteHIDInterface(h) \/ OpenRejected(h, m)
      PROVE  FALSE
  <2>1. CASE NewHIDInterface(h)
    <3>1. devHandle[h] = NULL
      BY <1>1, <2>1 DEF NewHIDInterface, OpenedIsWhole
    <3> QED  BY <1>4, <1>5, <2>1, <3>1 DEF NewHIDInterface, ResetHid, usbVars
  <2>2. CASE DeleteHIDInterface(h) \/ OpenRejected(h, m)
    BY <1>5, <2>2 DEF DeleteHIDInterface, OpenRejected, usbVars, hidVars
  <2> QED  BY <1>8, <2>1, <2>2
\* an object that is closed has its handle closed
<1>9. ASSUME NEW h \in Hid, ForgetHid(h), pc = "idle" \/ call.handle = NULL,
             \/ IsOpened(h) /\ UsbClose(devHandle[h])
             \/ ~IsOpened(h) /\ UNCHANGED handleOf
      PROVE  FALSE
  <2>1. devHandle' = [devHandle EXCEPT ![h] = NULL]
    BY <1>9 DEF ForgetHid, ResetHid
  <2>2. CASE devHandle[h] = x
    BY <1>2, <1>4, <1>9, <2>2 DEF UsbClose
  <2>3. CASE devHandle[h] # x
    <3>1. handleOf'[x] = handleOf[x]
      BY <1>4, <1>9, <2>3 DEF UsbClose
    <3> QED  BY <1>4, <1>5, <1>9, <2>1, <2>3, <3>1
  <2> QED  BY <2>2, <2>3
<1>10. ASSUME NEW h \in Hid, HidClose(h) PROVE FALSE
  BY <1>9, <1>10 DEF HidClose
<1>11. CASE GiveUp
  <2>1. call.hid \in Hid /\ IsOpened(call.hid) /\ call.handle = NULL
    BY <1>1, <1>11, CallType DEF GiveUp, CallInv, ScanInv
  <2> QED  BY <1>9, <1>11, <2>1 DEF GiveUp
<1>12. ASSUME NEW h, NEW i, NEW m, NEW force, NEW n, OpenBegin(h, i, m, force, n)
       PROVE  FALSE
  BY <1>5, <1>12 DEF OpenBegin, usbVars
<1>13. ASSUME NEW code, ScanFails(code) PROVE FALSE
  <2>1. call.hid \in Hid /\ devHandle[call.hid] = NULL /\ call.handle = NULL
    BY <1>1, <1>13, CallType DEF ScanFails, CallInv, ScanInv
  <2> QED  BY <1>4, <1>5, <1>13, <2>1 DEF ScanFails, usbVars
<1>14. ASSUME NEW y \in Handle, ScanOpen(y) PROVE FALSE
  <2>1. /\ call'.handle = y /\ pc = "scan" /\ pc' = "scanClaim" /\ call.handle = NULL
        /\ devHandle' = devHandle
    BY <1>1, <1>14, CallType DEF ScanOpen, Call, hidVars, ScanInv
  <2>2. x # y => handleOf'[x] = handleOf[x]
    BY <1>4, <1>14 DEF ScanOpen, UsbOpen
  <2> QED  BY <1>2, <1>4, <1>5, <2>1, <2>2
<1>15. CASE ScanClaim
  <2> DEFINE d == handleOf[call.handle]
  <2>1. /\ call.hid \in Hid /\ devHandle[call.hid] = NULL /\ pc = "scanClaim"
        /\ UNCHANGED handleOf /\ call \in Call
    BY <1>1, <1>15, CallType DEF ScanClaim, CallInv
  <2>2. CASE PreviouslyMatched(d, interface[call.hid])
    <3>1. PICK k \in DOMAIN openList : device[openList[k]] = d
      BY <2>2 DEF PreviouslyMatched
    <3>2. openList[k] \in Hid /\ IsOpened(openList[k])
      BY ListedFacts
    <3>3. UNCHANGED devHandle
      BY <1>15, <2>2 DEF ScanClaim
    <3>4. call.handle = x
      BY <1>2, <1>3, <2>1, <3>3
    <3> QED  BY <2>1, <3>1, <3>2, <3>4
  <2>3. CASE ~PreviouslyMatched(d, interface[call.hid]) /\ pc' = "claim"
    <3>1. devHandle' = [devHandle EXCEPT ![call.hid] = call.handle]
      BY <1>15, <2>3 DEF ScanClaim
    <3>2. call.handle # x
      BY <1>2, <1>4, <2>1, <3>1
    <3> QED  BY <1>2, <1>3, <1>4, <2>1, <3>1, <3>2
  <2>4. CASE pc' = "scanClose" /\ UNCHANGED <<devHandle, call>>
    BY <1>5, <2>1, <2>4
  <2> QED  BY <1>15, <2>2, <2>3, <2>4 DEF ScanClaim
<1>16. CASE ScanClose
  <2>1. /\ call.handle \in Handle /\ UNCHANGED devHandle
        /\ handleOf' = [handleOf EXCEPT ![call.handle] = NULL]
    BY <1>1, <1>16 DEF ScanClose, UsbClose, hidVars, CallInv
  <2>2. call.handle # x
    BY <1>2, <1>4, <2>1
  <2> QED  BY <1>2, <1>3, <1>4, <2>1, <2>2
<1>17. CASE Preparing
  BY <1>5, <1>17, PreparingKeeps
<1>18. CASE PrepareReportDescriptor /\ pc' = "idle"
  <2>1. call.handle = NULL
    BY <1>18 DEF PrepareReportDescriptor, ScanInv
  <2> QED  BY <1>4, <1>5, <1>18, <2>1 DEF PrepareReportDescriptor, usbVars, hidVars
<1>19. CASE Step
  BY <1>11, <1>13, <1>14, <1>15, <1>16, <1>17, <1>18, <1>19, StepsOfACall
<1>20. CASE Client
  BY <1>7, <1>8, <1>10, <1>12, <1>20 DEF Client
<1> QED  BY <1>6, <1>19, <1>20 DEF Next

\* An open or close that fails half-way loses no handle: the one place where
\* handles are lost is the scan, at a device that another object has open.
THEOREM HandlesLostInScan == Spec => LostInScanOnly
<1>1. ASSUME Inv, ScanInv, [Next]_vars
      PROVE  \A x \in Handle : ~Lost(x) /\ Lost(x)' =>
                /\ pc = "scanClaim"
                /\ \E h \in Hid : IsOpened(h) /\ device[h] = handleOf[x]
  BY <1>1, LostStep
<1> QED  BY <1>1, ScanInvariant, PTL DEF Spec, LostInScanOnly

-----------------------------------------------------------------------------
(* The devices.                                                            *)

\* Behind DeviceLive: only a rescan frees devices, and none takes place while
\* the library is initialised.  A tidy client closes everything before that ends.
LiveInv == DeviceLive /\ (~initialised => \A h \in Hid : ~IsOpened(h))

LEMMA LiveStep ==
    ASSUME Inv, ScanInv, LiveInv, [Next]_vars,
           HidCleanup /\ initialised => \A h \in Hid : ~IsOpened(h)
    PROVE  LiveInv'
<1> USE DEF Goto, Holding, Scanning, IsOpened
<1>1. TypeOK /\ CallInv /\ OpenedIsWhole
  BY DEF Inv, OpeningInv
<1>2. /\ devHandle \in [Hid -> Handle \cup {NULL}]
      /\ device \in [Hid -> Device \cup {NULL}]
  BY <1>1 DEF TypeOK
\* no object is opened and no list relinked
<1>3. ASSUME UNCHANGED <<busDevices, initialised>>,
             \A h \in Hid : devHandle'[h] = NULL
                               \/ (devHandle'[h] = devHandle[h] /\ device'[h] = device[h])
      PROVE  LiveInv'
  BY <1>3 DEF LiveInv, DeviceLive
<1>4. CASE UNCHANGED vars \/ Environment
  <2>1. UNCHANGED <<busDevices, initialised, devHandle, device>>
    BY <1>4 DEF vars, usbVars, hidVars, Environment, UsbNext, Plug, Unplug, ForeignClaim,
       ForeignRelease, ForeignEvict
  <2> QED  BY <1>3, <2>1
<1>5. CASE HidInit
  <2>1. UNCHANGED devHandle /\ UNCHANGED device
    BY <1>5 DEF HidInit, hidVars
  <2>2. CASE UNCHANGED <<initialised, busDevices>>
    BY <1>3, <2>1, <2>2
  <2>3. CASE ~initialised /\ initialised' = TRUE
    BY <2>1, <2>3 DEF LiveInv, DeviceLive
  <2> QED  BY <1>5, <2>2, <2>3 DEF HidInit, MayRescan
<1>6. CASE HidCleanup
  BY <1>6 DEF HidCleanup, usbVars, hidVars, LiveInv, DeviceLive
<1>7. ASSUME NEW h \in Hid, NEW m,
             NewHIDInterface(h) \/ DeleteHIDInterface(h) \/ HidClose(h) \/ OpenRejected(h, m)
      PROVE  LiveInv'
  <2>1. /\ UNCHANGED <<busDevices, initialised>>
        /\ \/ UNCHANGED <<devHandle, device>>
           \/ /\ devHandle' = [devHandle EXCEPT ![h] = NULL]
              /\ device' = [device EXCEPT ![h] = NULL]
    BY <1>7 DEF NewHIDInterface, DeleteHIDInterface, HidClose, OpenRejected, ForgetHid, ResetHid,
       usbVars, hidVars
  <2> QED  BY <1>2, <1>3, <2>1
<1>8. ASSUME NEW h, NEW i, NEW m, NEW force, NEW n, OpenBegin(h, i, m, force, n)
      PROVE  LiveInv'
  BY <1>3, <1>8 DEF OpenBegin, usbVars
<1>9. CASE GiveUp \/ \E code : ScanFails(code)
  <2>1. /\ UNCHANGED <<busDevices, initialised>> /\ call.hid \in Hid
        /\ devHandle' = [devHandle EXCEPT ![call.hid] = NULL]
        /\ device' = [device EXCEPT ![call.hid] = NULL]
    BY <1>1, <1>9, CallType DEF GiveUp, ScanFails, ForgetHid, ResetHid, usbVars
  <2> QED  BY <1>2, <1>3, <2>1
<1>10. CASE ScanClaim
  <2>1. /\ UNCHANGED <<busDevices, initialised>> /\ call.hid \in Hid /\ initialised
        /\ handleOf[call.handle] \in ToSet(busDevices)
    BY <1>1, <1>10, CallType DEF ScanClaim, ScanInv
  <2>2. \/ UNCHANGED <<devHandle, device>>
        \/ /\ devHandle' = [devHandle EXCEPT ![call.hid] = call.handle]
           /\ device' = [device EXCEPT ![call.hid] = handleOf[call.handle]]
    BY <1>10 DEF ScanClaim
  <2> QED  BY <1>2, <2>1, <2>2 DEF LiveInv, DeviceLive
<1>11. CASE ScanClose \/ \E x \in Handle : ScanOpen(x)
  BY <1>3, <1>11 DEF ScanClose, ScanOpen, hidVars
<1>12. CASE Preparing
  BY <1>3, <1>12, PreparingKeeps
<1>13. CASE PrepareReportDescriptor
  BY <1>3, <1>13 DEF PrepareReportDescriptor, usbVars, hidVars
<1>14. CASE Step
  BY <1>9, <1>10, <1>11, <1>12, <1>13, <1>14, StepsOfACall
<1>15. CASE Client
  BY <1>5, <1>6, <1>7, <1>8, <1>15 DEF Client
<1> QED  BY <1>4, <1>14, <1>15 DEF Next

\* Clients that close what they opened before hid_cleanup never have an object
\* point to a device that libusb has freed.
THEOREM DevicesStayLive ==
    ASSUME TidyClients PROVE Spec => []DeviceLive
<1>1. Init => LiveInv
  BY DEF Init, LiveInv, DeviceLive, IsOpened
<1>2. Inv /\ ScanInv /\ LiveInv /\ [Next]_vars => LiveInv'
  BY LiveStep DEF HidCleanup
<1>3. LiveInv => DeviceLive
  BY DEF LiveInv
<1> QED  BY <1>1, <1>2, <1>3, ScanInvariant, PTL DEF Spec

-----------------------------------------------------------------------------
(* Claims, where no other process detaches what this one has claimed       *)
(* (~Evictions) and hid_os_force_claim looks at the result of the claim    *)
(* (Os # "darwin").                                                        *)

\* What libusb and the kernel keep: a handle is of a device that has been
\* there, claims are of handles on the device claimed, and a handle that the
\* scan has just opened has none.
ClaimInv ==
    /\ \A x \in Handle : handleOf[x] # NULL => plug[handleOf[x]] # "absent"
    /\ \A p \in Device \X Iface : holder[p] \in Handle => handleOf[holder[p]] = p[1]
    /\ pc = "scanClaim" => \A p \in Device \X Iface : holder[p] # call.handle

\* A step of the library claims, for a handle of its own, an interface of the
\* handle's device that is free or claimed for it already, or it detaches what
\* the call holds, closes one handle, or opens one.
LEMMA HolderMoves ==
    ASSUME Inv, Step \/ Client
    PROVE  /\ UNCHANGED plug
           /\ \/ UNCHANGED <<handleOf, holder>>
              \/ /\ ScanClaim /\ UNCHANGED handleOf
                 /\ holder' = AfterClaim(call.handle, interface[call.hid])
              \/ /\ ClaimOnce \/ ClaimOrRetry
                 /\ UNCHANGED handleOf
                 /\ holder' = AfterClaim(devHandle[call.hid], interface[call.hid])
              \/ /\ DetachDriver /\ UNCHANGED handleOf
                 /\ holder' = [holder EXCEPT ![Target(call.hid)] = Free]
              \/ (\E h \in Hid : IsOpened(h) /\ HidClose(h) /\ UsbClose(devHandle[h]))
              \/ GiveUp /\ UsbClose(devHandle[call.hid])
              \/ ScanClose /\ UsbClose(call.handle)
              \/ \E x \in Handle : /\ ScanOpen(x) /\ UsbOpen(Head(call.todo), x)
                                   /\ UNCHANGED holder
<1> USE DEF Goto, Holding, Scanning, IsOpened
<1>1. TypeOK /\ CallInv /\ OpenedIsWhole
  BY DEF Inv, OpeningInv
<1>2. CASE Step
  <2>1. CASE DetachDriver
    <3>1. handleOf[devHandle[call.hid]] = device[call.hid]
      BY <1>1, <2>1, CallType DEF DetachDriver, CallInv, OpenedIsWhole
    <3> QED  BY <2>1, <3>1 DEF DetachDriver, AfterDetach, Target
  <2>2. CASE ScanClaim \/ ClaimOnce \/ ClaimOrRetry
    BY <2>2 DEF ScanClaim, ClaimOnce, ClaimOrRetry
  <2>3. CASE GiveUp \/ ScanClose \/ \E x \in Handle : ScanOpen(x)
    BY <2>3 DEF GiveUp, ScanClose, ScanOpen
  <2>4. CASE \/ \E code : ScanFails(code)
             \/ InitParser \/ PrepareHidDescriptor \/ PrepareReportDescriptor
    BY <2>4 DEF ScanFails, InitParser, PrepareHidDescriptor, PrepareReportDescriptor, usbVars
  <2> QED  BY <1>2, <2>1, <2>2, <2>3, <2>4 DEF Step
<1>3. CASE Client
  <2>1. CASE HidInit \/ HidCleanup
    BY <2>1 DEF HidInit, HidCleanup, usbVars
  <2>2. ASSUME NEW h \in Hid, NEW m,
               NewHIDInterface(h) \/ DeleteHIDInterface(h) \/ OpenRejected(h, m)
        PROVE  UNCHANGED <<plug, handleOf, holder>>
    BY <2>2 DEF NewHIDInterface, DeleteHIDInterface, OpenRejected, usbVars
  <2>3. ASSUME NEW h, NEW i, NEW m, NEW force, NEW n, OpenBegin(h, i, m, force, n)
        PROVE  UNCHANGED <<plug, handleOf, holder>>
    BY <2>3 DEF OpenBegin, usbVars
  <2>4. ASSUME NEW h \in Hid, HidClose(h)
        PROVE  /\ UNCHANGED plug
               /\ \/ UNCHANGED <<handleOf, holder>>
                  \/ IsOpened(h) /\ HidClose(h) /\ UsbClose(devHandle[h])
    BY <2>4 DEF HidClose
  <2> QED  BY <1>3, <2>1, <2>2, <2>3, <2>4 DEF Client
<1> QED  BY <1>2, <1>3

LEMMA ClaimStep ==
    ASSUME Inv, ClaimInv, [Next]_vars PROVE ClaimInv'
<1> USE DEF Goto, Holding, Scanning, IsOpened
<1>1. TypeOK /\ CallInv /\ OpenedIsWhole
  BY DEF Inv, OpeningInv
<1>2. /\ holder \in [Device \X Iface -> Handle \cup {Free, Foreign}]
      /\ handleOf \in [Handle -> Device \cup {NULL}]
      /\ devHandle \in [Hid -> Handle \cup {NULL}]
      /\ plug \in [Device -> {"absent", "attached", "gone"}]
  BY <1>1 DEF TypeOK, UsbTypeOK
<1>3. UNCHANGED <<handleOf, holder>> /\ pc' # "scanClaim" /\ UNCHANGED plug => ClaimInv'
  BY DEF ClaimInv
<1>4. CASE UNCHANGED vars
  BY <1>4 DEF vars, usbVars, ClaimInv
<1>5. CASE Environment
  <2>1. UNCHANGED <<handleOf, pc, call>>
    BY <1>5 DEF Environment, UsbNext, Plug, Unplug, ForeignClaim, ForeignRelease, ForeignEvict
  <2>2. \A d \in Device : plug[d] # "absent" => plug'[d] # "absent"
    BY <1>2, <1>5 DEF Environment, UsbNext, Plug, Unplug, ForeignClaim, ForeignRelease, ForeignEvict
  <2>3. \A p \in Device \X Iface : holder'[p] = holder[p] \/ holder'[p] \in {Free, Foreign}
    BY <1>2, <1>5 DEF Environment, UsbNext, Plug, Unplug, ForeignClaim, ForeignRelease, ForeignEvict
  <2>4. pc = "scanClaim" => call.handle \in Handle
    BY <1>1 DEF CallInv
  <2> QED  BY <1>2, <2>1, <2>2, <2>3, <2>4, HoldersDiffer DEF ClaimInv
<1>6. ASSUME NEW x \in Handle, UsbClose(x), UNCHANGED plug, pc' # "scanClaim"
      PROVE  ClaimInv'
  <2>1. /\ \A y \in Handle : handleOf'[y] = IF y = x THEN NULL ELSE handleOf[y]
        /\ \A p \in Device \X Iface : holder'[p] = IF holder[p] = x THEN Free ELSE holder[p]
    BY <1>2, <1>6 DEF UsbClose
  <2> QED  BY <1>6, <2>1, HoldersDiffer DEF ClaimInv
<1>7. ASSUME NEW x \in Handle, NEW i \in Iface, holder' = AfterClaim(x, i), handleOf[x] \in Device,
             UNCHANGED <<handleOf, plug>>, pc' # "scanClaim"
      PROVE  ClaimInv'
  <2>1. \A p \in Device \X Iface :
           holder'[p] = holder[p] \/ (holder'[p] = x /\ p[1] = handleOf[x])
    BY <1>2, <1>7 DEF AfterClaim
  <2> QED  BY <1>7, <2>1 DEF ClaimInv
<1>8. CASE ScanClaim
  BY <1>1, <1>7, <1>8 DEF ScanClaim, CallInv
<1>9. CASE (ClaimOnce \/ ClaimOrRetry) /\ UNCHANGED <<plug, handleOf>>
           /\ holder' = AfterClaim(devHandle[call.hid], interface[call.hid])
  <2>1. call.hid \in Hid /\ IsOpened(call.hid) /\ pc' # "scanClaim"
    BY <1>1, <1>9, CallType DEF ClaimOnce, ClaimOrRetry, CallInv
  <2>2. /\ devHandle[call.hid] \in Handle /\ interface[call.hid] \in Iface
        /\ handleOf[devHandle[call.hid]] \in Device
    BY <1>1, <1>2, <2>1 DEF OpenedIsWhole
  <2> QED  BY <1>7, <1>9, <2>1, <2>2
<1>10. CASE DetachDriver /\ UNCHANGED <<plug, handleOf>>
            /\ holder' = [holder EXCEPT ![Target(call.hid)] = Free]
  <2>1. \A p \in Device \X Iface : holder'[p] = holder[p] \/ holder'[p] = Free
    BY <1>2, <1>10
  <2>2. pc' # "scanClaim"
    BY <1>10 DEF DetachDriver
  <2> QED  BY <1>10, <2>1, <2>2, HoldersDiffer DEF ClaimInv
<1>11. ASSUME NEW h \in Hid, IsOpened(h), HidClose(h), UsbClose(devHandle[h])
       PROVE  ClaimInv'
  BY <1>2, <1>6, <1>11 DEF HidClose
<1>12. CASE GiveUp /\ UsbClose(devHandle[call.hid])
  <2>1. devHandle[call.hid] \in Handle
    BY <1>1, <1>2, <1>12, CallType DEF GiveUp, CallInv
  <2> QED  BY <1>6, <1>12, <2>1 DEF GiveUp, Return
<1>13. CASE ScanClose
  BY <1>1, <1>6, <1>13 DEF ScanClose, CallInv
<1>14. ASSUME NEW x \in Handle, ScanOpen(x), UsbOpen(Head(call.todo), x), UNCHANGED <<holder, plug>>
       PROVE  ClaimInv'
  <2>1. Head(call.todo) \in Device /\ call'.handle = x
    BY <1>1, <1>14, CallType DEF ScanOpen, Call
  <2>2. \A y \in Handle : handleOf'[y] = IF y = x THEN Head(call.todo) ELSE handleOf[y]
    BY <1>2, <1>14 DEF UsbOpen
  <2>3. handleOf[x] = NULL /\ plug[Head(call.todo)] = "attached"
    BY <1>14 DEF UsbOpen
  <2>4. \A p \in Device \X Iface : holder[p] # x
    BY <2>3, NullIsNothing DEF ClaimInv
  <2> QED  BY <1>14, <2>1, <2>2, <2>3, <2>4 DEF ClaimInv
<1>15. CASE UNCHANGED <<plug, handleOf, holder>> /\ (Step \/ Client)
  <2>1. CASE \E x \in Handle : ScanOpen(x)
    BY <1>2, <1>14, <1>15, <2>1 DEF ScanOpen
  <2>2. CASE pc' = "idle"
    BY <1>3, <1>15, <2>2
  <2>3. CASE \E h, i, m, force, n : OpenBegin(h, i, m, force, n)
    BY <1>3, <1>15, <2>3 DEF OpenBegin
  <2>4. CASE ScanClaim \/ ScanClose \/ Preparing
    BY <1>3, <1>15, <2>4, PreparingKeeps DEF ScanClaim, ScanClose
  <2>5. CASE Environment
    BY <1>5, <2>5
  <2> QED  BY <1>15, <2>1, <2>2, <2>3, <2>4, <2>5, IdleAfter DEF Next
<1>16. CASE Step \/ Client
  BY <1>8, <1>9, <1>10, <1>11, <1>12, <1>13, <1>14, <1>15, <1>16, HolderMoves
<1> QED  BY <1>4, <1>5, <1>16 DEF Next

LEMMA ClaimInvariant == Spec => [](Inv /\ ScanInv /\ ClaimInv)
<1>1. Init => ClaimInv
  BY HoldersDiffer DEF Init, UsbInit, ClaimInv
<1> QED  BY <1>1, ClaimStep, ScanInvariant, PTL DEF Spec

\* An open object is left alone by every step that does not close it.
LEMMA OpenKept ==
    ASSUME Inv, [Next]_vars, NEW h \in Hid, IsOpened(h)
    PROVE  \/ /\ devHandle'[h] = devHandle[h]
              /\ device'[h] = device[h]
              /\ interface'[h] = interface[h]
           \/ HidClose(h) /\ UsbClose(devHandle[h])
           \/ GiveUp /\ h = call.hid
<1> USE DEF Goto, Holding, Scanning, IsOpened
<1>1. TypeOK /\ CallInv /\ OpenedIsWhole
  BY DEF Inv, OpeningInv
<1>2. /\ devHandle \in [Hid -> Handle \cup {NULL}]
      /\ device \in [Hid -> Device \cup {NULL}]
      /\ interface \in [Hid -> Iface \cup {NULL}]
      /\ h \in alive
  BY <1>1 DEF TypeOK, OpenedIsWhole
<1>3. UNCHANGED <<devHandle, device, interface>>
         => /\ devHandle'[h] = devHandle[h]
            /\ device'[h] = device[h]
            /\ interface'[h] = interface[h]
  OBVIOUS
<1>4. CASE UNCHANGED vars \/ Environment \/ HidInit \/ HidCleanup
  BY <1>3, <1>4 DEF vars, hidVars, Environment, HidInit, HidCleanup
<1>5. ASSUME NEW g \in Hid, NewHIDInterface(g)
      PROVE  /\ devHandle'[h] = devHandle[h]
             /\ device'[h] = device[h]
             /\ interface'[h] = interface[h]
  BY <1>2, <1>5 DEF NewHIDInterface, ResetHid
<1>6. ASSUME NEW g \in Hid, NEW m, DeleteHIDInterface(g) \/ OpenRejected(g, m)
      PROVE  UNCHANGED <<devHandle, device, interface>>
  BY <1>6 DEF DeleteHIDInterface, OpenRejected, hidVars
<1>7. ASSUME NEW g \in Hid, HidClose(g)
      PROVE  \/ /\ devHandle'[h] = devHandle[h]
                /\ device'[h] = device[h]
                /\ interface'[h] = interface[h]
             \/ g = h /\ UsbClose(devHandle[h])
  BY <1>2, <1>7 DEF HidClose, ForgetHid, ResetHid
<1>8. ASSUME NEW g \in Hid, NEW i, NEW m, NEW force, NEW n, OpenBegin(g, i, m, force, n)
      PROVE  /\ devHandle'[h] = devHandle[h]
             /\ device'[h] = device[h]
             /\ interface'[h] = interface[h]
  BY <1>2, <1>8 DEF OpenBegin
<1>9. CASE ScanClaim \/ \E code : ScanFails(code)
  <2>1. call.hid \in Hid /\ call.hid # h
    BY <1>1, <1>9, CallType DEF ScanClaim, ScanFails, CallInv
  <2> QED  BY <1>2, <1>9, <2>1 DEF ScanClaim, ScanFails
<1>10. CASE ScanClose \/ PrepareReportDescriptor \/ \E x \in Handle : ScanOpen(x)
  BY <1>3, <1>10 DEF ScanClose, ScanOpen, PrepareReportDescriptor, hidVars
<1>11. CASE Preparing
  BY <1>3, <1>11, PreparingKeeps
<1>12. CASE GiveUp
  <2>1. call.hid \in Hid
    BY <1>1, <1>12, CallType DEF GiveUp
  <2> QED  BY <1>2, <1>12, <2>1 DEF GiveUp, ForgetHid, ResetHid
<1>13. CASE Step
  BY <1>9, <1>10, <1>11, <1>12, <1>13, StepsOfACall
<1>14. CASE Client
  BY <1>3, <1>4, <1>5, <1>6, <1>7, <1>8, <1>14 DEF Client
<1> QED  BY <1>4, <1>13, <1>14 DEF Next

-----------------------------------------------------------------------------
(* Who holds a claim.                                                      *)

\* The claim has succeeded: the object is listed, or a call is past its claim.
Claimed(h) ==
    Listed(h) \/ (pc \in {"alloc", "hidDesc", "reportDesc"} /\ call.hid = h)

\* Behind ListedHoldsClaim: the claim is held from then on.
HeldInv ==
    \A h \in Hid :
        Claimed(h) /\ plug[device[h]] = "attached" => holder[Target(h)] = devHandle[h]

\* Only a claim that was granted makes an object one with a claim.
LEMMA ClaimedStep ==
    ASSUME Inv, [Next]_vars, NEW h \in Hid, Claimed(h)'
    PROVE  /\ ~HidClose(h)
           /\ ~(GiveUp /\ h = call.hid)
           /\ \/ Claimed(h)
              \/ (ClaimOnce \/ ClaimOrRetry) /\ h = call.hid /\ pc' = "alloc"
<1> USE DEF Goto, Holding, Scanning
<1>1. TypeOK /\ CallInv /\ ListInv /\ OpenedIsWhole
  BY DEF Inv, OpeningInv
\* what is closed leaves the list
<1>2. ASSUME NEW g \in Hid, ForgetHid(g), pc' = "idle"
      PROVE  Claimed(h) /\ h # g
  BY <1>2, ForgetFacts DEF Claimed, Listed
<1>3. ASSUME NEW g \in Hid, HidClose(g)
      PROVE  Claimed(h) /\ h # g
  BY <1>2, <1>3 DEF HidClose
<1>4. GiveUp => Claimed(h) /\ h # call.hid
  BY <1>1, <1>2, CallType DEF GiveUp, Return
<1>5. UNCHANGED openList /\ pc' \notin {"alloc", "hidDesc", "reportDesc"} => Claimed(h)
  BY DEF Claimed, Listed
<1>6. CASE UNCHANGED vars \/ Environment
  <2>1. Claimed(h)
    BY <1>6 DEF vars, Environment, Claimed, Listed
  <2> QED  BY <1>3, <1>4, <2>1
<1>7. CASE Preparing
  <2>1. UNCHANGED openList /\ call'.hid = call.hid
    BY <1>7, PreparingKeeps
  <2>2. /\ pc' = "alloc" => ClaimOnce \/ ClaimOrRetry
        /\ pc' = "hidDesc" => pc = "alloc"
        /\ pc' = "reportDesc" => pc = "hidDesc"
    BY <1>7 DEF Preparing, ClaimOnce, ClaimOrRetry, DetachDriver, InitParser,
       PrepareHidDescriptor, PrepareReportDescriptor, Return
  <2>3. Listed(h)' => Listed(h)
    BY <2>1 DEF Listed
  <2>4. \/ Claimed(h)
        \/ (ClaimOnce \/ ClaimOrRetry) /\ h = call.hid /\ pc' = "alloc"
    BY <2>1, <2>2, <2>3 DEF Claimed
  <2> QED  BY <1>3, <1>4, <2>4
<1>8. CASE PrepareReportDescriptor /\ pc' = "idle"
  <2>1. pc = "reportDesc" /\ openList' = AddOpenDevice(openList, call.hid)
    BY <1>8 DEF PrepareReportDescriptor
  <2>2. \/ openList' = openList
        \/ /\ DOMAIN openList' = 1..(Len(openList) + 1)
           /\ openList'[Len(openList) + 1] = call.hid
           /\ \A k \in DOMAIN openList : openList'[k] = openList[k]
    BY <1>1, <2>1, CallType, AddOpenDeviceProps DEF TypeOK
  <2>3. Listed(h)' => Listed(h) \/ h = call.hid
    BY <1>1, <2>2 DEF Listed, TypeOK
  <2> QED  BY <1>3, <1>4, <1>8, <2>1, <2>3 DEF Claimed
<1>9. CASE \/ \E code : ScanFails(code)
           \/ \E x \in Handle : ScanOpen(x)
           \/ ScanClaim \/ ScanClose
  BY <1>3, <1>4, <1>5, <1>9 DEF ScanFails, ScanOpen, ScanClaim, ScanClose, Return, hidVars
<1>10. ASSUME NEW g \in Hid, NEW m,
              NewHIDInterface(g) \/ DeleteHIDInterface(g) \/ OpenRejected(g, m)
       PROVE  UNCHANGED openList /\ pc' = "idle"
  BY <1>10 DEF NewHIDInterface, DeleteHIDInterface, OpenRejected
<1>11. ASSUME NEW g, NEW i, NEW m, NEW force, NEW n, OpenBegin(g, i, m, force, n)
       PROVE  UNCHANGED openList /\ pc' = "scan"
  BY <1>11 DEF OpenBegin
<1>12. HidInit \/ HidCleanup => UNCHANGED openList /\ pc' = "idle"
  BY DEF HidInit, HidCleanup
<1>13. CASE Client
  BY <1>3, <1>4, <1>5, <1>10, <1>11, <1>12, <1>13 DEF Client
<1>14. CASE Step
  BY <1>3, <1>4, <1>7, <1>8, <1>9, <1>14, StepsOfACall
<1> QED  BY <1>6, <1>13, <1>14 DEF Next

\* Who has a claim keeps it until it is closed, or the device is gone.
LEMMA HeldStep ==
    ASSUME ~Evictions, Os # "darwin", Inv, ClaimInv, HeldInv, [Next]_vars
    PROVE  HeldInv'
<1> USE DEF Goto, Holding, Scanning, IsOpened
<1> SUFFICES ASSUME NEW h \in Hid, Claimed(h)', plug'[device'[h]] = "attached"
             PROVE  holder'[Target(h)'] = devHandle'[h]
  BY DEF HeldInv, Target
<1>1. TypeOK /\ CallInv /\ OpenedIsWhole
  BY DEF Inv, OpeningInv
<1>2. /\ holder \in [Device \X Iface -> Handle \cup {Free, Foreign}]
      /\ devHandle \in [Hid -> Handle \cup {NULL}]
      /\ plug \in [Device -> {"absent", "attached", "gone"}]
  BY <1>1 DEF TypeOK, UsbTypeOK
<1>3. /\ ~HidClose(h)
      /\ ~(GiveUp /\ h = call.hid)
      /\ \/ Claimed(h)
         \/ (ClaimOnce \/ ClaimOrRetry) /\ h = call.hid /\ pc' = "alloc"
  BY ClaimedStep
<1>4. IsOpened(h)
  BY <1>1, <1>3, CallType DEF Claimed, OpenedIsWhole, CallInv, ClaimOnce, ClaimOrRetry
<1>5. /\ devHandle[h] \in Handle /\ Target(h) \in Device \X Iface
      /\ handleOf[devHandle[h]] = device[h] /\ device[h] \in Device /\ interface[h] \in Iface
      /\ \A g \in Hid \ {h} : devHandle[g] # devHandle[h]
  BY <1>1, <1>2, <1>4 DEF OpenedIsWhole, Target
<1>6. devHandle'[h] = devHandle[h] /\ Target(h)' = Target(h) /\ device'[h] = device[h]
  BY <1>3, <1>4, OpenKept DEF Target
<1>7. CASE UNCHANGED vars
  BY <1>3, <1>6, <1>7 DEF vars, usbVars, HeldInv, ClaimOnce, ClaimOrRetry
<1>8. CASE Environment
  <2>1. Claimed(h)
    BY <1>3, <1>8 DEF Environment, ClaimOnce, ClaimOrRetry
  <2>2. plug[device[h]] = "attached"
    <3>1. plug[device[h]] # "absent"
      BY <1>5, NullIsNothing DEF ClaimInv
    <3>2. plug'[device[h]] = "attached"
      BY <1>6
    <3>3. \A d \in Device : plug'[d] = "attached" => plug[d] \in {"absent", "attached"}
      BY <1>2, <1>8 DEF Environment, UsbNext, Plug, Unplug, ForeignClaim, ForeignRelease,
         ForeignEvict
    <3> QED  BY <1>5, <3>1, <3>2, <3>3
  <2>3. holder[Target(h)] = devHandle[h]
    BY <2>1, <2>2 DEF HeldInv
  <2>4. holder'[Target(h)] = holder[Target(h)]
    <3>1. ASSUME NEW d \in Device, Plug(d)
          PROVE  holder'[Target(h)] = holder[Target(h)]
      BY <3>1 DEF Plug
    <3>2. ASSUME NEW d \in Device, Unplug(d)
          PROVE  holder'[Target(h)] = holder[Target(h)]
      <4>1. d # device[h]
        BY <1>2, <1>6, <3>2 DEF Unplug
      <4> QED  BY <1>2, <1>5, <3>2, <4>1 DEF Unplug, Target
    <3>3. ASSUME NEW p \in Device \X Iface, ForeignClaim(p) \/ ForeignRelease(p)
          PROVE  holder'[Target(h)] = holder[Target(h)]
      BY <1>2, <1>5, <2>3, <3>3, HoldersDiffer DEF ForeignClaim, ForeignRelease
    <3> QED  BY <1>8, <3>1, <3>2, <3>3 DEF Environment, UsbNext, ForeignEvict
  <2> QED  BY <1>6, <2>3, <2>4
<1>9. CASE Step \/ Client
  <2>1. UNCHANGED plug
    BY <1>9, HolderMoves
  <2>2. CASE (ClaimOnce \/ ClaimOrRetry) /\ h = call.hid /\ pc' = "alloc"
    <3>1. Claimable(devHandle[h], interface[h])
      BY <2>2 DEF ClaimOnce, ClaimOrRetry, ClaimIgnored
    <3>2. holder' = [holder EXCEPT ![Target(h)] = devHandle[h]]
      BY <1>5, <2>2, <3>1 DEF ClaimOnce, ClaimOrRetry, AfterClaim, Target
    <3> QED  BY <1>2, <1>5, <1>6, <3>2
  <2>3. CASE Claimed(h)
    <3>1. holder[Target(h)] = devHandle[h]
      BY <1>6, <2>1, <2>3 DEF HeldInv
    <3>2. UNCHANGED holder => holder'[Target(h)] = devHandle[h]
      BY <3>1
    <3>3. CASE pc' # pc /\ Listed(h)
      BY <1>6, <3>1, <3>3, ClaimKeptStep
    <3>4. ASSUME NEW g \in Hid, IsOpened(g), HidClose(g), UsbClose(devHandle[g])
          PROVE  holder'[Target(h)] = devHandle[h]
      <4>1. g # h
        BY <1>3, <3>4
      <4>2. devHandle[g] # devHandle[h]
        BY <1>5, <4>1
      <4> QED  BY <1>2, <1>5, <3>1, <4>2, <3>4 DEF UsbClose
    <3>5. CASE ~Listed(h)
      <4>1. pc \in {"alloc", "hidDesc", "reportDesc"}
        BY <2>3, <3>5 DEF Claimed
      <4>2. UNCHANGED holder
        BY <1>9, <4>1, HolderMoves DEF ScanClaim, ClaimOnce, ClaimOrRetry, DetachDriver,
           HidClose, GiveUp, ScanClose, ScanOpen
      <4> QED  BY <1>6, <3>2, <4>2
    <3>6. \/ UNCHANGED holder
          \/ \E g \in Hid : IsOpened(g) /\ HidClose(g) /\ UsbClose(devHandle[g])
          \/ pc' # pc
      BY <1>9, HolderMoves DEF ScanClaim, ClaimOnce, ClaimOrRetry, DetachDriver, GiveUp,
         ScanClose, Return
    <3> QED  BY <1>6, <3>2, <3>3, <3>4, <3>5, <3>6
  <2> QED  BY <1>3, <2>2, <2>3
<1> QED  BY <1>7, <1>8, <1>9 DEF Next

LEMMA HeldInvariant ==
    ASSUME ~Evictions, Os # "darwin"
    PROVE  Spec => [](Inv /\ ScanInv /\ ClaimInv /\ HeldInv)
<1>1. Init => HeldInv
  BY DEF Init, HeldInv, Claimed, Listed
<1>2. Inv /\ ClaimInv /\ HeldInv /\ [Next]_vars => HeldInv'
  BY HeldStep
<1> QED  BY <1>1, <1>2, ClaimInvariant, PTL DEF Spec

\* What hid_open and hid_force_open returned with success is claimed for the
\* handle of the object while the device is there.
THEOREM ListedAreClaimed ==
    ASSUME ~Evictions, Os # "darwin" PROVE Spec => []ListedHoldsClaim
<1>1. HeldInv => ListedHoldsClaim
  BY DEF HeldInv, Claimed, ListedHoldsClaim
<1> QED  BY <1>1, HeldInvariant, PTL

\* A claim of this process has its owner: the scan, or an open object.
Owned(p) ==
    \/ pc # "idle" /\ call.handle = holder[p]
    \/ \E h \in Hid : devHandle[h] = holder[p] /\ Target(h) = p

\* The scan leaves nothing claimed where it passes over a device: the claim of
\* the new handle failed, since the listed object has the interface.
LEMMA PassedKeepsClaims ==
    ASSUME Inv, ClaimInv, HeldInv, ScanClaim,
           PreviouslyMatched(handleOf[call.handle], interface[call.hid])
    PROVE  holder' = holder /\ \A p \in Device \X Iface : holder[p] # call.handle
<1> DEFINE d == handleOf[call.handle]
           i == interface[call.hid]
<1>1. TypeOK /\ CallInv
  BY DEF Inv, OpeningInv
<1>2. pc = "scanClaim" /\ holder' = AfterClaim(call.handle, i)
  BY DEF ScanClaim
<1>3. PICK k \in DOMAIN openList : interface[openList[k]] = i /\ device[openList[k]] = d
  BY DEF PreviouslyMatched
<1>4. openList[k] \in Hid /\ Claimed(openList[k]) /\ Target(openList[k]) = <<d, i>>
  BY <1>3, ListedFacts DEF Claimed, Listed, Target
<1>5. devHandle[openList[k]] \in Handle \/ devHandle[openList[k]] = NULL
  BY <1>1, <1>4 DEF TypeOK
<1>6. /\ devHandle[openList[k]] # call.handle /\ devHandle[openList[k]] # Free
      /\ call.handle \in Handle
  BY <1>1, <1>2, <1>4, <1>5, ListedFacts, HoldersDiffer DEF CallInv, Inv, OpeningInv, OpenedIsWhole,
     IsOpened, TypeOK
<1>7. plug[d] = "attached" => holder[<<d, i>>] = devHandle[openList[k]]
  BY <1>3, <1>4 DEF HeldInv
<1>8. ~Claimable(call.handle, i)
  BY <1>6, <1>7 DEF Claimable
<1> QED  BY <1>2, <1>8 DEF AfterClaim, ClaimInv

LEMMA OwnedStep ==
    ASSUME Inv, ScanInv, ClaimInv, HeldInv, ClaimsAccounted, [Next]_vars
    PROVE  ClaimsAccounted'
<1> USE DEF Goto, Holding, Scanning, IsOpened
<1> SUFFICES ASSUME NEW p \in Device \X Iface, holder'[p] \in Handle
             PROVE  Owned(p)'
  BY DEF ClaimsAccounted, Owned, Target
<1>1. TypeOK /\ CallInv /\ OpenedIsWhole
  BY DEF Inv, OpeningInv
<1>2. /\ holder \in [Device \X Iface -> Handle \cup {Free, Foreign}]
      /\ devHandle \in [Hid -> Handle \cup {NULL}]
      /\ device \in [Hid -> Device \cup {NULL}]
      /\ \A x \in Handle : x # NULL
  BY <1>1, NullIsNothing DEF TypeOK, UsbTypeOK
<1>3. holder[p] \in Handle => Owned(p)
  BY DEF ClaimsAccounted, Owned
\* a claim of an open object stays its own, if the object is not closed
<1>4. ASSUME NEW h \in Hid, devHandle[h] = holder[p], Target(h) = p, holder'[p] = holder[p],
             ~(HidClose(h) /\ UsbClose(devHandle[h])), ~(GiveUp /\ h = call.hid)
      PROVE  Owned(p)'
  <2>1. devHandle'[h] = devHandle[h] /\ Target(h)' = Target(h)
    BY <1>2, <1>4, OpenKept DEF Target
  <2> QED  BY <1>4, <2>1 DEF Owned
\* outside of scanClaim and scanClose claims are those of open objects
<1>5. ASSUME holder'[p] = holder[p], pc = "idle" \/ call.handle = NULL,
             \A h \in Hid : IsOpened(h) /\ devHandle[h] = holder[p] =>
                   ~(HidClose(h) /\ UsbClose(devHandle[h])) /\ ~(GiveUp /\ h = call.hid)
      PROVE  Owned(p)'
  BY <1>2, <1>3, <1>4, <1>5 DEF Owned
<1>6. CASE UNCHANGED vars
  BY <1>3, <1>6 DEF vars, usbVars, hidVars, Owned, Target
<1>7. CASE Environment
  <2>1. UNCHANGED <<devHandle, device, interface, pc, call>>
    BY <1>7 DEF Environment, hidVars
  <2>2. holder'[p] = holder[p]
    BY <1>2, <1>7, HoldersDiffer DEF Environment, UsbNext, Plug, Unplug, ForeignClaim,
       ForeignRelease, ForeignEvict
  <2> QED  BY <1>3, <2>1, <2>2 DEF Owned, Target
<1>8. CASE ScanClaim
  <2> DEFINE d == handleOf[call.handle]
             i == interface[call.hid]
  <2>1. /\ call \in Call /\ call.hid \in Hid /\ pc = "scanClaim" /\ d \in Device /\ i \in Iface
        /\ call.handle \in Handle /\ ~IsOpened(call.hid) /\ holder[p] # call.handle
        /\ holder' = AfterClaim(call.handle, i) /\ ~GiveUp
    BY <1>1, <1>8, CallType DEF ScanClaim, CallInv, ClaimInv, GiveUp
  <2>2. \A h \in Hid : ~HidClose(h)
    BY <2>1 DEF HidClose
  \* not the claim of the scan: it stays with its owner
  <2>3. ASSUME holder'[p] = holder[p]
        PROVE  Owned(p)'
    <3>1. PICK h \in Hid : devHandle[h] = holder[p] /\ Target(h) = p
      BY <1>3, <2>1, <2>3 DEF Owned
    <3> QED  BY <1>4, <2>1, <2>2, <2>3, <3>1
  \* the claim of the scan
  <2>4. ASSUME holder'[p] # holder[p]
        PROVE  Owned(p)'
    <3>1. holder'[p] = call.handle /\ p = <<d, i>>
      BY <1>2, <2>1, <2>4 DEF AfterClaim
    <3>2. ~PreviouslyMatched(d, i)
      BY <1>8, <2>4, PassedKeepsClaims
    <3>3. CASE pc' = "claim"
      <4>1. /\ devHandle' = [devHandle EXCEPT ![call.hid] = call.handle]
            /\ device' = [device EXCEPT ![call.hid] = d]
            /\ interface' = interface
        BY <1>8, <3>2, <3>3 DEF ScanClaim
      <4>2. devHandle'[call.hid] = call.handle /\ device'[call.hid] = d /\ interface'[call.hid] = i
        BY <1>2, <2>1, <4>1
      <4> QED  BY <2>1, <3>1, <4>2 DEF Owned, Target
    <3>4. CASE pc' = "scanClose" /\ UNCHANGED call
      BY <3>1, <3>4 DEF Owned
    <3> QED  BY <1>8, <3>2, <3>3, <3>4 DEF ScanClaim
  <2> QED  BY <2>3, <2>4
<1>9. CASE ScanClose
  <2>1. /\ pc = "scanClose" /\ holder'[p] = holder[p] /\ holder[p] # call.handle
        /\ ~GiveUp
    BY <1>2, <1>9, HoldersDiffer DEF ScanClose, UsbClose, GiveUp
  <2>2. \A h \in Hid : ~HidClose(h)
    BY <2>1 DEF HidClose
  <2>3. PICK h \in Hid : devHandle[h] = holder[p] /\ Target(h) = p
    BY <1>3, <2>1 DEF Owned
  <2> QED  BY <1>4, <2>1, <2>2, <2>3
<1>10. CASE (Step \/ Client) /\ ~ScanClaim /\ ~ScanClose
  <2>1. pc = "idle" \/ call.handle = NULL
    <3>1. Client => pc = "idle"
      BY DEF Client, HidInit, HidCleanup, NewHIDInterface, DeleteHIDInterface, HidClose,
         OpenRejected, OpenBegin
    <3>2. CASE Step
      <4>1. \/ (\E code : ScanFails(code)) \/ (\E x \in Handle : ScanOpen(x))
            \/ Preparing \/ PrepareReportDescriptor \/ GiveUp
        BY <1>10, <3>2, StepsOfACall
      <4>2. pc = "scan" \/ pc \in Holding
        BY <4>1, PreparingKeeps DEF ScanFails, ScanOpen, PrepareReportDescriptor, GiveUp
      <4> QED  BY <4>2 DEF ScanInv
    <3> QED  BY <1>10, <3>1, <3>2
  \* a handle that is closed has no claim any more
  <2>2. ASSUME NEW x \in Handle, UsbClose(x)
        PROVE  holder'[p] = holder[p] /\ holder[p] # x
    BY <1>2, <2>2, HoldersDiffer DEF UsbClose
  <2>3. ASSUME NEW h \in Hid, IsOpened(h), UsbClose(devHandle[h])
        PROVE  holder'[p] = holder[p] /\ holder[p] # devHandle[h]
    BY <1>2, <2>2, <2>3
  <2>4. GiveUp => call.hid \in Hid /\ IsOpened(call.hid) /\ UsbClose(devHandle[call.hid])
    BY <1>1, CallType DEF GiveUp, CallInv
  <2>5. \A h \in Hid : IsOpened(h) /\ devHandle[h] = holder[p] =>
                   ~(HidClose(h) /\ UsbClose(devHandle[h])) /\ ~(GiveUp /\ h = call.hid)
    BY <2>3, <2>4
  <2>6. holder'[p] = holder[p] => Owned(p)'
    BY <1>5, <2>1, <2>5
  <2>7. CASE ClaimOnce \/ ClaimOrRetry
    <3>1. PICK h \in Hid : h = call.hid /\ IsOpened(h) /\ pc = "claim" /\ ~GiveUp
      BY <1>1, <2>7, CallType DEF ClaimOnce, ClaimOrRetry, CallInv, GiveUp
    <3>2. handleOf[devHandle[h]] = device[h] /\ ~HidClose(h)
      BY <1>1, <3>1 DEF OpenedIsWhole, HidClose
    <3>3. holder' = AfterClaim(devHandle[h], interface[h])
      BY <2>7, <3>1 DEF ClaimOnce, ClaimOrRetry
    <3>4. holder'[p] = holder[p] \/ (holder'[p] = devHandle[h] /\ p = Target(h))
      BY <1>2, <3>2, <3>3 DEF AfterClaim, Target
    <3>5. devHandle'[h] = devHandle[h] /\ Target(h)' = Target(h)
      BY <3>1, <3>2, OpenKept DEF Target
    <3> QED  BY <2>6, <3>1, <3>4, <3>5 DEF Owned
  <2>8. CASE DetachDriver
    <3>1. holder'[p] = holder[p] \/ holder'[p] = Free
      BY <1>2, <2>8 DEF DetachDriver, AfterDetach
    <3> QED  BY <2>6, <3>1, HoldersDiffer
  <2> QED  BY <1>10, <2>3, <2>4, <2>6, <2>7, <2>8, HolderMoves
<1> QED  BY <1>6, <1>7, <1>8, <1>9, <1>10 DEF Next

\* The handles that a scan leaves open hold no claim: an interface is claimed
\* by this process only for an open object on it, or for the scan under way.
THEOREM ClaimsHaveOwners ==
    ASSUME ~Evictions, Os # "darwin" PROVE Spec => []ClaimsAccounted
<1>1. Init => ClaimsAccounted
  BY HoldersDiffer DEF Init, UsbInit, ClaimsAccounted
<1>2. Inv /\ ScanInv /\ ClaimInv /\ HeldInv /\ ClaimsAccounted /\ [Next]_vars => ClaimsAccounted'
  BY OwnedStep
<1> QED  BY <1>1, <1>2, HeldInvariant, PTL DEF Spec

-----------------------------------------------------------------------------
(* Room for every object.                                                  *)

\* MAX_OPEN_DEVICES is enough for the objects there are.
RoomForAll == IsFiniteSet(Hid) /\ Cardinality(Hid) <= MaxOpen

-----------------------------------------------------------------------------
(* The open list.                                                          *)

\* A sequence of distinct entries is no longer than the set they are from.
LEMMA DistinctFit ==
    ASSUME NEW T, IsFiniteSet(T), NEW s \in Seq(T),
           \A j, k \in DOMAIN s : j # k => s[j] # s[k]
    PROVE  Len(s) <= Cardinality(T)
<1>1. Len(s) \in Nat /\ DOMAIN s = 1..Len(s) /\ s \in [1..Len(s) -> T]
  OBVIOUS
<1>2. s \in Injection(1..Len(s), T)
  BY <1>1 DEF Injection, IsInjective
<1>3. Cardinality(1..Len(s)) <= Cardinality(T)
  BY <1>2, FS_Injection
<1>4. Cardinality(1..Len(s)) = Len(s)
  BY <1>1, FS_Interval
<1> QED  BY <1>3, <1>4

\* remove_open_device removes nothing but the object.
LEMMA OthersStayListed ==
    ASSUME Inv, NEW h \in Hid, NEW g \in Hid, g # h, Listed(g), ForgetHid(h)
    PROVE  Listed(g)'
<1>1. openList \in Seq(Hid) /\ openList' = RemoveOpenDevice(openList, h)
  BY ListedFacts DEF ForgetHid
<1>2. PICK k \in DOMAIN openList : openList[k] = g
  BY DEF Listed
<1>3. Len(openList) \in Nat /\ DOMAIN openList = 1..Len(openList)
  BY <1>1
<1>4. CASE openList' = openList
  BY <1>4 DEF Listed
<1>5. ASSUME NEW i \in DOMAIN openList, openList[i] = h,
             openList' = [n \in 1..(Len(openList) - 1) |->
                             IF n < i THEN openList[n] ELSE openList[n + 1]]
      PROVE  Listed(g)'
  <2>1. k # i
    BY <1>2, <1>5
  <2>2. CASE k < i
    <3>1. k \in 1..(Len(openList) - 1)
      BY <1>2, <1>3, <1>5, <2>2
    <3>2. openList'[k] = g
      BY <1>2, <1>5, <2>2, <3>1
    <3> QED  BY <1>5, <3>1, <3>2 DEF Listed
  <2>3. CASE i < k
    <3>1. k - 1 \in 1..(Len(openList) - 1) /\ ~(k - 1 < i)
      BY <1>2, <1>3, <1>5, <2>3
    <3>2. openList'[k - 1] = g
      BY <1>2, <1>3, <1>5, <3>1
    <3> QED  BY <1>5, <3>1, <3>2 DEF Listed
  <2> QED  BY <1>2, <1>3, <1>5, <2>1, <2>2, <2>3
<1> QED  BY <1>1, <1>4, <1>5, RemoveOpenDeviceShifts

\* add_open_device finds room: the object that it adds is not on the list.
LEMMA RoomForOneMore ==
    ASSUME RoomForAll, Inv, pc # "idle"
    PROVE  AddOpenDevice(openList, call.hid) = Append(openList, call.hid)
<1>1. call.hid \in Hid
  BY CallType DEF Inv
<1>2. openList \in Seq(Hid) /\ \A j, k \in DOMAIN openList : j # k => openList[j] # openList[k]
  BY ListedFacts
<1>3. \A k \in DOMAIN openList : openList[k] # call.hid
  BY DEF Inv, OpeningInv, ListInv, Listed
<1>4. openList \in Seq(Hid \ {call.hid})
  BY <1>2, <1>3
<1>5. /\ IsFiniteSet(Hid \ {call.hid})
      /\ Cardinality(Hid \ {call.hid}) = Cardinality(Hid) - 1
  BY <1>1, FS_RemoveElement DEF RoomForAll
<1>6. Len(openList) <= Cardinality(Hid) - 1
  BY <1>2, <1>4, <1>5, DistinctFit
<1>7. Cardinality(Hid) \in Nat /\ Len(openList) \in Nat
  BY <1>2, FS_CardinalityType DEF RoomForAll
<1>8. Len(openList) < MaxOpen
  BY <1>6, <1>7, BoundsAreNumbers DEF RoomForAll
<1> QED  BY <1>8 DEF AddOpenDevice

\* An object stays listed until it is closed.
LEMMA ListKept ==
    ASSUME Inv, [Next]_vars, NEW h \in Hid, Listed(h)
    PROVE  Listed(h)' \/ HidClose(h)
<1>1. TypeOK /\ ListInv
  BY DEF Inv, OpeningInv
<1>2. UNCHANGED openList => Listed(h)'
  BY DEF Listed
<1>3. CASE UNCHANGED vars \/ Environment \/ HidInit \/ HidCleanup
  BY <1>2, <1>3 DEF vars, Environment, HidInit, HidCleanup
<1>4. ASSUME NEW g \in Hid, NEW m,
             NewHIDInterface(g) \/ DeleteHIDInterface(g) \/ OpenRejected(g, m)
      PROVE  Listed(h)'
  BY <1>2, <1>4 DEF NewHIDInterface, DeleteHIDInterface, OpenRejected
<1>5. ASSUME NEW g \in Hid, HidClose(g)
      PROVE  Listed(h)' \/ g = h
  BY <1>5, OthersStayListed DEF HidClose
<1>6. ASSUME NEW g, NEW i, NEW m, NEW force, NEW n, OpenBegin(g, i, m, force, n)
      PROVE  Listed(h)'
  BY <1>2, <1>6 DEF OpenBegin
<1>7. CASE \/ \E code : ScanFails(code)
           \/ \E x \in Handle : ScanOpen(x)
           \/ ScanClaim \/ ScanClose
  BY <1>2, <1>7 DEF ScanFails, ScanOpen, ScanClaim, ScanClose
<1>8. CASE Preparing
  BY <1>2, <1>8, PreparingKeeps
<1>9. CASE PrepareReportDescriptor /\ pc' = "idle"
  <2>1. /\ call.hid \in Hid
        /\ openList' = AddOpenDevice(openList, call.hid)
    BY <1>1, <1>9, CallType DEF PrepareReportDescriptor, Goto
  <2>2. \/ openList' = openList
        \/ /\ DOMAIN openList' = 1..(Len(openList) + 1)
           /\ \A k \in DOMAIN openList : openList'[k] = openList[k]
    BY <1>1, <2>1, AddOpenDeviceProps DEF TypeOK
  <2> QED  BY <1>1, <2>2 DEF Listed, TypeOK
<1>10. CASE GiveUp
  <2>1. call.hid \in Hid /\ call.hid # h /\ ForgetHid(call.hid)
    BY <1>1, <1>10, CallType DEF GiveUp, ListInv
  <2> QED  BY <2>1, OthersStayListed
<1>11. CASE Step
  BY <1>7, <1>8, <1>9, <1>10, <1>11, StepsOfACall
<1>12. CASE Client
  BY <1>3, <1>4, <1>5, <1>6, <1>12 DEF Client
<1> QED  BY <1>3, <1>11, <1>12 DEF Next

-----------------------------------------------------------------------------
(* Who is open.                                                            *)

\* Behind NoReopen: every object that is open between calls is listed.
RoomInv == \A h \in Hid : IsOpened(h) /\ Between(h) => Listed(h)

\* Where an object stands before the step after which it is open.
LEMMA OpenedBefore ==
    ASSUME Inv, [Next]_vars, NEW h \in Hid, IsOpened(h)', Between(h)'
    PROVE  \/ IsOpened(h) /\ Between(h) /\ ~HidClose(h)
           \/ PrepareReportDescriptor /\ pc' = "idle" /\ h = call.hid
<1> USE DEF Goto, Scanning, Holding, IsOpened, Between
<1>1. TypeOK /\ CallInv /\ OpenedIsWhole
  BY DEF Inv, OpeningInv
<1>2. devHandle \in [Hid -> Handle \cup {NULL}]
  BY <1>1 DEF TypeOK
<1>3. UNCHANGED <<devHandle, pc, call>> => IsOpened(h) /\ Between(h)
  OBVIOUS
<1>4. ~HidClose(h)
  BY <1>2 DEF HidClose, ForgetHid, ResetHid
<1>5. CASE UNCHANGED vars \/ Environment \/ HidInit \/ HidCleanup
  BY <1>3, <1>4, <1>5 DEF vars, hidVars, Environment, HidInit, HidCleanup
<1>6. ASSUME NEW g \in Hid, NEW m,
             \/ NewHIDInterface(g) \/ DeleteHIDInterface(g)
             \/ HidClose(g) \/ OpenRejected(g, m)
      PROVE  IsOpened(h) /\ Between(h)
  <2>1. pc = "idle" /\ (devHandle' = devHandle \/ devHandle' = [devHandle EXCEPT ![g] = NULL])
    BY <1>6 DEF NewHIDInterface, DeleteHIDInterface, HidClose, OpenRejected, ForgetHid, ResetHid,
       hidVars
  <2> QED  BY <1>2, <2>1
<1>7. ASSUME NEW g, NEW i, NEW m, NEW force, NEW n, OpenBegin(g, i, m, force, n)
      PROVE  IsOpened(h) /\ Between(h)
  BY <1>7 DEF OpenBegin
<1>8. CASE GiveUp \/ \E code : ScanFails(code)
  <2>1. call.hid \in Hid /\ devHandle' = [devHandle EXCEPT ![call.hid] = NULL]
    BY <1>1, <1>8, CallType DEF GiveUp, ScanFails, ForgetHid, ResetHid
  <2> QED  BY <1>2, <1>4, <2>1
<1>9. CASE ScanClaim \/ ScanClose \/ \E x \in Handle : ScanOpen(x)
  <2>1. call \in Call /\ call.hid \in Hid /\ pc # "idle" /\ pc' # "idle"
    BY <1>1, <1>9, CallType DEF ScanClaim, ScanClose, ScanOpen
  <2>2. call'.hid = call.hid
    BY <1>9, <2>1 DEF ScanClaim, ScanClose, ScanOpen, Call
  <2>3. \/ devHandle' = devHandle
        \/ devHandle' = [devHandle EXCEPT ![call.hid] = call.handle]
    BY <1>9 DEF ScanClaim, ScanClose, ScanOpen, hidVars
  <2> QED  BY <1>2, <1>4, <2>1, <2>2, <2>3
<1>10. CASE Preparing
  BY <1>4, <1>10, PreparingKeeps
<1>11. CASE PrepareReportDescriptor /\ pc' = "idle"
  BY <1>4, <1>11 DEF PrepareReportDescriptor, hidVars
<1>12. CASE Step
  BY <1>8, <1>9, <1>10, <1>11, <1>12, StepsOfACall
<1>13. CASE Client
  BY <1>4, <1>5, <1>6, <1>7, <1>13 DEF Client
<1> QED  BY <1>5, <1>12, <1>13 DEF Next

LEMMA RoomStep ==
    ASSUME RoomForAll, Inv, RoomInv, [Next]_vars PROVE RoomInv'
<1> SUFFICES ASSUME NEW h \in Hid, IsOpened(h)', Between(h)' PROVE Listed(h)'
  BY DEF RoomInv
<1>1. CASE IsOpened(h) /\ Between(h) /\ ~HidClose(h)
  BY <1>1, ListKept DEF RoomInv
<1>2. CASE PrepareReportDescriptor /\ pc' = "idle" /\ h = call.hid
  <2>1. openList' = Append(openList, h)
    BY <1>2, RoomForOneMore DEF PrepareReportDescriptor, Goto
  <2>2. openList \in Seq(Hid)
    BY ListedFacts
  <2>3. Len(openList) + 1 \in DOMAIN openList' /\ openList'[Len(openList) + 1] = h
    BY <2>1, <2>2
  <2> QED  BY <2>3 DEF Listed
<1> QED  BY <1>1, <1>2, OpenedBefore

LEMMA RoomInvariant ==
    ASSUME RoomForAll PROVE Spec => [](Inv /\ RoomInv)
<1>1. Init => RoomInv
  BY DEF Init, RoomInv, IsOpened
<1>2. Inv /\ RoomInv /\ [Next]_vars => RoomInv'
  BY RoomStep
<1> QED  BY <1>1, <1>2, InvAlways, PTL DEF Spec

LEMMA OpenTargetsDiffer ==
    ASSUME Inv, RoomInv PROVE NoReopen
<1> SUFFICES ASSUME NEW g \in Hid, NEW h \in Hid, g # h, IsOpened(g), IsOpened(h)
             PROVE  Target(g) # Target(h)
  BY DEF NoReopen
<1>1. TypeOK /\ CallInv /\ ListInv
  BY DEF Inv, OpeningInv
<1>2. ASSUME Listed(g), Listed(h)
      PROVE  Target(g) # Target(h)
  BY <1>1, <1>2 DEF Listed, ListInv, ExclusiveListed
<1>3. ASSUME NEW b \in Hid, Listed(b), ~Between(call.hid), IsOpened(call.hid)
      PROVE  Target(b) # Target(call.hid)
  <2>1. pc \in Holding
    BY <1>1, <1>3 DEF TypeOK, CallInv, Between
  <2> QED  BY <1>1, <1>3, <2>1 DEF ListInv, Listed
<1>4. \/ Between(g) /\ Between(h)
      \/ Between(g) /\ h = call.hid /\ ~Between(h)
      \/ Between(h) /\ g = call.hid /\ ~Between(g)
  BY DEF Between
<1> QED  BY <1>2, <1>3, <1>4 DEF RoomInv

\* Where MAX_OPEN_DEVICES is enough for all objects, no two of them are open
\* on the same interface of the same device, during an open as between calls.
THEOREM NothingReopened ==
    ASSUME RoomForAll PROVE Spec => []NoReopen
<1>1. Inv /\ RoomInv => NoReopen
  BY OpenTargetsDiffer
<1> QED  BY <1>1, RoomInvariant, PTL

-----------------------------------------------------------------------------
(* Opening implements DeviceOwnership, but for its fairness.               *)

\* The refinement mapping of Ownership, object by object
PhaseOf(h) == IF ~Between(h) THEN "opening" ELSE IF IsOpened(h) THEN "open" ELSE "closed"
OwnsOf(h) == IF Between(h) /\ IsOpened(h) THEN Target(h) ELSE NULL

Stays(h) == PhaseOf(h)' = PhaseOf(h) /\ OwnsOf(h)' = OwnsOf(h)

\* A move of one object, as DeviceOwnership allows it
Moves(h) ==
    \/ PhaseOf(h) = "closed" /\ PhaseOf(h)' = "opening" /\ OwnsOf(h)' = OwnsOf(h)
    \/ PhaseOf(h) = "opening" /\ PhaseOf(h)' = "closed" /\ OwnsOf(h)' = OwnsOf(h)
    \/ PhaseOf(h) = "open" /\ PhaseOf(h)' = "closed" /\ OwnsOf(h)' = NULL
    \/ /\ PhaseOf(h) = "opening" /\ PhaseOf(h)' = "open"
       /\ \E r \in Device \X Iface : OwnsOf(h)' = r /\ \A b \in Hid : OwnsOf(b) # r

\* Steps that move an object of the abstract specification move no other.
OneMoves(c) == Moves(c) /\ \A h \in Hid \ {c} : Stays(h)

\* A step between calls leaves the objects where they are that stay open, or
\* are not open before and after.
LEMMA BetweenCalls ==
    ASSUME Inv, [Next]_vars, pc = "idle", pc' = "idle", NEW h \in Hid,
           ~(IsOpened(h) /\ HidClose(h))
    PROVE  Stays(h)
<1>1. CASE IsOpened(h)
  <2>1. ~HidClose(h) /\ ~GiveUp
    BY <1>1 DEF GiveUp
  <2>2. devHandle'[h] = devHandle[h] /\ Target(h)' = Target(h)
    BY <1>1, <2>1, OpenKept DEF Target
  <2>3. IsOpened(h)'
    BY <1>1, <2>2 DEF IsOpened
  <2> QED  BY <1>1, <2>2, <2>3 DEF Stays, PhaseOf, OwnsOf, Between
<1>2. CASE ~IsOpened(h)
  <2>1. ~IsOpened(h)'
    <3>1. Between(h)' /\ ~PrepareReportDescriptor
      BY DEF Between, PrepareReportDescriptor
    <3> QED  BY <1>2, <3>1, OpenedBefore
  <2> QED  BY <1>2, <2>1 DEF Stays, PhaseOf, OwnsOf, Between
<1> QED  BY <1>1, <1>2

\* A step of a call, but for its last one, moves nothing.
LEMMA WithinACall ==
    ASSUME Inv, [Next]_vars, pc # "idle", pc' # "idle", NEW h \in Hid
    PROVE  Stays(h)
<1>1. call'.hid = call.hid
  BY SameObject
<1>2. CASE h = call.hid
  BY <1>1, <1>2 DEF Stays, PhaseOf, OwnsOf, Between
<1>3. CASE h # call.hid /\ IsOpened(h)
  <2>1. ~HidClose(h)
    BY DEF HidClose
  <2>2. devHandle'[h] = devHandle[h] /\ Target(h)' = Target(h)
    BY <1>3, <2>1, OpenKept DEF Target
  <2>3. IsOpened(h)'
    BY <1>3, <2>2 DEF IsOpened
  <2> QED  BY <1>1, <1>3, <2>2, <2>3 DEF Stays, PhaseOf, OwnsOf, Between
<1>4. CASE h # call.hid /\ ~IsOpened(h)
  <2>1. Between(h)'
    BY <1>1, <1>4 DEF Between
  <2>2. ~IsOpened(h)'
    BY <1>4, <2>1, OpenedBefore
  <2> QED  BY <1>4, <2>1, <2>2 DEF Stays, PhaseOf, OwnsOf, Between
<1> QED  BY <1>2, <1>3, <1>4

\* hid_open begins: its object, closed so far, is opening.
LEMMA CallBegins ==
    ASSUME Inv, NEW c \in Hid, NEW i \in Iface, NEW m, NEW force, NEW n,
           OpenBegin(c, i, m, force, n)
    PROVE  OneMoves(c)
<1>1. /\ pc = "idle" /\ pc' = "scan" /\ call'.hid = c /\ ~IsOpened(c)
      /\ devHandle' = devHandle /\ device' = device
      /\ interface' = [interface EXCEPT ![c] = i]
  BY DEF OpenBegin, Goto
<1>2. interface \in [Hid -> Iface \cup {NULL}]
  BY DEF Inv, TypeOK
<1>3. Moves(c)
  BY <1>1 DEF Moves, PhaseOf, OwnsOf, Between
<1>4. ASSUME NEW h \in Hid \ {c}
      PROVE  Stays(h)
  <2>1. Target(h)' = Target(h) /\ (IsOpened(h)' <=> IsOpened(h)) /\ Between(h) /\ Between(h)'
    BY <1>1, <1>2 DEF Target, IsOpened, Between
  <2> QED  BY <2>1 DEF Stays, PhaseOf, OwnsOf
<1> QED  BY <1>3, <1>4 DEF OneMoves

\* hid_open returns: its object is open, on what no other object has, or not.
LEMMA CallEnds ==
    ASSUME Inv, RoomInv, [Next]_vars, NEW c \in Hid, c = call.hid, pc # "idle", pc' = "idle"
    PROVE  OneMoves(c)
<1>1. ~Between(c) /\ Between(c)'
  BY DEF Between
<1>2. \A h \in Hid : ~HidClose(h)
  BY DEF HidClose
<1>3. ASSUME NEW h \in Hid \ {c}
      PROVE  Stays(h)
  <2>1. Between(h) /\ Between(h)'
    BY <1>3 DEF Between
  <2>2. CASE IsOpened(h)
    <3>1. devHandle'[h] = devHandle[h] /\ Target(h)' = Target(h)
      BY <1>2, <2>2, OpenKept DEF Target
    <3>2. IsOpened(h)'
      BY <2>2, <3>1 DEF IsOpened
    <3> QED  BY <2>1, <2>2, <3>1, <3>2 DEF Stays, PhaseOf, OwnsOf
  <2>3. CASE ~IsOpened(h)
    <3>1. ~IsOpened(h)'
      BY <2>1, <2>3, OpenedBefore
    <3> QED  BY <2>1, <2>3, <3>1 DEF Stays, PhaseOf, OwnsOf
  <2> QED  BY <2>2, <2>3
<1>4. ASSUME ~IsOpened(c)' PROVE Moves(c)
  BY <1>1, <1>4 DEF Moves, PhaseOf, OwnsOf, Between, IsOpened
<1>5. ASSUME IsOpened(c)' PROVE Moves(c)
  <2>1. PrepareReportDescriptor
    BY <1>1, <1>5, OpenedBefore
  <2>2. IsOpened(c)
    BY <2>1 DEF PrepareReportDescriptor, Inv, OpeningInv, CallInv, Holding
  <2>3. Target(c)' = Target(c)
    BY <1>2, <2>1, <2>2, OpenKept DEF Target, GiveUp, PrepareReportDescriptor
  <2>4. Target(c) \in Device \X Iface
    BY <2>2 DEF Inv, OpeningInv, OpenedIsWhole, Target
  <2>5. \A b \in Hid : OwnsOf(b) # Target(c)
    <3>1. NULL # Target(c)
      BY <2>2, NullIsNoTarget DEF Inv, OpeningInv, OpenedIsWhole, Target
    <3> QED  BY <1>1, <2>2, <3>1, OpenTargetsDiffer DEF NoReopen, OwnsOf
  <2>6. PhaseOf(c) = "opening" /\ PhaseOf(c)' = "open" /\ OwnsOf(c)' = Target(c)
    BY <1>1, <1>5, <2>3 DEF PhaseOf, OwnsOf, Between, IsOpened
  <2> QED  BY <2>4, <2>5, <2>6 DEF Moves
<1> QED  BY <1>3, <1>4, <1>5 DEF OneMoves

LEMMA OneMovesAtMost ==
    ASSUME Inv, RoomInv, [Next]_vars
    PROVE  (\A h \in Hid : Stays(h)) \/ \E c \in Hid : OneMoves(c)
<1>1. CASE pc = "idle" /\ pc' = "idle"
  <2>1. CASE \E c \in Hid : IsOpened(c) /\ HidClose(c)
    <3>1. PICK c \in Hid : IsOpened(c) /\ HidClose(c)
      BY <2>1
    <3>2. ~IsOpened(c)'
      BY <3>1 DEF HidClose, ForgetHid, ResetHid, IsOpened, Inv, TypeOK
    <3>3. Moves(c)
      BY <1>1, <3>1, <3>2 DEF Moves, PhaseOf, OwnsOf, Between
    <3>4. ASSUME NEW h \in Hid \ {c}
          PROVE  ~(IsOpened(h) /\ HidClose(h))
      <4>1. devHandle'[h] = devHandle[h]
        BY <3>1 DEF HidClose, ForgetHid, ResetHid, Inv, TypeOK
      <4>2. HidClose(h) => devHandle'[h] = NULL
        BY DEF HidClose, ForgetHid, ResetHid, Inv, TypeOK
      <4> QED  BY <4>1, <4>2 DEF IsOpened
    <3> QED  BY <1>1, <3>3, <3>4, BetweenCalls DEF OneMoves
  <2> QED  BY <1>1, <2>1, BetweenCalls
<1>2. CASE pc # "idle" /\ pc' # "idle"
  BY <1>2, WithinACall
<1>3. CASE pc = "idle" /\ pc' # "idle"
  <2>1. \E c \in Hid, i \in Iface, m \in Matcher, force \in BOOLEAN, n \in Nat :
           OpenBegin(c, i, m, force, n)
    BY <1>3, IdleAfter, PreparingKeeps DEF vars, Environment, ScanOpen, ScanClaim, ScanClose, Holding
  <2> QED  BY <2>1, CallBegins
<1>4. CASE pc # "idle" /\ pc' = "idle"
  <2>1. call.hid \in Hid
    BY <1>4, CallType DEF Inv
  <2> QED  BY <1>4, <2>1, CallEnds
<1> QED  BY <1>1, <1>2, <1>3, <1>4

\* The refinement mapping, as functions
LEMMA OwnershipMapping ==
    /\ Ownership!OwnInit <=> /\ [h \in Hid |-> PhaseOf(h)] = [h \in Hid |-> "closed"]
                            /\ [h \in Hid |-> OwnsOf(h)] = [h \in Hid |-> NULL]
    /\ (\A h \in Hid : Stays(h)) => UNCHANGED Ownership!ownVars
    /\ \A c \in Hid : OneMoves(c) => Ownership!OwnNext
<1>1. Ownership!OwnInit <=> /\ [h \in Hid |-> PhaseOf(h)] = [h \in Hid |-> "closed"]
                            /\ [h \in Hid |-> OwnsOf(h)] = [h \in Hid |-> NULL]
  BY DEF Ownership!OwnInit, PhaseOf, OwnsOf
<1>2. (\A h \in Hid : Stays(h)) => UNCHANGED Ownership!ownVars
  BY DEF Ownership!ownVars, Stays, PhaseOf, OwnsOf
<1>3. ASSUME NEW c \in Hid, OneMoves(c)
      PROVE  Ownership!OwnNext
  <2> DEFINE phase == [h \in Hid |-> PhaseOf(h)]
             owns == [h \in Hid |-> OwnsOf(h)]
  <2>1. /\ phase' = [phase EXCEPT ![c] = PhaseOf(c)']
        /\ owns' = [owns EXCEPT ![c] = OwnsOf(c)']
        /\ \A h \in Hid : phase[h] = PhaseOf(h) /\ owns[h] = OwnsOf(h)
    BY <1>3 DEF OneMoves, Stays
  <2>2. OwnsOf(c)' = OwnsOf(c) => owns' = owns
    BY <2>1
  <2> HIDE DEF phase, owns
  <2>3. /\ phase[c] = PhaseOf(c)
        /\ \A b \in Hid : owns[b] = OwnsOf(b)
    BY <2>1
  <2>4. CASE PhaseOf(c) = "closed" /\ PhaseOf(c)' = "opening" /\ OwnsOf(c)' = OwnsOf(c)
    <3>1. phase[c] = "closed" /\ phase' = [phase EXCEPT ![c] = "opening"] /\ owns' = owns
      BY <2>1, <2>2, <2>3, <2>4
    <3> QED  BY <3>1 DEF phase, owns, PhaseOf, OwnsOf, Ownership!OwnNext, Ownership!Request
  <2>5. CASE PhaseOf(c) = "opening" /\ PhaseOf(c)' = "closed" /\ OwnsOf(c)' = OwnsOf(c)
    <3>1. phase[c] = "opening" /\ phase' = [phase EXCEPT ![c] = "closed"] /\ owns' = owns
      BY <2>1, <2>2, <2>3, <2>5
    <3> QED  BY <3>1 DEF phase, owns, PhaseOf, OwnsOf, Ownership!OwnNext, Ownership!Answer,
             Ownership!Refuse
  <2>6. CASE PhaseOf(c) = "open" /\ PhaseOf(c)' = "closed" /\ OwnsOf(c)' = NULL
    <3>1. /\ phase[c] = "open" /\ phase' = [phase EXCEPT ![c] = "closed"]
          /\ owns' = [owns EXCEPT ![c] = NULL]
      BY <2>1, <2>3, <2>6
    <3> QED  BY <3>1 DEF phase, owns, PhaseOf, OwnsOf, Ownership!OwnNext, Ownership!Release
  <2>7. ASSUME PhaseOf(c) = "opening", PhaseOf(c)' = "open", NEW r \in Device \X Iface,
               OwnsOf(c)' = r, \A b \in Hid : OwnsOf(b) # r
        PROVE  Ownership!OwnNext
    <3>1. /\ phase[c] = "opening" /\ phase' = [phase EXCEPT ![c] = "open"]
          /\ owns' = [owns EXCEPT ![c] = r] /\ \A b \in Hid : owns[b] # r
      BY <2>1, <2>3, <2>7
    <3> QED  BY <3>1 DEF phase, owns, PhaseOf, OwnsOf, Ownership!OwnNext, Ownership!Answer,
             Ownership!Grant
  <2> QED  BY <1>3, <2>4, <2>5, <2>6, <2>7 DEF OneMoves, Moves
<1> QED  BY <1>1, <1>2, <1>3

\* hid_open and hid_close do what DeviceOwnership says: an interface is granted
\* to a client that asked for it, if nobody else has it, and is given back by
\* its owner.  That each request is answered is a liveness property.
THEOREM OpeningIsOwnership ==
    ASSUME RoomForAll PROVE Spec => Ownership!OwnSafety
<1>1. Init => Ownership!OwnInit
  BY OwnershipMapping DEF Init, PhaseOf, OwnsOf, Between, IsOpened
<1>2. Inv /\ RoomInv /\ [Next]_vars => [Ownership!OwnNext]_Ownership!ownVars
  BY OneMovesAtMost, OwnershipMapping
<1> QED  BY <1>1, <1>2, RoomInvariant, PTL DEF Spec, Ownership!OwnSafety
=============================================================================
