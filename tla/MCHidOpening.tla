---------------------------- MODULE MCHidOpening ----------------------------
(***************************************************************************)
(* Small instances of HidOpening: two devices, whose IDs differ in a bit,  *)
(* and clients that ask for anything, for an ID, or through a custom       *)
(* matching function.                                                      *)
(***************************************************************************)
EXTENDS HidOpening

CONSTANTS d1, d2, low, high

MCBit == {low, high}

\* The vendor of d2 has all the bits of the vendor of d1.
MCVendorId == [d \in Device |-> IF d = d1 THEN {low} ELSE {low, high}]
MCProductId == [d \in Device |-> {low}]

Anything == [vendor |-> {}, product |-> {}, accepts |-> Device]
OnlySecond == [vendor |-> {high}, product |-> {low}, accepts |-> Device]
OnlyFirst == [vendor |-> {}, product |-> {}, accepts |-> Device \ {d2}]

AnyMatcher == {Anything}
TwoMatchers == {OnlyFirst, OnlySecond}

Interchangeable ==
    Permutations(Hid) \cup Permutations(Handle) \cup Permutations(Iface)

\* ret is read by no action, nor by a property of the run that has this VIEW.
AllButRet == <<usbVars, initialised, hidVars, openList, pc, call>>
=============================================================================
