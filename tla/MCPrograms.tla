----------------------------- MODULE MCPrograms -----------------------------
(***************************************************************************)
(* A small instance of Programs: three devices that come and go, one of    *)
(* them no HID.                                                            *)
(***************************************************************************)
EXTENDS Programs

CONSTANTS d1, d2, d3, low, high

MCBit == {low, high}
MCVendorId == [d \in Device |-> IF d = d1 THEN {low} ELSE {low, high}]
MCProductId == [d \in Device |-> {low}]

\* the IDs of the second device
IdsOfSecond == {[vendor |-> {high}, product |-> {low}]}

MCMatcher ==
    {[vendor |-> ids.vendor, product |-> ids.product, accepts |-> A] :
        ids \in IdsOfSecond \cup {[vendor |-> {}, product |-> {}]},
        A \in SUBSET Device}

AllPrograms == {Lister, Detacher, Tester}
=============================================================================
