----------------------------- MODULE MCHidWrap ------------------------------
(***************************************************************************)
(* A small instance of HidWrap: one device that comes and goes, and        *)
(* programs that ask for any device.                                       *)
(***************************************************************************)
EXTENDS HidWrap

CONSTANTS low

MCBit == {low}
MCVendorId == [d \in Device |-> {low}]
MCProductId == [d \in Device |-> {}]
AnyMatcher == {[vendor |-> {}, product |-> {}, accepts |-> Device]}

Interchangeable == Permutations(Hid) \cup Permutations(Handle)
=============================================================================
