----------------------------- MODULE MCHidValue -----------------------------
(***************************************************************************)
(* Reports of a number and four bytes, with fields in all positions that   *)
(* matter: in a byte, across two bytes, two bytes long; signed and not.    *)
(***************************************************************************)
EXTENDS HidValue

Unsigned(offset, size) ==
    [offset |-> offset, size |-> size, logMin |-> 0, logMax |-> 2^size - 1]
Signed(offset, size) ==
    [offset |-> offset, size |-> size,
     logMin |-> -(2^(size - 1)), logMax |-> 2^(size - 1) - 1]

Bytes == {Signed(0, 8), Unsigned(8, 8), Signed(16, 16)}
Odd == {Signed(4, 4), Unsigned(5, 6), Signed(7, 10), Unsigned(31, 1)}
AllFields == Bytes \cup Odd

\* A field that does not start at a byte
Nibble == {Unsigned(4, 4)}

Reports == {<<1, 0, 0, 0, 0>>, <<2, 255, 255, 255, 255>>, <<1, 128, 156, 1, 254>>,
            <<1, 165, 90, 129, 64>>, <<1, 156, 0, 0, 0>>}

Values == {-32768, -300, -128, -1, 0, 1, 5, 100, 127, 128, 255, 300, 32767}

\* What the theorems presuppose holds here.
ASSUME Settable = Bytes =>
    FieldsFit /\ Aligned /\ Apart /\ \A f \in Field : Representable(f)
=============================================================================
