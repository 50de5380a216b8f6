------------------------------ MODULE HidValue ------------------------------
(***************************************************************************)
(* GetValue and SetValue (hidparser.c): the value of a field taken out of  *)
(* a report, and put into one.  A report is a sequence of bytes, the first *)
(* of which is its number; a field has a place and a logical range.        *)
(* Fields have fewer than 31 bits, so that 1<<Weight fits into an int.     *)
(***************************************************************************)
EXTENDS Integers, Sequences, FiniteSets, FiniteSetsExt

CONSTANTS
    Field,          \* the fields: [offset, size, logMin, logMax]
    Settable,       \* those of them that clients write to
    Report,         \* what a device may send
    Value           \* the values that clients write

ASSUME FieldType ==
    /\ Field \subseteq [offset : Nat, size : 1..30, logMin : Int, logMax : Int]
    /\ Settable \subseteq Field
ASSUME ReportType == Report \subseteq Seq(0..255)
ASSUME ValueType == Value \subseteq Int

VARIABLES
    buf,            \* the report
    last,           \* the last call: "get", "set", or "none"
    pData, val      \* its field and pData->Value

vars == <<buf, last, pData, val>>

-----------------------------------------------------------------------------
NoReportId(f) == f.offset
\* First byte of report indicate report ID
FirstBit(f) == f.offset + 8

\* Bit b of a sequence of bytes, bit w of a two's complement number
BitOf(bytes, b) == (bytes[(b \div 8) + 1] \div 2^(b % 8)) % 2
Digit(v, w) == (v \div 2^w) % 2

Bits(bytes, from, size) ==
    MapThenSumSet(LAMBDA w : BitOf(bytes, from + w) * 2^w, 0..(size - 1))

\* The bits of m that v has not got, for m, v >= 0 of at most 30 bits
Without(m, v) ==
    MapThenSumSet(LAMBDA w : IF Digit(v, w) = 0 THEN Digit(m, w) * 2^w ELSE 0, 0..29)

\* v | ~m
OrNot(v, m) == IF m >= 0 THEN -1 - Without(m, v) ELSE v + Without(-1 - m, v)

AsUnsigned(v, logMax) == v
Extended(v, logMax) == IF v > logMax THEN OrNot(v, logMax) ELSE v

GetValue(bytes, f) == Extended(Bits(bytes, FirstBit(f), f.size), f.logMax)

KeepByte(bytes, f, k) == bytes[k]
\* A byte is cleared when the field's bits reach its lowest one.
ByteBefore(bytes, f, k) ==
    IF 8 * (k - 1) \in FirstBit(f)..(FirstBit(f) + f.size - 1) THEN 0 ELSE bytes[k]

\* Each bit of the value is added at its weight modulo 8.
SetValue(bytes, f, v) ==
    [k \in DOMAIN bytes |->
        LET here == {w \in 0..(f.size - 1) : (FirstBit(f) + w) \div 8 = k - 1}
        IN  (ByteBefore(bytes, f, k)
                + MapThenSumSet(LAMBDA w : Digit(v, w) * 2^(w % 8), here)) % 256]

-----------------------------------------------------------------------------
Init == buf \in Report /\ last = "none" /\ pData = "none" /\ val = 0

Receive ==
    /\ buf' \in Report
    /\ last' = "none" /\ pData' = "none" /\ val' = 0

Get(f) ==
    /\ val' = GetValue(buf, f)
    /\ pData' = f
    /\ last' = "get"
    /\ UNCHANGED buf

Set(f, v) ==
    /\ v \in f.logMin..f.logMax
    /\ buf' = SetValue(buf, f, v)
    /\ pData' = f
    /\ val' = v
    /\ last' = "set"

Next ==
    \/ Receive
    \/ \E f \in Field : Get(f)
    \/ \E f \in Settable, v \in Value : Set(f, v)

Spec == Init /\ [][Next]_vars

-----------------------------------------------------------------------------
(* What is promised.                                                       *)

\* What the bits of a field stand for: a number, in two's complement if the
\* logical range has negative numbers.
Meaning(bytes, f) ==
    LET raw == Bits(bytes, 8 + f.offset, f.size)
    IN  IF f.logMin < 0 /\ raw >= 2^(f.size - 1) THEN raw - 2^f.size ELSE raw

\* Wherever a field lies, and however long and negative it is, GetValue takes
\* out what its bits mean, if that is in the logical range.
GetIsMeaning ==
    last = "get" /\ Meaning(buf, pData) \in pData.logMin..pData.logMax
        => val = Meaning(buf, pData)

\* GetValue gets what SetValue has set, over any earlier contents.
SetIsGot == last = "set" => GetValue(buf, pData) = val

Overlap(f, g) == g.offset + g.size > f.offset /\ f.offset + f.size > g.offset

\* SetValue touches neither the report's number nor other fields.
OthersKept ==
    [][last' = "set" =>
         /\ buf'[1] = buf[1]
         /\ \A g \in Field : Overlap(pData', g) \/ Meaning(buf', g) = Meaning(buf, g)]_vars

-----------------------------------------------------------------------------
(* What this depends on, and neither GetValue nor SetValue looks at.       *)

\* The bytes, counted from 0, that a field has bits in
BytesOf(f) == {b \div 8 : b \in FirstBit(f)..(FirstBit(f) + f.size - 1)}

\* Reports are as long as their fields ask for.
FieldsFit == \A r \in Report, f \in Field : FirstBit(f) + f.size <= 8 * Len(r)

\* What is written starts at a byte, and has no byte in common with other fields.
Aligned == \A f \in Settable : f.offset % 8 = 0
Apart == \A f \in Settable, g \in Field : Overlap(f, g) \/ BytesOf(f) \cap BytesOf(g) = {}

\* A logical range fits into the field, and ends, if it has negative numbers,
\* before a power of two that is as far as it goes below 0.
Representable(f) ==
    IF f.logMin < 0
    THEN \E j \in 0..(f.size - 1) : f.logMax = 2^j - 1 /\ f.logMin >= -(2^j)
    ELSE f.logMax < 2^f.size
=============================================================================
