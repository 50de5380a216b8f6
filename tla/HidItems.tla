------------------------------ MODULE HidItems ------------------------------
(***************************************************************************)
(* The items of a report descriptor (hidtypes.h) and the conversions that  *)
(* hidparser.c applies to their values.  An item stands for its bytes: tag *)
(* is Item & ITEM_MASK, width the number of data bytes, value the unsigned *)
(* number in them.  A descriptor is a sequence of items.                   *)
(***************************************************************************)
EXTENDS Integers, Sequences, FiniteSets, FiniteSetsExt, SequencesExt

MainTag == {"feature", "input", "output"}
\* The global items whose values HIDParse keeps in pParser->Data, and so
\* hands out with every object; the usage page and the report count it keeps
\* elsewhere in HIDParser.
DataTag == {"reportId", "reportSize", "unitExp", "unit",
            "logMin", "logMax", "phyMin", "phyMax"}

Item == [tag : MainTag \cup DataTag
               \cup {"usagePage", "reportCount", "usage", "collection", "end", "other"},
         width : {0, 1, 2, 4}, value : Nat]

\* HIDNode, a step of a HIDPath
Node == [page : Nat, usage : Nat]
NoUsage == [page |-> 0, usage |-> 0]
\* The usage page of the node that holds a collection's index
IndexPage == 255

\* How many values a ushort has
ShortSpan == 256 * 256

SignedByte(v) == IF v % 256 >= 128 THEN (v % 256) - 256 ELSE v % 256
SignedShort(v) ==
    IF v % ShortSpan >= ShortSpan \div 2 THEN (v % ShortSpan) - ShortSpan ELSE v % ShortSpan

FormatValue(v, width) ==
    IF width = 1 THEN SignedByte(v) ELSE IF width = 2 THEN SignedShort(v) ELSE v

\* The four bits of a unit exponent, once read as a char, are sign-extended.
UnitExponent(v) ==
    IF SignedByte(v) > 7 THEN (v % 16) - 16 ELSE SignedByte(v)

\* What is kept of the value of a global item.
Converted(item) ==
    CASE item.tag \in {"reportId", "reportSize", "reportCount"} -> item.value % 256
      [] item.tag = "usagePage" -> item.value % ShortSpan
      [] item.tag = "unitExp" -> UnitExponent(item.value)
      [] item.tag = "unit" -> item.value
      [] OTHER -> FormatValue(item.value, item.width)

\* A usage of four bytes brings its page along, a shorter one takes the page
\* in effect.
UsageNode(item, page) ==
    [page |-> IF item.width = 4 THEN item.value \div ShortSpan ELSE page,
     usage |-> item.value % ShortSpan]

\* The nodes a collection adds to the path: its usage, and its index if any.
CollectionNodes(item, usage) ==
    IF item.value >= 128
    THEN <<usage, [page |-> IndexPage, usage |-> item.value % 128]>>
    ELSE <<usage>>
=============================================================================
