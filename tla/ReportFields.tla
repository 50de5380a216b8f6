---------------------------- MODULE ReportFields ----------------------------
(***************************************************************************)
(* What a report descriptor means: the fields of its reports, in the order *)
(* of the main items, each with its usage path, its place in its report    *)
(* and the globals in effect.  Everything is said of the descriptor as a   *)
(* whole, by looking back from a main item; HidParser computes it in one   *)
(* pass.  Where the offset of a field is more than hidparser.c can hold,   *)
(* this is the offset all the same (hidtypes.h:115).                       *)
(***************************************************************************)
EXTENDS HidItems

\* The members of a set of numbers, the least one first
Ascending(S) ==
    [n \in 1..Cardinality(S) |-> CHOOSE k \in S : Cardinality({j \in S : j <= k}) = n]

Tagged(d, tags, from, to) == {k \in from..to : d[k].tag \in tags}

\* The global that is in effect at position k, 0 if none has been set.
GlobalAt(d, k, tag) ==
    LET S == Tagged(d, {tag}, 1, k - 1)
    IN  IF S = {} THEN 0 ELSE Converted(d[Max(S)])

\* The usages of the item at k: those since the last main item, collection
\* or end of collection.
UsagesOf(d, k) ==
    LET before == Tagged(d, MainTag \cup {"collection", "end"}, 1, k - 1)
        here == Ascending(Tagged(d, {"usage"}, Max(before \cup {0}) + 1, k - 1))
    IN  [n \in DOMAIN here |-> UsageNode(d[here[n]], GlobalAt(d, here[n], "usagePage"))]

\* Fields beyond the usages have none, as in the tree dump recorded in
\* ref/test_libhid_output/Apple_Cinema_HD_Display.
UsageFor(d, k, n) ==
    LET us == UsagesOf(d, k)
    IN  IF n \in DOMAIN us THEN us[n] ELSE NoUsage

\* The collections that are open at position k, outermost first.
OpenAt(d, k) ==
    {c \in Tagged(d, {"collection"}, 1, k - 1) :
        \A e \in c..(k - 1) :
            Cardinality(Tagged(d, {"collection"}, c, e)) > Cardinality(Tagged(d, {"end"}, c, e))}

PathTo(d, k) ==
    LET open == Ascending(OpenAt(d, k))
    IN  FlattenSeq([j \in DOMAIN open |->
                       CollectionNodes(d[open[j]], UsageFor(d, open[j], 1))])

\* The bits of the fields before position k in the report of the item at k.
BitsBefore(d, k) ==
    LET SameReport(j) == /\ d[j].tag = d[k].tag
                         /\ GlobalAt(d, j, "reportId") = GlobalAt(d, k, "reportId")
        Bits(j) == GlobalAt(d, j, "reportCount") * GlobalAt(d, j, "reportSize")
    IN  MapThenSumSet(Bits, {j \in Tagged(d, MainTag, 1, k - 1) : SameReport(j)})

\* The n-th field of the main item at k.
Field(d, k, n) ==
    [path |-> Append(PathTo(d, k), UsageFor(d, k, n)),
     type |-> d[k].tag,
     attribute |-> d[k].value % 256,
     offset |-> BitsBefore(d, k) + (n - 1) * GlobalAt(d, k, "reportSize"),
     data |-> [t \in DataTag |-> GlobalAt(d, k, t)]]

Fields(d) ==
    LET mains == Ascending(Tagged(d, MainTag, 1, Len(d)))
    IN  FlattenSeq([j \in DOMAIN mains |->
                       [n \in 1..GlobalAt(d, mains[j], "reportCount") |->
                           Field(d, mains[j], n)]])
=============================================================================
