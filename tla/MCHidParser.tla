---------------------------- MODULE MCHidParser -----------------------------
(***************************************************************************)
(* Small report descriptors for HidParser: an application collection whose *)
(* body is put together from a few segments, each of which exercises one   *)
(* way to write a field.                                                   *)
(***************************************************************************)
EXTENDS HidParser

An(tag, value) == [tag |-> tag, width |-> 1, value |-> value]
Long(page_, usage_) == [tag |-> "usage", width |-> 4, value |-> 65536 * page_ + usage_]
Short(tag, value) == [tag |-> tag, width |-> 2, value |-> value]
Use(u) == An("usage", u)
End == An("end", 0)
At(p, u) == [page |-> p, usage |-> u]

Segments == {
    \* a field, with a usage too many, which must not reach the next one
    <<Use(2), Use(3), An("input", 2)>>,
    <<Use(3), An("feature", 2)>>,
    \* a second report
    <<An("reportId", 2), Use(2), An("feature", 1)>>,
    \* a collection, plain and with an index, on another page
    <<Use(2), An("collection", 0), Use(3), An("feature", 2), End>>,
    <<An("usagePage", 2), Use(3), An("collection", 129), Use(2), An("feature", 2), End>>,
    <<Use(2), An("collection", 129), Use(3), An("collection", 0),
      An("reportSize", 4), Use(2), An("input", 2), End, End>>,
    \* several fields of one main item, without and with usages
    <<An("reportCount", 2), An("input", 3), An("reportCount", 1)>>,
    <<An("reportCount", 3), Use(2), Use(3), Use(2), An("feature", 2),
      An("reportCount", 1)>>,
    \* more fields than usages
    <<An("reportCount", 3), Use(3), Use(2), An("output", 2), An("reportCount", 1)>>,
    \* a usage with its own page, items that are passed over, signed globals
    <<Long(2, 3), An("other", 3), An("feature", 2)>>,
    <<An("logMin", 129), Short("logMax", 255),
      An("unitExp", 13), An("output", 2)>> }

Device(id, body) ==
    <<An("usagePage", 1), Use(1), An("collection", 1)>> \o id
        \o <<An("reportSize", 8), An("reportCount", 1)>> \o body \o <<End>>

\* Devices that number their reports, the normal case for this parser
Numbered == {Device(<<An("reportId", 1)>>, FlattenSeq(body)) :
                body \in BoundedSeq(Segments, 2)}

\* No path here goes on below a field: FindObject compares past
\* the end of a shorter path, with nodes left over from earlier fields.
ShortPaths == {<<>>, <<At(1, 1)>>, <<At(1, 1), At(1, 3)>>, <<At(1, 1), At(2, 3)>>,
               <<At(1, 1), At(1, 2)>>, <<At(2, 3)>>}

\* A device with a single report, which has no number
Unnumbered == {Device(<<>>, <<Use(2), An("feature", 2), Use(3), An("feature", 2)>>)}

\* The report descriptor of a monitor (ref/lsusb-vvv/Apple_Cinema_HD_Display):
\* its 257 bytes of EDID are one field to the parser.
CinemaDisplay ==
    <<An("usagePage", 128), Use(1), An("collection", 1), An("logMin", 0), Short("logMax", 255),
      An("reportSize", 8), An("reportId", 2), Short("reportCount", 257), Use(2),
      Short("feature", 258), An("usagePage", 130), An("reportCount", 2),
      An("reportId", 16), Use(16), An("feature", 2),
      An("logMax", 4), An("reportId", 214), Use(214), An("feature", 2),
      An("logMax", 7), An("reportId", 231), An("feature", 2),
      Short("logMax", 255), An("reportId", 228), An("input", 2), End>>

\* The tree dump of the program for this monitor, as the repository keeps it
\* (ref/test_libhid_output/Apple_Cinema_HD_Display:48-56), below At(128, 1).
RecordedDump ==
    <<<<At(128, 2), "feature">>, <<At(130, 16), "feature">>, <<NoUsage, "feature">>,
      <<At(130, 214), "feature">>, <<NoUsage, "feature">>, <<NoUsage, "feature">>,
      <<NoUsage, "feature">>, <<NoUsage, "input">>, <<NoUsage, "input">>>>

NumberedOrRecorded == Numbered \cup {CinemaDisplay}
ASSUME \A d \in NumberedOrRecorded : Answerable(d) /\ OffsetsFit(d)

\* Dumping the tree of that monitor writes the recorded lines, one by one and
\* all of them, whatever was searched for or dumped before.
DumpIsRecorded ==
    desc = CinemaDisplay /\ call # None /\ call.kind = "list" =>
        LET written == [k \in DOMAIN given |-> <<PathOf(given[k]), given[k].type>>]
            recorded == [k \in DOMAIN RecordedDump |->
                            <<<<At(128, 1), RecordedDump[k][1]>>, RecordedDump[k][2]>>]
        IN  /\ IsPrefix(written, recorded)
            /\ pos = Len(desc) => written = recorded
=============================================================================
