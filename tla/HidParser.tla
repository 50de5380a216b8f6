----------------------------- MODULE HidParser ------------------------------
(***************************************************************************)
(* The report descriptor parser of one open interface: hidparser.c, with   *)
(* hid_prepare_parser and hid_find_object (hid_parsing.c) and              *)
(* hid_dump_tree (hid_presentation.c) on top of it.                        *)
(*                                                                         *)
(* A step is one turn of the loop in HIDParse; Pos counts items, not       *)
(* bytes.  Descriptors are assumed to be well formed (WellFormed), with no *)
(* more usages than USAGE_TAB_SIZE and reports than MAX_REPORT.  UsageTab  *)
(* is kept as the sequence of its used entries: all others are zero at     *)
(* every turn of the loop.  OffsetTab is a function from the reports       *)
(* entered in it; as an entry whose ID is 0 ends the table,                *)
(* GetReportOffset starts report 0 anew each time it is asked.             *)
(*                                                                         *)
(* For the slips among the definitions see HidOpening.                     *)
(***************************************************************************)
EXTENDS ReportFields

CONSTANTS
    None,           \* no call in progress, no item read yet
    Descriptor,     \* the report descriptors a device may have
    SearchPath,     \* the paths that clients look for
    PathSize,       \* PATH_SIZE
    Leftover        \* what malloc may leave in fields that nobody clears

ASSUME PathSizeIsNumber == PathSize \in Nat \ {0}

\* What HIDParse takes for granted: paths fit into PATH_SIZE, collections nest,
\* the page of a usage and the count of a main item have been set, and no
\* usage of a plain collection is on the page that marks an index.
WellFormed(d) ==
    /\ \A k \in 1..(Len(d) + 1) : Len(PathTo(d, k)) <= PathSize
    /\ \A k \in 1..Len(d) :
          /\ d[k].tag \in MainTag => /\ Len(PathTo(d, k)) < PathSize
                                    /\ GlobalAt(d, k, "reportCount") > 0
          /\ d[k].tag = "end" => OpenAt(d, k) # {}
          /\ d[k].tag = "usage" /\ d[k].width # 4
                => Tagged(d, {"usagePage"}, 1, k - 1) # {}
          /\ d[k].tag = "collection" /\ d[k].value < 128
                => UsageFor(d, k, 1).page # IndexPage

\* What FindObject and hid_dump_tree need besides to answer rightly: the last
\* item delivers nothing, reports are numbered, places in them fit into a byte,
\* and no path that is looked for goes on below a field.
Answerable(d) ==
    /\ d = <<>> \/ d[Len(d)].tag \notin MainTag
    /\ \A k \in Tagged(d, MainTag, 1, Len(d)) :
          /\ GlobalAt(d, k, "reportId") # 0
          /\ \A n \in 1..GlobalAt(d, k, "reportCount") :
                /\ Field(d, k, n).offset < 256
                /\ \A path \in SearchPath : ~ IsStrictPrefix(Field(d, k, n).path, path)

\* What the offset table needs: the bits of a report fit into its uchar.
OffsetsFit(d) ==
    \A k \in Tagged(d, MainTag, 1, Len(d)) :
        \A n \in 1..GlobalAt(d, k, "reportCount") :
            Field(d, k, n).offset + GlobalAt(d, k, "reportSize") < 256

ASSUME DescriptorsAreItems == Descriptor \subseteq Seq(Item)
ASSUME DescriptorsAreWellFormed == \A d \in Descriptor : WellFormed(d)
ASSUME PathsAreNodes ==
    SearchPath \subseteq {p \in Seq(Node) : Len(p) <= PathSize}
ASSUME LeftoverIsBytes == Leftover \subseteq 0..255

VARIABLES
    desc,           \* ReportDesc, ReportDescSize
    pos, item,      \* Pos, and Item with its Value
    count,          \* Count: how often the main item is still to be delivered
    page,           \* UPage
    reportCount,    \* ReportCount
    usages,         \* UsageTab, UsageSize
    offsetTab,      \* OffsetTab
    node, depth,    \* Data.Path
    data,           \* the rest of Data, by global item
    hidData,        \* hidif->hid_data
    call,           \* the parse in progress
    \* without counterparts in the code:
    given,          \* the objects it has handed to its caller
    meaning         \* the fields of desc

cleared == <<pos, count, usages, offsetTab, node, depth, data>>
parserVars == <<desc, cleared, item, page, reportCount>>
vars == <<parserVars, hidData, call, given, meaning>>

NoNodes == [k \in 1..PathSize |-> NoUsage]
NoData == [t \in DataTag |-> 0]

\* UPage is a ushort.
UShort == 0..(ShortSpan - 1)

\* HIDData
Object == [node : [1..PathSize -> Node], depth : 0..PathSize, type : MainTag,
           attribute : 0..255, offset : 0..255, data : [DataTag -> Int]]
PathOf(o) == SubSeq(o.node, 1, o.depth)

Call == [kind : {"first", "list"}]
            \cup [kind : {"find"}, path : SearchPath, type : MainTag]
ASSUME NoneIsNoCall == None \notin Call

TypeOK ==
    /\ desc \in Descriptor
    /\ pos \in 0..Len(desc)
    /\ item \in Item \cup {None}
    /\ count \in 0..255
    /\ page \in UShort
    /\ reportCount \in 0..255
    /\ usages \in Seq(Node)
    /\ DOMAIN offsetTab \subseteq (1..255) \X MainTag
    /\ \A r \in DOMAIN offsetTab : offsetTab[r] \in 0..255
    /\ node \in [1..PathSize -> Node]
    /\ depth \in 0..PathSize
    /\ data \in [DataTag -> Int]
    /\ hidData \in Object
    /\ call = None \/ call \in Call
    /\ given \in Seq(Object)

-----------------------------------------------------------------------------
(* HIDParse, one turn of its loop: the next item, or the same main item    *)
(* again as long as count says so.                                         *)

Current == IF count = 0 THEN desc[pos + 1] ELSE item

NextPos == IF count = 0 THEN pos + 1 ELSE pos

Turn(tags) ==
    /\ call # None
    /\ pos < Len(desc)
    /\ Current.tag \in tags
    /\ item' = Current
    /\ pos' = NextPos
    /\ UNCHANGED <<desc, meaning>>

\* UsageTab[0], which is zero if no usage is left
FirstUsage == IF usages = <<>> THEN NoUsage ELSE Head(usages)

UsagePageItem ==
    /\ Turn({"usagePage"})
    /\ page' = Converted(Current)
    /\ UNCHANGED <<count, reportCount, usages, offsetTab, node, depth, data,
                   hidData, call, given>>

UsageItem ==
    /\ Turn({"usage"})
    /\ usages' = Append(usages, UsageNode(Current, page))
    /\ UNCHANGED <<count, page, reportCount, offsetTab, node, depth, data,
                   hidData, call, given>>

CollectionItem ==
    LET added == CollectionNodes(Current, FirstUsage)
    IN
    /\ Turn({"collection"})
    /\ node' = [k \in 1..PathSize |-> IF k \in (depth + 1)..(depth + Len(added))
                                      THEN added[k - depth] ELSE node[k]]
    /\ depth' = depth + Len(added)
    /\ usages' = <<>>
    /\ UNCHANGED <<count, page, reportCount, offsetTab, data, hidData, call, given>>

PopTwo == depth - 2
PopOne == depth - 1
\* An index goes together with the collection below it on the path.
DepthAfterEnd == IF node[depth].page = IndexPage THEN depth - 2 ELSE depth - 1

EndCollectionItem ==
    /\ Turn({"end"})
    /\ depth' = DepthAfterEnd
    /\ usages' = <<>>
    /\ UNCHANGED <<count, page, reportCount, offsetTab, node, data,
                   hidData, call, given>>

DataItem ==
    /\ Turn(DataTag)
    /\ data' = [data EXCEPT ![Current.tag] = Converted(Current)]
    /\ UNCHANGED <<count, page, reportCount, usages, offsetTab, node, depth,
                   hidData, call, given>>

ReportCountItem ==
    /\ Turn({"reportCount"})
    /\ reportCount' = Converted(Current)
    /\ UNCHANGED <<count, page, usages, offsetTab, node, depth, data,
                   hidData, call, given>>

\* Items without a case, and long items, which are skipped.
OtherItem ==
    /\ Turn({"other"})
    /\ UNCHANGED <<count, page, reportCount, usages, offsetTab, node, depth, data,
                   hidData, call, given>>

-----------------------------------------------------------------------------
(* A main item delivers an object to the caller of HIDParse.               *)

ReportKey(type) == <<data["reportId"], type>>

\* *GetReportOffset
ReportOffset(key) == IF key \in DOMAIN offsetTab THEN offsetTab[key] ELSE 0

AddFirstOnly(key, size) ==
    IF key[1] = 0 \/ key \in DOMAIN offsetTab THEN offsetTab
    ELSE [k \in DOMAIN offsetTab \cup {key} |->
             IF k = key THEN size ELSE offsetTab[k]]
\* *GetReportOffset += Data.Size, in a uchar
AddToReport(key, size) ==
    IF key[1] = 0 THEN offsetTab
    ELSE [k \in DOMAIN offsetTab \cup {key} |->
             IF k = key THEN (ReportOffset(key) + size) % 256 ELSE offsetTab[k]]

Delivered ==
    [node |-> [node EXCEPT ![depth + 1] = FirstUsage],
     depth |-> depth + 1,
     type |-> Current.tag,
     attribute |-> Current.value % 256,
     offset |-> ReportOffset(ReportKey(Current.tag)),
     data |-> data]

CountKept == IF count = 0 THEN reportCount ELSE count
\* Count after Count--, in a uchar
CountLeft == ((IF count = 0 THEN reportCount ELSE count) - 1) % 256

KeepUsages == IF usages = <<>> THEN <<>> ELSE Tail(usages)
LastKept ==
    IF CountLeft = 0 THEN <<>> ELSE IF Len(usages) < 2 THEN usages ELSE Tail(usages)
UsagesLeft == IF usages = <<>> \/ CountLeft = 0 THEN <<>> ELSE Tail(usages)

AnyType(o) ==
    hidData.depth > 0 /\ \A k \in 1..hidData.depth : o.node[k] = hidData.node[k]
\* FindObject: by path, or else by ReportID and Offset
IsWanted(o) ==
    /\ o.type = hidData.type
    /\ \/ /\ hidData.depth > 0
          /\ \A k \in 1..hidData.depth : o.node[k] = hidData.node[k]
       \/ /\ o.data["reportId"] = hidData.data["reportId"]
          /\ o.offset = hidData.offset

\* What the callers of HIDParse do with an object: hid_prepare_parser stops at
\* the first one, hid_dump_tree writes each, FindObject returns the one it wants.
Deliver(o) ==
    \/ /\ call.kind = "first"
       /\ hidData' = o
       /\ call' = None
       /\ UNCHANGED given
    \/ /\ call.kind = "list"
       /\ hidData' = o
       /\ given' = Append(given, o)
       /\ UNCHANGED call
    \/ /\ call.kind = "find" /\ IsWanted(o)
       /\ hidData' = o
       /\ given' = <<o>>
       /\ call' = None
    \/ /\ call.kind = "find" /\ ~IsWanted(o)
       /\ UNCHANGED <<hidData, given, call>>

MainItem ==
    /\ Turn(MainTag)
    /\ count' = CountLeft
    /\ usages' = UsagesLeft
    /\ node' = Delivered.node
    /\ offsetTab' = AddToReport(ReportKey(Current.tag), data["reportSize"])
    /\ Deliver(Delivered)
    /\ UNCHANGED <<page, reportCount, depth, data>>

-----------------------------------------------------------------------------
(* The calls.                                                              *)

ResetParser ==
    /\ pos' = 0
    /\ count' = 0
    /\ usages' = <<>>
    /\ offsetTab' = <<>>
    /\ node' = NoNodes
    /\ depth' = 0
    /\ data' = NoData

HidFindObject(path, type) ==
    /\ call = None
    /\ hidData' = [hidData EXCEPT
                      !.node = [k \in 1..PathSize |->
                                   IF k <= Len(path) THEN path[k] ELSE @[k]],
                      !.depth = Len(path),
                      !.type = type,
                      !.data["reportId"] = 0]
    /\ call' = [kind |-> "find", path |-> path, type |-> type]
    /\ given' = <<>>
    /\ ResetParser
    /\ UNCHANGED <<desc, meaning, item, page, reportCount>>

HidDumpTree ==
    /\ call = None
    /\ call' = [kind |-> "list"]
    /\ given' = <<>>
    /\ ResetParser
    /\ UNCHANGED <<desc, meaning, item, page, reportCount, hidData>>

\* HIDParse finds nothing more; hid_dump_tree resets the parser once again.
Exhausted ==
    /\ call # None
    /\ pos = Len(desc)
    /\ call' = None
    /\ IF call.kind = "list" THEN ResetParser ELSE UNCHANGED cleared
    /\ UNCHANGED <<desc, meaning, item, page, reportCount, hidData, given>>

\* hid_init_parser and hid_prepare_parser up to the first turn of HIDParse.
\* malloc leaves UPage, ReportCount and hid_data as they are.
Init ==
    /\ desc \in Descriptor
    /\ meaning = Fields(desc)
    /\ pos = 0
    /\ item = None
    /\ count = 0
    /\ page \in Leftover
    /\ reportCount \in Leftover
    /\ usages = <<>>
    /\ offsetTab = <<>>
    /\ node = NoNodes
    /\ depth = 0
    /\ data = NoData
    /\ hidData \in [node : {NoNodes}, depth : {0}, type : {"input"},
                    attribute : {0}, offset : Leftover, data : {NoData}]
    /\ call = [kind |-> "first"]
    /\ given = <<>>

ParseStep ==
    \/ UsagePageItem
    \/ UsageItem
    \/ CollectionItem
    \/ EndCollectionItem
    \/ DataItem
    \/ ReportCountItem
    \/ OtherItem
    \/ MainItem
    \/ Exhausted

Next ==
    \/ ParseStep
    \/ \E path \in SearchPath, type \in MainTag : HidFindObject(path, type)
    \/ HidDumpTree

\* The parser waits for nobody.
Spec == Init /\ [][Next]_vars /\ WF_vars(ParseStep)

-----------------------------------------------------------------------------
(* What is promised.                                                       *)

\* At each turn the path holds the usages and indexes of just the collections
\* that are open there, however the parse came there: collections with and
\* without an index were taken off as they had been put on.
PathIsNesting == SubSeq(node, 1, depth) = PathTo(desc, pos + 1)

AsField(o) == [path |-> PathOf(o), type |-> o.type, attribute |-> o.attribute,
               offset |-> o.offset, data |-> o.data]

\* The parser implements FieldCatalogue: a tree dump writes each field that the
\* descriptor means, in order, and a search finds the first one that fits, or
\* nothing; whatever was parsed before, and each call returns.
Catalogue == INSTANCE FieldCatalogue WITH
    fields <- meaning,
    ask <- IF call = None \/ call = [kind |-> "first"] THEN None ELSE call,
    answer <- IF call = None THEN [k \in DOMAIN given |-> AsField(given[k])] ELSE <<>>

CatalogueSpec == Catalogue!CatalogueSpec

\* The offset table knows how many bits of each report have been delivered
\* since the parser was reset: what hid_get_report_size returns.
OffsetsAreSums ==
    call # None /\ call.kind = "list" =>
        \A r \in DOMAIN offsetTab :
            LET mine == {k \in DOMAIN given :
                            <<given[k].data["reportId"], given[k].type>> = r}
                Bits(k) == given[k].data["reportSize"]
            IN  offsetTab[r] = MapThenSumSet(Bits, mine)

\* What FindObject returns lies on the path that it was asked for.
FoundIsOnPath ==
    [][call # None /\ call.kind = "find" /\ given' # <<>>
         => IsPrefix(call.path, PathOf(given'[1]))]_vars
=============================================================================
