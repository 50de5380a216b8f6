-------------------------- MODULE HidParser_proofs --------------------------
(***************************************************************************)
(* Proofs about the report descriptor parser: in one pass over the items   *)
(* it keeps just the globals, usages, collections and bits of each report  *)
(* that ReportFields reads off the descriptor as a whole, for every        *)
(* well-formed descriptor and after any earlier parse, complete or cut     *)
(* short; and so it answers as FieldCatalogue promises, and its offset     *)
(* table adds up.                                                          *)
(***************************************************************************)
EXTENDS HidParser, ReportFields_proofs

\* The inductive invariant.  A main item that is still to be delivered is the
\* last one read.
PendingInv == count # 0 => pos # 0 /\ item = desc[pos] /\ item.tag \in MainTag

\* Between items the usages are those collected so far.
UsagesInv == count = 0 => usages = UsagesOf(desc, pos + 1)

\* The page is left over from before until the first usage page item.
PageSeen(d, k) == Tagged(d, {"usagePage"}, 1, k) # {}
PageInv == PageSeen(desc, pos) => page = GlobalAt(desc, pos + 1, "usagePage")

ReadInv == PendingInv /\ UsagesInv /\ PageInv /\ data["reportId"] \in 0..255

ParserInv == TypeOK /\ ReadInv /\ PathIsNesting

-----------------------------------------------------------------------------
(* The descriptor.                                                         *)

LEMMA DescriptorFacts ==
    ASSUME TypeOK
    PROVE  desc \in Seq(Item) /\ WellFormed(desc) /\ pos \in Nat /\ pos <= Len(desc)
                /\ Len(desc) \in Nat
BY DescriptorsAreItems, DescriptorsAreWellFormed DEF TypeOK

\* Other than main items are read just once, when no main item is pending.
LEMMA ReadsNext ==
    ASSUME ParserInv, NEW tags, Turn(tags), tags \cap MainTag = {}
    PROVE  /\ count = 0 /\ pos + 1 \in 1..Len(desc) /\ pos' = pos + 1 /\ desc' = desc
           /\ Current = desc[pos + 1] /\ Current \in Item /\ Current.tag \in tags
           /\ item' = Current /\ call # None
<1>1. desc \in Seq(Item) /\ pos \in Nat /\ Len(desc) \in Nat
  BY DescriptorFacts DEF ParserInv
<1>2. count = 0
  <2>1. count # 0 => Current = item /\ item.tag \in MainTag
    BY DEF ParserInv, ReadInv, PendingInv, Current
  <2> QED  BY <2>1 DEF Turn
<1>3. pos + 1 \in 1..Len(desc)
  BY <1>1 DEF Turn
<1>4. Current = desc[pos + 1] /\ NextPos = pos + 1
  BY <1>2 DEF Current, NextPos
<1> QED  BY <1>1, <1>2, <1>3, <1>4 DEF Turn

\* A main item is read anew, or is the last one read.
LEMMA ReadsMain ==
    ASSUME ParserInv, Turn(MainTag)
    PROVE  /\ desc' = desc /\ pos' \in 1..Len(desc) /\ Current = desc[pos']
           /\ Current \in Item /\ Current.tag \in MainTag /\ item' = Current
           /\ pos' = (IF count = 0 THEN pos + 1 ELSE pos) /\ call # None
<1>1. desc \in Seq(Item) /\ pos \in Nat /\ pos <= Len(desc) /\ Len(desc) \in Nat
  BY DescriptorFacts DEF ParserInv
<1>2. CASE count = 0
  <2>1. pos + 1 \in 1..Len(desc)
    BY <1>1 DEF Turn
  <2>2. Current = desc[pos + 1] /\ NextPos = pos + 1
    BY <1>2 DEF Current, NextPos
  <2> QED  BY <1>1, <1>2, <2>1, <2>2 DEF Turn
<1>3. CASE count # 0
  <2>1. pos \in 1..Len(desc) /\ Current = desc[pos] /\ NextPos = pos
    BY <1>1, <1>3 DEF Current, NextPos, ParserInv, ReadInv, PendingInv
  <2> QED  BY <1>1, <1>3, <2>1 DEF Turn
<1> QED  BY <1>2, <1>3

\* The nodes in use, when the descriptor's path has been kept.
LEMMA NodesInUse ==
    ASSUME TypeOK, PathIsNesting
    PROVE  /\ PathTo(desc, pos + 1) \in Seq(Node) /\ Len(PathTo(desc, pos + 1)) = depth
           /\ \A k \in 1..depth : PathTo(desc, pos + 1)[k] = node[k]
<1>1. desc \in Seq(Item) /\ pos + 1 \in 1..(Len(desc) + 1)
  BY DescriptorFacts
<1>2. PathTo(desc, pos + 1) \in Seq(Node)
  BY <1>1, PathType
<1>3. /\ Len(SubSeq(node, 1, depth)) = depth
      /\ \A k \in 1..depth : SubSeq(node, 1, depth)[k] = node[k]
  <2>1. depth \in Nat /\ \A k \in 1..depth : node[k] \in Node
    BY PathSizeIsNumber DEF TypeOK
  <2> QED  BY <2>1, SubSeqProperties
<1> QED  BY <1>2, <1>3 DEF PathIsNesting

\* Conversely, nodes that agree with a path of that length are the path.
LEMMA NodesArePath ==
    ASSUME NEW f, NEW p \in Seq(Node), \A k \in 1..Len(p) : f[k] = p[k]
    PROVE  SubSeq(f, 1, Len(p)) = p
<1>1. Len(p) \in Nat /\ \A k \in 1..Len(p) : f[k] \in Node
  BY ElementOfSeq
<1>2. /\ SubSeq(f, 1, Len(p)) \in Seq(Node) /\ Len(SubSeq(f, 1, Len(p))) = Len(p)
      /\ \A k \in 1..Len(p) : SubSeq(f, 1, Len(p))[k] = f[k]
  BY <1>1, SubSeqProperties
<1> QED  BY <1>2, SeqEqual

-----------------------------------------------------------------------------
(* What an item leaves alone.                                              *)

LEMMA PageStays ==
    ASSUME NEW d, NEW k \in Nat \ {0}, d[k].tag # "usagePage"
    PROVE  /\ Tagged(d, {"usagePage"}, 1, k) = Tagged(d, {"usagePage"}, 1, k - 1)
           /\ GlobalAt(d, k + 1, "usagePage") = GlobalAt(d, k, "usagePage")
<1>1. \A tag : d[k].tag # tag =>
          Tagged(d, {tag}, 1, k) = Tagged(d, {tag}, 1, k - 1)
  BY SeenStep
<1>2. \A tag : GlobalAt(d, k + 1, tag)
          = IF d[k].tag = tag THEN Converted(d[k]) ELSE GlobalAt(d, k, tag)
  BY GlobalStep
<1> QED  BY <1>1, <1>2, Zenon

LEMMA PageKept ==
    ASSUME ParserInv, NEW tags, Turn(tags), "usagePage" \notin tags,
           tags \cap MainTag = {}, page' = page
    PROVE  PageInv'
<1> DEFINE k == pos + 1
<1>1. /\ k \in Nat \ {0} /\ desc[k].tag # "usagePage" /\ desc' = desc /\ pos' = k
      /\ pos \in Nat
  <2>1. k \in 1..Len(desc) /\ desc' = desc /\ pos' = k /\ desc[k].tag \in tags
    BY ReadsNext
  <2> QED  BY <2>1, DescriptorFacts DEF ParserInv
<1>2. /\ Tagged(desc, {"usagePage"}, 1, k) = Tagged(desc, {"usagePage"}, 1, k - 1)
      /\ GlobalAt(desc, k + 1, "usagePage") = GlobalAt(desc, k, "usagePage")
  BY <1>1, PageStays
<1>3. k - 1 = pos
  BY <1>1
<1>4. PageSeen(desc, k) => PageSeen(desc, pos)
  BY <1>1, <1>2, <1>3 DEF PageSeen
<1>5. PageSeen(desc, pos) => page = GlobalAt(desc, k, "usagePage")
  BY DEF ParserInv, ReadInv, PageInv
<1> HIDE DEF k
<1> QED  BY <1>1, <1>2, <1>4, <1>5 DEF PageInv

LEMMA UsagesKept ==
    ASSUME ParserInv, NEW tags, Turn(tags), tags \cap (Ends \cup {"usage"}) = {},
           usages' = usages
    PROVE  UsagesInv'
<1>1. /\ count = 0 /\ pos + 1 \in 1..Len(desc) /\ pos' = pos + 1 /\ desc' = desc
      /\ desc[pos + 1].tag \in tags
  BY ReadsNext DEF Ends
<1>2. desc \in Seq(Item) /\ desc[pos + 1].tag \notin Ends \cup {"usage"}
  BY <1>1, DescriptorFacts DEF ParserInv
<1>3. UsagesOf(desc, (pos + 1) + 1) = UsagesOf(desc, pos + 1)
  BY <1>1, <1>2, UsagesStep
<1>4. usages = UsagesOf(desc, pos + 1)
  BY <1>1 DEF ParserInv, ReadInv, UsagesInv
<1> QED  BY <1>1, <1>3, <1>4 DEF UsagesInv

LEMMA PathKept ==
    ASSUME ParserInv, NEW tags, Turn(tags), tags \cap (MainTag \cup {"collection", "end"}) = {},
           node' = node, depth' = depth
    PROVE  PathIsNesting'
<1>1. /\ pos + 1 \in 1..Len(desc) /\ pos' = pos + 1 /\ desc' = desc
      /\ desc[pos + 1].tag \in tags
  BY ReadsNext
<1>2. desc \in Seq(Item) /\ desc[pos + 1].tag \notin {"collection", "end"}
  BY <1>1, DescriptorFacts DEF ParserInv
<1>3. PathTo(desc, (pos + 1) + 1) = PathTo(desc, pos + 1)
  BY <1>1, <1>2, PathStep
<1> QED  BY <1>1, <1>3 DEF ParserInv, PathIsNesting

-----------------------------------------------------------------------------
(* Types, variable by variable.                                            *)

OffsetTabType(tab) ==
    /\ DOMAIN tab \subseteq (1..255) \X MainTag
    /\ \A r \in DOMAIN tab : tab[r] \in 0..255

LEMMA TypesAfter ==
    ASSUME TypeOK,
           desc' = desc, pos' \in 0..Len(desc), item' = item \/ item' \in Item,
           count' = count \/ count' \in 0..255,
           page' = page \/ page' \in UShort,
           reportCount' = reportCount \/ reportCount' \in 0..255,
           usages' = usages \/ usages' \in Seq(Node),
           offsetTab' = offsetTab \/ OffsetTabType(offsetTab'),
           node' = node \/ node' \in [1..PathSize -> Node],
           depth' = depth \/ depth' \in 0..PathSize,
           data' = data \/ data' \in [DataTag -> Int],
           hidData' = hidData \/ hidData' \in Object,
           call' = call \/ call' = None \/ call' \in Call,
           given' = given \/ given' \in Seq(Object)
    PROVE  TypeOK'
<1>1. desc' \in Descriptor /\ pos' \in 0..Len(desc') /\ item' \in Item \cup {None}
  BY SMT DEF TypeOK
<1>2. count' \in 0..255 /\ page' \in UShort /\ reportCount' \in 0..255
  <2>1. count \in 0..255 /\ page \in UShort /\ reportCount \in 0..255
    BY DEF TypeOK
  <2>2. count' \in 0..255
    BY <2>1, ZenonT(60)
  <2>3. page' \in UShort
    BY <2>1, ZenonT(60)
  <2>4. reportCount' \in 0..255
    BY <2>1, ZenonT(60)
  <2> QED  BY <2>2, <2>3, <2>4, Zenon
<1>3. usages' \in Seq(Node)
  BY SMT DEF TypeOK
<1>4. OffsetTabType(offsetTab')
  <2>1. OffsetTabType(offsetTab)
    BY Zenon DEF TypeOK, OffsetTabType
  <2> QED  BY <2>1, Zenon
<1>5. node' \in [1..PathSize -> Node] /\ depth' \in 0..PathSize /\ data' \in [DataTag -> Int]
  <2>1. node \in [1..PathSize -> Node] /\ depth \in 0..PathSize /\ data \in [DataTag -> Int]
    BY DEF TypeOK
  <2> QED  BY <2>1, ZenonT(60)
<1>6. hidData' \in Object /\ (call' = None \/ call' \in Call) /\ given' \in Seq(Object)
  BY SMT DEF TypeOK
<1> QED  BY <1>1, <1>2, <1>3, <1>4, <1>5, <1>6, SMT DEF TypeOK, OffsetTabType

-----------------------------------------------------------------------------
(* One item each.                                                          *)

LEMMA PendingAfter ==
    ASSUME ParserInv, NEW tags, Turn(tags), tags \cap MainTag = {}, count' = count
    PROVE  PendingInv'
<1>1. count = 0
  BY ReadsNext
<1> QED  BY <1>1 DEF PendingInv

LEMMA ShortIsNat == \A s \in UShort : s \in Nat
BY ShortSpanIs DEF UShort

LEMMA PageConverted == \A i \in Item : i.tag = "usagePage" => Converted(i) \in UShort
<1> SUFFICES ASSUME NEW i \in Item, i.tag = "usagePage" PROVE Converted(i) \in UShort
  OBVIOUS
<1>1. PICK v \in Nat : Converted(i) = v % ShortSpan
  BY ConvertedType
<1> QED  BY <1>1, ShortSpanIs DEF UShort

LEMMA UsagePageKeeps ==
    ASSUME ParserInv, UsagePageItem
    PROVE  ParserInv'
<1>1. PICK tags : tags = {"usagePage"} /\ Turn(tags)
  BY DEF UsagePageItem
<1>2. tags \cap (MainTag \cup {"collection", "end"}) = {} /\ tags \cap (Ends \cup {"usage"}) = {}
  BY <1>1 DEF MainTag, Ends
<1>3. /\ pos + 1 \in 1..Len(desc) /\ pos' = pos + 1 /\ desc' = desc
      /\ Current = desc[pos + 1] /\ Current \in Item /\ Current.tag = "usagePage"
      /\ item' = Current /\ pos \in Nat
  BY <1>1, <1>2, ReadsNext, DescriptorFacts DEF ParserInv
<1>4. page' \in UShort
  BY <1>3, PageConverted, Zenon DEF UsagePageItem
<1>5. TypeOK'
  <2>1. pos' \in 0..Len(desc) /\ TypeOK
    BY <1>3 DEF ParserInv
  <2> QED  BY <1>3, <1>4, <2>1, TypesAfter, SMT DEF UsagePageItem
<1>6. PendingInv' /\ UsagesInv' /\ PathIsNesting'
  BY <1>1, <1>2, PendingAfter, UsagesKept, PathKept DEF UsagePageItem
<1>7. PageInv'
  <2>1. GlobalAt(desc, (pos + 1) + 1, "usagePage") = Converted(desc[pos + 1])
    <3>1. \A tag : GlobalAt(desc, (pos + 1) + 1, tag)
            = IF desc[pos + 1].tag = tag THEN Converted(desc[pos + 1])
              ELSE GlobalAt(desc, pos + 1, tag)
      <4>1. PICK k \in Nat \ {0} : k = pos + 1
        BY <1>3
      <4> QED  BY <4>1, GlobalStep
    <3> QED  BY <1>3, <3>1, Zenon
  <2> QED  BY <1>3, <2>1 DEF PageInv, UsagePageItem
<1> QED  BY <1>5, <1>6, <1>7 DEF ParserInv, ReadInv, UsagePageItem

LEMMA UsageKeeps ==
    ASSUME ParserInv, UsageItem
    PROVE  ParserInv'
<1>1. PICK tags : tags = {"usage"} /\ Turn(tags)
  BY DEF UsageItem
<1>2. tags \cap (MainTag \cup {"collection", "end"}) = {} /\ "usagePage" \notin tags
  BY <1>1 DEF MainTag
<1>3. /\ pos + 1 \in 1..Len(desc) /\ pos' = pos + 1 /\ desc' = desc
      /\ Current = desc[pos + 1] /\ Current \in Item /\ Current.tag = "usage"
      /\ item' = Current /\ count = 0 /\ pos \in Nat /\ desc \in Seq(Item)
      /\ WellFormed(desc)
  BY <1>1, <1>2, ReadsNext, DescriptorFacts DEF ParserInv
<1>4. page \in Nat /\ UsageNode(Current, page) \in Node
  <2>1. page \in UShort
    BY Zenon DEF ParserInv, TypeOK
  <2>2. page \in Nat
    BY <2>1, ShortIsNat, Zenon
  <2>3. PICK i \in Item : i = Current
    BY <1>3, Zenon
  <2> QED  BY <2>2, <2>3, UsageNodeType, Zenon
<1>5. usages' \in Seq(Node)
  <2>1. usages \in Seq(Node) /\ usages' = Append(usages, UsageNode(Current, page))
    BY DEF ParserInv, TypeOK, UsageItem
  <2> QED  BY <1>4, <2>1
<1>6. TypeOK'
  <2>1. pos' \in 0..Len(desc) /\ TypeOK
    BY <1>3 DEF ParserInv
  <2> QED  BY <1>3, <1>5, <2>1, TypesAfter, SMT DEF UsageItem
<1>7. PendingInv' /\ PageInv' /\ PathIsNesting'
  BY <1>1, <1>2, PendingAfter, PageKept, PathKept DEF UsageItem
<1>8. UsageNode(Current, page) = UsageNode(Current, GlobalAt(desc, pos + 1, "usagePage"))
  <2>1. CASE Current.width = 4
    BY <2>1 DEF UsageNode
  <2>2. CASE Current.width # 4
    <3>1. Tagged(desc, {"usagePage"}, 1, (pos + 1) - 1) # {}
      BY <1>3, <2>2 DEF WellFormed
    <3>2. PageSeen(desc, pos)
      BY <1>3, <3>1 DEF PageSeen
    <3> QED  BY <3>2 DEF ParserInv, ReadInv, PageInv
  <2> QED  BY <2>1, <2>2
<1>9. UsagesInv'
  <2>1. usages = UsagesOf(desc, pos + 1)
    BY <1>3 DEF ParserInv, ReadInv, UsagesInv
  <2>2. UsagesOf(desc, (pos + 1) + 1)
          = Append(UsagesOf(desc, pos + 1), UsageNode(desc[pos + 1], GlobalAt(desc, pos + 1, "usagePage")))
    BY <1>3, UsagesStep
  <2> QED  BY <1>3, <1>8, <2>1, <2>2 DEF UsagesInv, UsageItem
<1> QED  BY <1>6, <1>7, <1>9 DEF ParserInv, ReadInv, UsageItem

\* The usage that a collection or a field takes is the one it should take.
LEMMA FirstUsageIs ==
    ASSUME ParserInv
    PROVE  /\ FirstUsage \in Node
           /\ count = 0 => FirstUsage = UsageFor(desc, pos + 1, 1)
<1>1. usages \in Seq(Node)
  BY DEF ParserInv, TypeOK
<1>2. NoUsage \in Node
  BY DEF NoUsage, Node
<1>3. FirstUsage = IF 1 \in DOMAIN usages THEN usages[1] ELSE NoUsage
  <2>1. usages # <<>> => 1 \in DOMAIN usages /\ Head(usages) = usages[1]
    BY <1>1
  <2> QED  BY <2>1 DEF FirstUsage
<1>4. FirstUsage \in Node
  BY <1>1, <1>2, <1>3
<1>5. count = 0 => usages = UsagesOf(desc, pos + 1)
  BY DEF ParserInv, ReadInv, UsagesInv
<1> QED  BY <1>3, <1>4, <1>5 DEF UsageFor

LEMMA CollectionKeeps ==
    ASSUME ParserInv, CollectionItem
    PROVE  ParserInv'
<1>1. PICK tags : tags = {"collection"} /\ Turn(tags)
  BY DEF CollectionItem
<1>2. tags \cap MainTag = {} /\ "usagePage" \notin tags
  BY <1>1 DEF MainTag
<1>3. /\ pos + 1 \in 1..Len(desc) /\ pos' = pos + 1 /\ desc' = desc
      /\ Current = desc[pos + 1] /\ Current \in Item /\ Current.tag = "collection"
      /\ item' = Current /\ count = 0 /\ pos \in Nat /\ desc \in Seq(Item)
      /\ WellFormed(desc)
  BY <1>1, <1>2, ReadsNext, DescriptorFacts DEF ParserInv
<1>4. PICK added \in Seq(Node) :
         added = NodesAt(desc, pos + 1) /\ added = CollectionNodes(Current, FirstUsage)
  <2>1. NodesAt(desc, pos + 1) \in Seq(Node)
    BY <1>3, NodesAtType
  <2>2. NodesAt(desc, pos + 1) = CollectionNodes(Current, FirstUsage)
    BY <1>3, FirstUsageIs DEF NodesAt
  <2> QED  BY <2>1, <2>2
<1>5. /\ node' = [k \in 1..PathSize |-> IF k \in (depth + 1)..(depth + Len(added))
                                        THEN added[k - depth] ELSE node[k]]
      /\ depth' = depth + Len(added)
      /\ usages' = <<>>
  BY <1>4, Zenon DEF CollectionItem
<1>6. PICK p \in Seq(Node) :
         /\ p = PathTo(desc, pos + 1) /\ Len(p) = depth /\ \A k \in 1..depth : p[k] = node[k]
  BY NodesInUse DEF ParserInv
<1>7. PICK q \in Seq(Node) : q = PathTo(desc, (pos + 1) + 1) /\ q = p \o added
  <2>1. PathTo(desc, (pos + 1) + 1) = PathTo(desc, pos + 1) \o NodesAt(desc, pos + 1)
    BY <1>3, PathStep
  <2>2. p \o added \in Seq(Node)
    OBVIOUS
  <2> QED  BY <1>4, <1>6, <2>1, <2>2
<1>8. /\ Len(q) = depth + Len(added) /\ Len(added) \in Nat /\ depth \in Nat
      /\ \A k \in 1..Len(q) : q[k] = IF k <= depth THEN p[k] ELSE added[k - depth]
  BY <1>6, <1>7, ConcatProperties
<1>9. Len(q) <= PathSize
  <2>1. (pos + 1) + 1 \in 1..(Len(desc) + 1)
    BY <1>3
  <2> QED  BY <1>3, <1>7, <2>1 DEF WellFormed
<1>10. node' \in [1..PathSize -> Node] /\ depth' \in 0..PathSize
  <2>1. node \in [1..PathSize -> Node] /\ PathSize \in Nat
    BY PathSizeIsNumber DEF ParserInv, TypeOK
  <2>2. ASSUME NEW k \in 1..PathSize, k \in (depth + 1)..(depth + Len(added))
        PROVE  added[k - depth] \in Node
    <3>1. k - depth \in 1..Len(added)
      BY <1>8, <2>2
    <3> QED  BY <3>1
  <2> QED  BY <1>5, <1>8, <1>9, <2>1, <2>2
<1>11. \A k \in 1..Len(q) : node'[k] = q[k]
  <2> TAKE k \in 1..Len(q)
  <2>1. k \in 1..PathSize /\ (k \in (depth + 1)..(depth + Len(added)) <=> ~ (k <= depth))
    BY <1>8, <1>9, PathSizeIsNumber
  <2>2. k <= depth => p[k] = node[k]
    BY <1>6, <1>8
  <2> QED  BY <1>5, <1>8, <2>1, <2>2
<1>12. PathIsNesting'
  <2>1. SubSeq(node', 1, Len(q)) = q
    BY <1>11, NodesArePath
  <2> QED  BY <1>3, <1>5, <1>7, <1>8, <2>1 DEF PathIsNesting
<1>13. UsagesInv'
  <2>1. UsagesOf(desc, (pos + 1) + 1) = <<>>
    BY <1>3, UsagesStep DEF Ends
  <2> QED  BY <1>3, <1>5, <2>1 DEF UsagesInv
<1>14. TypeOK'
  <2>1. pos' \in 0..Len(desc) /\ TypeOK /\ <<>> \in Seq(Node)
    BY <1>3 DEF ParserInv
  <2> QED  BY <1>3, <1>5, <1>10, <2>1, TypesAfter, SMT DEF CollectionItem
<1>15. PendingInv' /\ PageInv'
  BY <1>1, <1>2, PendingAfter, PageKept DEF CollectionItem
<1> QED  BY <1>12, <1>13, <1>14, <1>15 DEF ParserInv, ReadInv, CollectionItem

LEMMA EndCollectionKeeps ==
    ASSUME ParserInv, EndCollectionItem
    PROVE  ParserInv'
<1>1. PICK tags : tags = {"end"} /\ Turn(tags)
  BY DEF EndCollectionItem
<1>2. tags \cap MainTag = {} /\ "usagePage" \notin tags
  BY <1>1 DEF MainTag
<1>3. /\ pos + 1 \in 1..Len(desc) /\ pos' = pos + 1 /\ desc' = desc
      /\ Current = desc[pos + 1] /\ Current.tag = "end"
      /\ item' = Current /\ Current \in Item /\ pos \in Nat /\ desc \in Seq(Item)
      /\ WellFormed(desc)
  BY <1>1, <1>2, ReadsNext, DescriptorFacts DEF ParserInv
<1>4. PICK p \in Seq(Node) :
         /\ p = PathTo(desc, pos + 1) /\ Len(p) = depth /\ \A k \in 1..depth : p[k] = node[k]
  BY NodesInUse DEF ParserInv
<1>5. PICK q \in Seq(Node) : q = PathTo(desc, (pos + 1) + 1)
  <2>1. (pos + 1) + 1 \in 1..(Len(desc) + 1)
    BY <1>3
  <2> QED  BY <1>3, <2>1, PathType
<1>6. PICK c \in 1..((pos + 1) - 1) :
         desc[c].tag = "collection" /\ p = q \o NodesAt(desc, c)
  <2>1. OpenAt(desc, pos + 1) # {}
    BY <1>3 DEF WellFormed
  <2> QED  BY <1>3, <1>4, <1>5, <2>1, PathStep
<1>7. PICK u \in Node : u = UsageFor(desc, c, 1)
  BY <1>3, UsageForType
<1>8. c \in 1..Len(desc) /\ desc[c] \in Item
  BY <1>3
<1>9. /\ NodesAt(desc, c) \in Seq(Node)
      /\ \/ NodesAt(desc, c) = <<u>> /\ u.page # IndexPage
         \/ \E n \in Node : NodesAt(desc, c) = <<u, n>> /\ n.page = IndexPage
  <2>1. desc[c].value < 128 => u.page # IndexPage
    BY <1>3, <1>6, <1>7, <1>8 DEF WellFormed
  <2> QED  BY <1>7, <1>8, <2>1, CollectionNodesAre DEF NodesAt
<1>10. Len(q) = depth' /\ depth \in Nat /\ Len(q) <= depth /\ \A k \in 1..Len(q) : q[k] = p[k]
  <2>1. depth' = IF node[depth].page = IndexPage THEN depth - 2 ELSE depth - 1
    BY DEF EndCollectionItem, DepthAfterEnd
  <2>2. CASE NodesAt(desc, c) = <<u>> /\ u.page # IndexPage
    <3>1. /\ Len(p) = Len(q) + 1 /\ p[Len(q) + 1] = u /\ Len(q) \in Nat
          /\ \A k \in 1..Len(q) : q[k] = p[k]
      BY <1>6, <2>2
    <3>2. node[depth] = u
      BY <1>4, <3>1
    <3> QED  BY <1>4, <2>1, <2>2, <3>1, <3>2
  <2>3. CASE \E n \in Node : NodesAt(desc, c) = <<u, n>> /\ n.page = IndexPage
    <3>1. PICK n \in Node : NodesAt(desc, c) = <<u, n>> /\ n.page = IndexPage
      BY <2>3
    <3>2. /\ Len(p) = Len(q) + 2 /\ p[Len(q) + 2] = n /\ Len(q) \in Nat
          /\ \A k \in 1..Len(q) : q[k] = p[k]
      BY <1>6, <3>1
    <3>3. node[depth] = n
      BY <1>4, <3>2
    <3> QED  BY <1>4, <2>1, <3>1, <3>2, <3>3
  <2> QED  BY <1>9, <2>2, <2>3
<1>11. node' = node /\ usages' = <<>>
  BY DEF EndCollectionItem
<1>12. PathIsNesting'
  <2>1. \A k \in 1..Len(q) : node[k] = q[k]
    BY <1>4, <1>10
  <2>2. SubSeq(node, 1, Len(q)) = q
    BY <2>1, NodesArePath
  <2> QED  BY <1>3, <1>5, <1>10, <1>11, <2>2 DEF PathIsNesting
<1>13. UsagesInv'
  <2>1. UsagesOf(desc, (pos + 1) + 1) = <<>>
    BY <1>3, UsagesStep DEF Ends
  <2> QED  BY <1>3, <1>11, <2>1 DEF UsagesInv
<1>14. TypeOK'
  <2>1. pos' \in 0..Len(desc) /\ TypeOK /\ <<>> \in Seq(Node)
    BY <1>3 DEF ParserInv
  <2>2. depth' \in 0..PathSize
    <3>1. depth \in 0..PathSize
      BY DEF ParserInv, TypeOK
    <3> QED  BY <1>10, <3>1, PathSizeIsNumber
  <2> QED  BY <1>3, <1>11, <2>1, <2>2, TypesAfter, SMT DEF EndCollectionItem
<1>15. PendingInv' /\ PageInv'
  BY <1>1, <1>2, PendingAfter, PageKept DEF EndCollectionItem
<1> QED  BY <1>12, <1>13, <1>14, <1>15 DEF ParserInv, ReadInv, EndCollectionItem

\* A value that is kept in a byte
LEMMA ByteOf ==
    ASSUME NEW i \in Item, i.tag \in {"reportId", "reportSize", "reportCount"}
    PROVE  Converted(i) \in 0..255
<1>1. PICK v \in Nat : Converted(i) = v % 256
  <2>1. Converted(i) = i.value % 256 /\ i.value \in Nat
    BY ConvertedType, SMT
  <2> QED  BY <2>1, ZenonT(60)
<1> QED  BY <1>1, SMT

LEMMA DataItemKeeps ==
    ASSUME ParserInv, DataItem
    PROVE  ParserInv'
<1>1. /\ DataTag \cap (MainTag \cup {"collection", "end"}) = {} /\ DataTag \cap MainTag = {}
      /\ DataTag \cap (Ends \cup {"usage"}) = {} /\ "usagePage" \notin DataTag
      /\ "reportId" \in DataTag
  BY DEF DataTag, MainTag, Ends
<1>2. Turn(DataTag)
  BY DEF DataItem
<1>3. /\ pos' \in 0..Len(desc) /\ desc' = desc /\ Current \in Item
      /\ Current.tag \in DataTag /\ item' = Current
  BY <1>1, <1>2, ReadsNext, DescriptorFacts DEF ParserInv
<1>4. Converted(Current) \in Int
  BY <1>3, ConvertedType
<1>5. data \in [DataTag -> Int] /\ data' = [data EXCEPT ![Current.tag] = Converted(Current)]
  BY DEF ParserInv, TypeOK, DataItem
<1>6. data' \in [DataTag -> Int]
  BY <1>3, <1>4, <1>5
<1>7. data'["reportId"] \in 0..255
  <2>1. data["reportId"] \in 0..255
    BY DEF ParserInv, ReadInv
  <2>2. Current.tag = "reportId" => Converted(Current) \in 0..255
    BY <1>3, ByteOf
  <2>3. data'["reportId"] = IF Current.tag = "reportId" THEN Converted(Current)
                            ELSE data["reportId"]
    BY <1>1, <1>3, <1>5
  <2> QED  BY <2>1, <2>2, <2>3
<1>8. TypeOK'
  <2>1. TypeOK
    BY DEF ParserInv
  <2> QED  BY <1>3, <1>6, <2>1, TypesAfter, SMT DEF DataItem
<1>9. PendingInv' /\ UsagesInv' /\ PageInv' /\ PathIsNesting'
  BY <1>1, <1>2, PendingAfter, UsagesKept, PageKept, PathKept DEF DataItem
<1> QED  BY <1>7, <1>8, <1>9 DEF ParserInv, ReadInv

LEMMA ReportCountKeeps ==
    ASSUME ParserInv, ReportCountItem
    PROVE  ParserInv'
<1>1. PICK tags : tags = {"reportCount"} /\ Turn(tags)
  BY DEF ReportCountItem
<1>2. /\ tags \cap (MainTag \cup {"collection", "end"}) = {} /\ tags \cap MainTag = {}
      /\ tags \cap (Ends \cup {"usage"}) = {} /\ "usagePage" \notin tags
  BY <1>1 DEF MainTag, Ends
<1>3. /\ pos' \in 0..Len(desc) /\ desc' = desc /\ Current \in Item
      /\ Current.tag = "reportCount" /\ item' = Current
  BY <1>1, <1>2, ReadsNext, DescriptorFacts DEF ParserInv
<1>4. reportCount' \in 0..255
  BY <1>3, ByteOf DEF ReportCountItem
<1>5. TypeOK'
  <2>1. TypeOK
    BY DEF ParserInv
  <2> QED  BY <1>3, <1>4, <2>1, TypesAfter, SMT DEF ReportCountItem
<1>6. PendingInv' /\ UsagesInv' /\ PageInv' /\ PathIsNesting'
  BY <1>1, <1>2, PendingAfter, UsagesKept, PageKept, PathKept DEF ReportCountItem
<1> QED  BY <1>5, <1>6 DEF ParserInv, ReadInv, ReportCountItem

LEMMA OtherKeeps ==
    ASSUME ParserInv, OtherItem
    PROVE  ParserInv'
<1>1. PICK tags : tags = {"other"} /\ Turn(tags)
  BY DEF OtherItem
<1>2. /\ tags \cap (MainTag \cup {"collection", "end"}) = {} /\ tags \cap MainTag = {}
      /\ tags \cap (Ends \cup {"usage"}) = {} /\ "usagePage" \notin tags
  BY <1>1 DEF MainTag, Ends
<1>3. pos' \in 0..Len(desc) /\ desc' = desc /\ Current \in Item /\ item' = Current
  BY <1>1, <1>2, ReadsNext, DescriptorFacts DEF ParserInv
<1>4. TypeOK'
  <2>1. TypeOK
    BY DEF ParserInv
  <2> QED  BY <1>3, <2>1, TypesAfter, SMT DEF OtherItem
<1>5. PendingInv' /\ UsagesInv' /\ PageInv' /\ PathIsNesting'
  BY <1>1, <1>2, PendingAfter, UsagesKept, PageKept, PathKept DEF OtherItem
<1> QED  BY <1>4, <1>5 DEF ParserInv, ReadInv, OtherItem

-----------------------------------------------------------------------------
(* Main items and the objects they deliver.                                *)

LEMMA OffsetTabKept ==
    ASSUME TypeOK, data["reportId"] \in 0..255, data["reportSize"] \in Int,
           NEW tag \in MainTag
    PROVE  /\ OffsetTabType(AddToReport(ReportKey(tag), data["reportSize"]))
           /\ ReportOffset(ReportKey(tag)) \in 0..255
<1> DEFINE key == ReportKey(tag)
           size == data["reportSize"]
<1>1. key = <<data["reportId"], tag>> /\ key[1] = data["reportId"]
  BY DEF ReportKey
<1>2. OffsetTabType(offsetTab)
  BY Zenon DEF TypeOK, OffsetTabType
<1>3. PICK b \in 0..255 : b = ReportOffset(key)
  BY <1>2 DEF OffsetTabType, ReportOffset
<1>4. (b + size) % 256 \in 0..255
  <2>1. PICK v \in Int : v = b + size
    OBVIOUS
  <2>2. v % 256 \in 0..255
    BY <2>1, SMTT(60)
  <2> QED  BY <2>1, <2>2
<1> HIDE DEF key, size
<1>5. OffsetTabType(AddToReport(key, size))
  <2>1. CASE key[1] = 0
    BY <1>2, <2>1 DEF AddToReport
  <2>2. CASE key[1] # 0
    <3>1. AddToReport(key, size) = [k \in DOMAIN offsetTab \cup {key} |->
                                       IF k = key THEN (b + size) % 256 ELSE offsetTab[k]]
      BY <1>3, <2>2 DEF AddToReport
    <3>2. key \in (1..255) \X MainTag
      BY <1>1, <2>2
    <3> QED  BY <1>2, <1>4, <3>1, <3>2 DEF OffsetTabType
  <2> QED  BY <2>1, <2>2
<1> QED  BY <1>3, <1>5 DEF key, size

\* A main item finds room for its usage on the path, and a count.
LEMMA MainFits ==
    ASSUME ParserInv, Turn(MainTag)
    PROVE  /\ depth + 1 \in 1..PathSize /\ depth \in Nat
           /\ pos' + 1 \in 1..(Len(desc) + 1)
           /\ SubSeq(node, 1, depth) = PathTo(desc, pos' + 1)
<1>1. /\ desc \in Seq(Item) /\ WellFormed(desc) /\ pos' \in 1..Len(desc) /\ pos \in Nat
      /\ desc[pos'].tag \in MainTag /\ pos' = (IF count = 0 THEN pos + 1 ELSE pos)
  BY ReadsMain, DescriptorFacts DEF ParserInv
<1>2. PathTo(desc, pos' + 1) = PathTo(desc, pos')
  <2>1. desc[pos'].tag \notin {"collection", "end"}
    BY <1>1 DEF MainTag
  <2>2. PICK k \in 1..Len(desc) : k = pos'
    BY <1>1
  <2> QED  BY <1>1, <2>1, <2>2, PathStep
<1>3. PathTo(desc, pos + 1) = PathTo(desc, pos')
  BY <1>1, <1>2
<1>4. Len(PathTo(desc, pos')) = depth
  BY <1>3, NodesInUse DEF ParserInv
<1>5. Len(PathTo(desc, pos')) < PathSize
  BY <1>1 DEF WellFormed
<1>6. depth \in 0..PathSize /\ PathSize \in Nat
  BY PathSizeIsNumber DEF ParserInv, TypeOK
<1>7. SubSeq(node, 1, depth) = PathTo(desc, pos + 1)
  BY DEF ParserInv, PathIsNesting
<1> QED  BY <1>1, <1>2, <1>3, <1>4, <1>5, <1>6, <1>7

\* A delivered object extends the path by the usage.
LEMMA DeliveredType ==
    ASSUME ParserInv, Turn(MainTag)
    PROVE  /\ Delivered \in Object
           /\ Delivered.node = [node EXCEPT ![depth + 1] = FirstUsage]
           /\ Delivered.node \in [1..PathSize -> Node]
           /\ SubSeq(Delivered.node, 1, depth) = SubSeq(node, 1, depth)
<1>1. Current \in Item /\ Current.tag \in MainTag
  BY ReadsMain
<1>2. depth + 1 \in 1..PathSize /\ depth \in Nat /\ PathSize \in Nat
  BY MainFits, PathSizeIsNumber
<1>3. PICK nodes \in [1..PathSize -> Node] : nodes = [node EXCEPT ![depth + 1] = FirstUsage]
  BY <1>2, FirstUsageIs DEF ParserInv, TypeOK
<1>4. /\ data["reportId"] \in 0..255 /\ data \in [DataTag -> Int] /\ TypeOK
      /\ data["reportSize"] \in Int
  BY SMTT(60) DEF ParserInv, ReadInv, TypeOK, DataTag
<1>5. ReportOffset(ReportKey(Current.tag)) \in 0..255
  BY <1>1, <1>4, OffsetTabKept
<1>6. Current.value % 256 \in 0..255
  <2>1. PICK v \in Nat : v = Current.value
    BY <1>1 DEF Item
  <2>2. v % 256 \in 0..255
    BY SMT
  <2> QED  BY <2>1, <2>2, Zenon
<1>7. depth + 1 \in 0..PathSize
  BY <1>2
<1>8. Delivered.node = nodes
  BY <1>3 DEF Delivered
<1>9. Delivered \in Object
  BY <1>1, <1>3, <1>4, <1>5, <1>6, <1>7, ZenonT(60) DEF Delivered, Object
<1>10. SubSeq(nodes, 1, depth) = SubSeq(node, 1, depth)
  <2>1. \A k \in 1..depth : nodes[k] = node[k] /\ node[k] \in Node
    BY <1>2, <1>3 DEF ParserInv, TypeOK
  <2>2. PICK p \in Seq(Node) : p = SubSeq(node, 1, depth) /\ Len(p) = depth
                                /\ \A k \in 1..depth : p[k] = node[k]
    <3>1. /\ SubSeq(node, 1, depth) \in Seq(Node)
          /\ Len(SubSeq(node, 1, depth)) = depth
          /\ \A k \in 1..depth : SubSeq(node, 1, depth)[k] = node[k]
      BY <1>2, <2>1, SubSeqProperties
    <3> QED  BY <3>1
  <2>3. \A k \in 1..Len(p) : nodes[k] = p[k]
    BY <2>1, <2>2
  <2> QED  BY <2>2, <2>3, NodesArePath
<1> QED  BY <1>3, <1>8, <1>9, <1>10

LEMMA CountLeftType ==
    ASSUME TypeOK
    PROVE  CountLeft \in 0..255
<1>1. PICK n \in Int : n = (IF count = 0 THEN reportCount ELSE count) - 1
  BY DEF TypeOK
<1>2. n % 256 \in 0..255
  BY SMT
<1> QED  BY <1>1, <1>2 DEF CountLeft

LEMMA MainKeeps ==
    ASSUME ParserInv, MainItem
    PROVE  ParserInv'
<1>1. Turn(MainTag) /\ TypeOK
  BY DEF MainItem, ParserInv
<1>2. /\ desc' = desc /\ pos' \in 1..Len(desc) /\ Current = desc[pos'] /\ Current \in Item
      /\ Current.tag \in MainTag /\ item' = Current /\ desc \in Seq(Item) /\ pos \in Nat
      /\ pos' = (IF count = 0 THEN pos + 1 ELSE pos) /\ Len(desc) \in Nat
  BY <1>1, ReadsMain, DescriptorFacts
<1>3. /\ count' = CountLeft /\ usages' = UsagesLeft /\ page' = page
      /\ reportCount' = reportCount /\ depth' = depth /\ data' = data
      /\ node' = Delivered.node
      /\ offsetTab' = AddToReport(ReportKey(Current.tag), data["reportSize"])
  BY DEF MainItem
<1>4. /\ data["reportId"] \in 0..255 /\ data["reportSize"] \in Int
  BY DEF ParserInv, ReadInv, TypeOK, DataTag
<1>5. OffsetTabType(offsetTab')
  BY <1>1, <1>2, <1>3, <1>4, OffsetTabKept
<1>6. /\ hidData' = hidData \/ hidData' \in Object
      /\ call' = call \/ call' = None
      /\ given' = given \/ given' \in Seq(Object)
  <2>1. PICK o \in Object : o = Delivered
    BY <1>1, DeliveredType
  <2>2. given \in Seq(Object)
    BY <1>1 DEF TypeOK
  <2>3. Append(given, o) \in Seq(Object) /\ <<o>> \in Seq(Object)
    BY <2>2
  <2>4. Deliver(o)
    BY <2>1 DEF MainItem
  <2> QED  BY <2>3, <2>4 DEF Deliver
<1>7. usages' \in Seq(Node)
  <2>1. usages \in Seq(Node)
    BY <1>1 DEF TypeOK
  <2> QED  BY <1>3, <2>1 DEF UsagesLeft
<1>8. count' \in 0..255
  BY <1>1, <1>3, CountLeftType
<1>9. node' \in [1..PathSize -> Node]
  BY <1>1, <1>3, DeliveredType
<1>10. TypeOK'
  <2>1. pos' \in 0..Len(desc)
    BY <1>2
  <2> QED  BY <1>1, <1>2, <1>3, <1>5, <1>6, <1>7, <1>8, <1>9, <2>1, TypesAfter, Zenon
<1>11. PendingInv'
  BY <1>2 DEF PendingInv
<1>12. UsagesInv'
  <2>1. PICK k \in 1..Len(desc) : k = pos'
    BY <1>2
  <2>2. UsagesOf(desc, k + 1) = <<>>
    BY <1>2, <2>1, UsagesStep DEF Ends
  <2>3. count' = 0 => usages' = <<>>
    BY <1>3 DEF UsagesLeft
  <2> QED  BY <1>2, <2>1, <2>2, <2>3 DEF UsagesInv
<1>13. PathIsNesting'
  <2>1. SubSeq(node', 1, depth) = SubSeq(node, 1, depth)
    BY <1>1, <1>3, DeliveredType
  <2>2. SubSeq(node, 1, depth) = PathTo(desc, pos' + 1)
    BY <1>1, MainFits
  <2> QED  BY <1>2, <1>3, <2>1, <2>2 DEF PathIsNesting
<1>14. PageInv'
  <2>1. CASE count # 0
    BY <1>2, <1>3, <2>1 DEF ParserInv, ReadInv, PageInv
  <2>2. CASE count = 0
    <3>1. PICK k \in Nat \ {0} : k = pos + 1 /\ k = pos' /\ k - 1 = pos
      BY <1>2, <2>2
    <3>2. desc[k].tag # "usagePage"
      BY <1>2, <3>1 DEF MainTag
    <3>3. Tagged(desc, {"usagePage"}, 1, k) = Tagged(desc, {"usagePage"}, 1, k - 1)
      BY <3>2, PageStays
    <3>4. GlobalAt(desc, k + 1, "usagePage") = GlobalAt(desc, k, "usagePage")
      BY <3>2, PageStays
    <3>5. PageSeen(desc, pos) => page = GlobalAt(desc, k, "usagePage")
      BY <3>1 DEF ParserInv, ReadInv, PageInv
    <3> QED  BY <1>2, <1>3, <3>1, <3>3, <3>4, <3>5 DEF PageInv, PageSeen
  <2> QED  BY <2>1, <2>2
<1> QED  BY <1>3, <1>4, <1>10, <1>11, <1>12, <1>13, <1>14 DEF ParserInv, ReadInv

-----------------------------------------------------------------------------
(* The calls.                                                              *)

\* Before the first item there is nothing to keep.
LEMMA Nothing ==
    ASSUME NEW d
    PROVE  /\ PathTo(d, 1) = <<>> /\ UsagesOf(d, 1) = <<>> /\ ~ PageSeen(d, 0)
           /\ NoNodes \in [1..PathSize -> Node] /\ NoData \in [DataTag -> Int]
           /\ NoData["reportId"] = 0
<1>1. PICK k \in Nat \ {0} : k = 1 /\ 1..(k - 1) = {}
  OBVIOUS
<1>2. OpenAt(d, k) = {} /\ UsagesSince(d, k) = {}
  <2>1. OpenAt(d, k) \in SUBSET (1..(k - 1)) /\ UsagesSince(d, k) \in SUBSET (1..(k - 1))
    BY OpenType, UsagesSinceType
  <2> QED  BY <1>1, <2>1, Zenon
<1>3. PathTo(d, 1) = <<>>
  <2>1. PathTo(d, k) = <<>>
    BY <1>2, PathIsNodesOver, NodesOverEmpty, Zenon
  <2> QED  BY <1>1, <2>1, Zenon
<1>4. Ascending(UsagesSince(d, k)) = <<>>
  BY <1>2, AscendingEmpty, Zenon
<1>5. UsagesOf(d, 1) = <<>>
  <2>1. UsagesOf(d, k) = <<>>
    BY <1>4, UsagesOfDef
  <2> QED  BY <1>1, <2>1, Zenon
<1>6. ~ PageSeen(d, 0)
  <2>1. 1..0 = {}
    OBVIOUS
  <2> QED  BY <2>1, Zenon DEF PageSeen, Tagged
<1>7. NoNodes \in [1..PathSize -> Node]
  BY DEF NoNodes, NoUsage, Node
<1>8. NoData \in [DataTag -> Int] /\ NoData["reportId"] = 0
  BY DEF NoData, DataTag
<1> QED  BY <1>3, <1>5, <1>6, <1>7, <1>8

LEMMA EmptyPath == \A f : SubSeq(f, 1, 0) = <<>>
<1>1. <<>> \in Seq(Node) /\ Len(<<>>) = 0
  OBVIOUS
<1>2. \A f : \A k \in 1..0 : f[k] = <<>>[k]
  OBVIOUS
<1>3. ASSUME NEW f PROVE SubSeq(f, 1, 0) = <<>>
  <2>1. PICK p \in Seq(Node) : p = <<>> /\ Len(p) = 0
    BY <1>1
  <2>2. \A k \in 1..Len(p) : f[k] = p[k]
    BY <2>1
  <2> QED  BY <2>1, <2>2, NodesArePath
<1> QED  BY <1>3

\* Resetting the parser begins a parse afresh, wherever the last one ended;
\* only the page outlives it.
LEMMA ResetKeeps ==
    ASSUME ParserInv, ResetParser, UNCHANGED <<desc, item, page, reportCount>>,
           hidData' = hidData \/ hidData' \in Object,
           call' = None \/ call' \in Call,
           given' = given \/ given' \in Seq(Object)
    PROVE  ParserInv'
<1>1. /\ pos' = 0 /\ count' = 0 /\ usages' = <<>> /\ offsetTab' = <<>>
      /\ node' = NoNodes /\ depth' = 0 /\ data' = NoData
  BY DEF ResetParser
<1>2. TypeOK'
  <2>1. OffsetTabType(<<>>)
    BY DEF OffsetTabType
  <2>2. /\ 0 \in 0..Len(desc) /\ 0 \in 0..255 /\ 0 \in 0..PathSize /\ TypeOK
        /\ <<>> \in Seq(Node)
    BY PathSizeIsNumber, DescriptorFacts DEF ParserInv
  <2>3. node' \in [1..PathSize -> Node] /\ data' \in [DataTag -> Int]
    BY <1>1, Nothing
  <2> QED  BY <1>1, <2>1, <2>2, <2>3, TypesAfter, Zenon
<1>3. /\ PathTo(desc, 0 + 1) = <<>> /\ UsagesOf(desc, 0 + 1) = <<>>
      /\ ~ PageSeen(desc, 0) /\ NoData["reportId"] \in 0..255
  <2>1. 0 + 1 = 1 /\ 0 \in 0..255
    OBVIOUS
  <2> QED  BY <2>1, Nothing, Zenon
<1>4. PathIsNesting'
  BY <1>1, <1>3, EmptyPath, Zenon DEF PathIsNesting
<1>5. ReadInv'
  BY <1>1, <1>3, Zenon DEF ReadInv, PendingInv, UsagesInv, PageInv
<1> QED  BY <1>2, <1>4, <1>5 DEF ParserInv

LEMMA ExhaustedKeeps ==
    ASSUME ParserInv, Exhausted
    PROVE  ParserInv'
<1>1. CASE call.kind = "list"
  BY <1>1, ResetKeeps DEF Exhausted
<1>2. CASE call.kind # "list"
  <2>1. /\ UNCHANGED <<desc, item, page, reportCount, hidData, given>>
        /\ pos' = pos /\ count' = count /\ usages' = usages /\ offsetTab' = offsetTab
        /\ node' = node /\ depth' = depth /\ data' = data /\ call' = None
    BY <1>2 DEF Exhausted, cleared
  <2>2. TypeOK'
    <3>1. pos' \in 0..Len(desc) /\ TypeOK
      BY <2>1 DEF ParserInv, TypeOK
    <3> QED  BY <2>1, <3>1, TypesAfter, Zenon
  <2>3. ReadInv' /\ PathIsNesting'
    BY <2>1 DEF ParserInv, ReadInv, PendingInv, UsagesInv, PageInv, PathIsNesting
  <2> QED  BY <2>2, <2>3 DEF ParserInv
<1> QED  BY <1>1, <1>2

LEMMA FindObjectKeeps ==
    ASSUME ParserInv, NEW path \in SearchPath, NEW type \in MainTag,
           HidFindObject(path, type)
    PROVE  ParserInv'
<1>1. path \in Seq(Node) /\ Len(path) \in 0..PathSize
  BY PathsAreNodes, PathSizeIsNumber
<1>2. PICK old \in [1..PathSize -> Node], values \in [DataTag -> Int] :
         /\ hidData \in Object /\ hidData.node = old /\ hidData.data = values
         /\ hidData.attribute \in 0..255 /\ hidData.offset \in 0..255
  BY DEF ParserInv, TypeOK, Object
<1>3. PICK nodes :
         nodes = [k \in 1..PathSize |-> IF k <= Len(path) THEN path[k] ELSE old[k]]
  OBVIOUS
<1>4. nodes \in [1..PathSize -> Node]
  <2>1. ASSUME NEW k \in 1..PathSize PROVE (IF k <= Len(path) THEN path[k] ELSE old[k]) \in Node
    BY <1>1
  <2> QED  BY <1>3, <2>1, Zenon
<1>5. [values EXCEPT !["reportId"] = 0] \in [DataTag -> Int]
  <2>1. 0 \in Int
    OBVIOUS
  <2> QED  BY <2>1, Zenon
<1>6. hidData' = [node |-> nodes, depth |-> Len(path), type |-> type,
                  attribute |-> hidData.attribute, offset |-> hidData.offset,
                  data |-> [values EXCEPT !["reportId"] = 0]]
  BY <1>2, <1>3 DEF HidFindObject, Object
<1>7. hidData' \in Object
  BY <1>1, <1>2, <1>4, <1>5, <1>6, Zenon DEF Object
<1>8. call' \in Call
  BY DEF HidFindObject, Call
<1>9. given' = <<>> /\ <<>> \in Seq(Object)
  BY DEF HidFindObject
<1> QED  BY <1>7, <1>8, <1>9, ResetKeeps DEF HidFindObject

LEMMA DumpTreeKeeps ==
    ASSUME ParserInv, HidDumpTree
    PROVE  ParserInv'
<1>1. call' \in Call
  BY DEF HidDumpTree, Call
<1>2. given' = <<>> /\ <<>> \in Seq(Object)
  BY DEF HidDumpTree
<1> QED  BY <1>1, <1>2, ResetKeeps DEF HidDumpTree

-----------------------------------------------------------------------------
(* The invariant.                                                          *)

LEMMA ParserInvInit == Init => ParserInv
<1> SUFFICES ASSUME Init PROVE ParserInv
  OBVIOUS
<1>1. /\ desc \in Descriptor /\ pos = 0 /\ item = None /\ count = 0 /\ usages = <<>>
      /\ page \in 0..255 /\ reportCount \in 0..255 /\ offsetTab = <<>>
      /\ node = NoNodes /\ depth = 0 /\ data = NoData
  BY LeftoverIsBytes DEF Init
<1>2. hidData \in Object
  <2>1. PICK b \in 0..255 : hidData = [node |-> NoNodes, depth |-> 0, type |-> "input",
                                       attribute |-> 0, offset |-> b, data |-> NoData]
    BY LeftoverIsBytes DEF Init
  <2>2. "input" \in MainTag /\ 0 \in 0..255 /\ 0 \in 0..PathSize
    BY PathSizeIsNumber DEF MainTag
  <2> QED  BY <2>1, <2>2, Nothing, Zenon DEF Object
<1>3. call \in Call /\ given \in Seq(Object)
  BY DEF Init, Call
<1>4. page \in UShort
  BY <1>1, ShortSpanIs, SMT DEF UShort
<1>5. TypeOK
  <2>1. /\ 0 \in 0..Len(desc) /\ 0 \in 0..255 /\ 0 \in 0..PathSize /\ <<>> \in Seq(Node)
    BY <1>1, PathSizeIsNumber, DescriptorsAreItems
  <2>2. node \in [1..PathSize -> Node] /\ data \in [DataTag -> Int]
    BY <1>1, Nothing
  <2>3. DOMAIN offsetTab \subseteq (1..255) \X MainTag
        /\ \A r \in DOMAIN offsetTab : offsetTab[r] \in 0..255
    BY <1>1
  <2>4. /\ desc \in Descriptor /\ pos \in 0..Len(desc) /\ item \in Item \cup {None}
        /\ count \in 0..255 /\ depth \in 0..PathSize /\ usages \in Seq(Node)
    BY <1>1, <2>1
  <2> QED  BY <1>1, <1>2, <1>3, <1>4, <2>2, <2>3, <2>4, Zenon DEF TypeOK
<1>6. /\ PathTo(desc, 0 + 1) = <<>> /\ UsagesOf(desc, 0 + 1) = <<>>
      /\ ~ PageSeen(desc, 0) /\ NoData["reportId"] \in 0..255
  <2>1. 0 + 1 = 1 /\ 0 \in 0..255
    OBVIOUS
  <2> QED  BY <2>1, Nothing, Zenon
<1>7. PathIsNesting
  BY <1>1, <1>6, EmptyPath, Zenon DEF PathIsNesting
<1>8. ReadInv
  BY <1>1, <1>6, Zenon DEF ReadInv, PendingInv, UsagesInv, PageInv
<1> QED  BY <1>5, <1>7, <1>8 DEF ParserInv

LEMMA ParserInvNext == ParserInv /\ [Next]_vars => ParserInv'
<1> SUFFICES ASSUME ParserInv, [Next]_vars PROVE ParserInv'
  OBVIOUS
<1>1. CASE UsagePageItem
  BY <1>1, UsagePageKeeps
<1>2. CASE UsageItem
  BY <1>2, UsageKeeps
<1>3. CASE CollectionItem
  BY <1>3, CollectionKeeps
<1>4. CASE EndCollectionItem
  BY <1>4, EndCollectionKeeps
<1>5. CASE DataItem
  BY <1>5, DataItemKeeps
<1>6. CASE ReportCountItem
  BY <1>6, ReportCountKeeps
<1>7. CASE OtherItem
  BY <1>7, OtherKeeps
<1>8. CASE MainItem
  BY <1>8, MainKeeps
<1>9. CASE Exhausted
  BY <1>9, ExhaustedKeeps
<1>10. ASSUME NEW path \in SearchPath, NEW type \in MainTag, HidFindObject(path, type)
       PROVE  ParserInv'
  BY <1>10, FindObjectKeeps
<1>11. CASE HidDumpTree
  BY <1>11, DumpTreeKeeps
<1>12. CASE UNCHANGED vars
  <2>1. /\ desc' = desc /\ pos' = pos /\ count' = count /\ usages' = usages
        /\ offsetTab' = offsetTab /\ node' = node /\ depth' = depth /\ data' = data
        /\ item' = item /\ page' = page /\ reportCount' = reportCount
        /\ hidData' = hidData /\ call' = call /\ given' = given
    BY <1>12 DEF vars, parserVars, cleared
  <2>2. pos' \in 0..Len(desc)
    BY <2>1 DEF ParserInv, TypeOK
  <2>3. TypeOK'
    BY <2>1, <2>2, TypesAfter, Zenon DEF ParserInv
  <2> QED  BY <2>1, <2>3 DEF ParserInv, ReadInv, PendingInv, UsagesInv, PageInv, PathIsNesting
<1> QED  BY <1>1, <1>2, <1>3, <1>4, <1>5, <1>6, <1>7, <1>8, <1>9, <1>10, <1>11, <1>12
         DEF Next, ParseStep

LEMMA ParserInvariant == Spec => []ParserInv
BY ParserInvInit, ParserInvNext, PTL DEF Spec

\* The parser's state stays within its fields' widths and its tables: a field
\* never finds the path full, and no end of a collection takes off what is not
\* there.
THEOREM ParserTypesCorrect == Spec => []TypeOK
<1>1. ParserInv => TypeOK
  BY DEF ParserInv
<1> QED  BY <1>1, ParserInvariant, PTL

\* At each turn of HIDParse the path holds the usages and indexes of just the
\* collections that are open there: for every well-formed descriptor, whatever
\* was parsed before, and wherever an earlier parse of it was left.
THEOREM PathNests == Spec => []PathIsNesting
<1>1. ParserInv => PathIsNesting
  BY DEF ParserInv
<1> QED  BY <1>1, ParserInvariant, PTL


-----------------------------------------------------------------------------
(* The registers: what the parser keeps between items is what ReportFields *)
(* reads off the descriptor behind it.                                     *)

Seen(d, tag, k) == Tagged(d, {tag}, 1, k) # {}

DataInv == \A t \in DataTag : data[t] = GlobalAt(desc, pos + 1, t)

\* Like the page, the count outlives a reset.
CountInv == Seen(desc, "reportCount", pos)
                => reportCount = GlobalAt(desc, pos + 1, "reportCount")

\* How many fields the main item at pos delivers, and how many it has
\* delivered while it is pending
Times == GlobalAt(desc, pos, "reportCount")
Done == Times - count
DoneInv == count # 0 => count < Times

\* Of a pending main item the usages not used up are left.
NthOf(us, j) == IF j \in DOMAIN us THEN us[j] ELSE NoUsage
RestInv == count # 0 =>
    \A j \in Nat \ {0} : NthOf(usages, j) = UsageFor(desc, pos, Done + j)

\* The bits of a report that have been delivered
Counted(key) ==
    IF count = 0 THEN BitsIn(desc, key, pos + 1)
    ELSE BitsIn(desc, key, pos)
            + (IF key = KeyOf(desc, pos) THEN Done * GlobalAt(desc, pos, "reportSize") ELSE 0)
OffsetInv == \A key \in (1..255) \X MainTag : ReportOffset(key) = Counted(key) % 256

RegisterInv == ParserInv /\ DataInv /\ CountInv /\ DoneInv /\ RestInv /\ OffsetInv

\* What an item does to the globals
LEMMA GlobalKept ==
    ASSUME NEW d, NEW k \in Nat \ {0}, NEW tag
    PROVE  /\ d[k].tag # tag => /\ GlobalAt(d, k + 1, tag) = GlobalAt(d, k, tag)
                                /\ Seen(d, tag, k) => Seen(d, tag, k - 1)
           /\ d[k].tag = tag => GlobalAt(d, k + 1, tag) = Converted(d[k])
<1>1. GlobalAt(d, k + 1, tag) = IF d[k].tag = tag THEN Converted(d[k]) ELSE GlobalAt(d, k, tag)
  BY GlobalStep
<1>2. d[k].tag # tag => Tagged(d, {tag}, 1, k) = Tagged(d, {tag}, 1, k - 1)
  BY SeenStep
<1> QED  BY <1>1, <1>2, Zenon DEF Seen

\* An item that is no main item moves on by one.
LEMMA MovesOn ==
    ASSUME ParserInv, NEW tags, Turn(tags), tags \cap MainTag = {}
    PROVE  \E k \in 1..Len(desc) :
              /\ k = pos + 1 /\ k - 1 = pos /\ pos' = k /\ desc' = desc /\ count = 0
              /\ Current = desc[k] /\ Current \in Item /\ desc[k].tag \in tags
              /\ k \in Nat \ {0} /\ desc \in Seq(Item)
<1>1. /\ pos + 1 \in 1..Len(desc) /\ pos' = pos + 1 /\ desc' = desc /\ count = 0
      /\ desc[pos + 1].tag \in tags /\ Current = desc[pos + 1] /\ Current \in Item
  BY ReadsNext
<1>2. desc \in Seq(Item) /\ pos \in Nat
  BY DescriptorFacts DEF ParserInv
<1> QED  BY <1>1, <1>2

LEMMA DataKept ==
    ASSUME ParserInv, DataInv, NEW tags, Turn(tags), tags \cap MainTag = {},
           tags \cap DataTag = {}, data' = data
    PROVE  DataInv'
<1>1. PICK k \in 1..Len(desc) :
         /\ k = pos + 1 /\ pos' = k /\ desc' = desc /\ desc[k].tag \in tags /\ k \in Nat \ {0}
  BY MovesOn
<1>2. ASSUME NEW t \in DataTag PROVE GlobalAt(desc, k + 1, t) = GlobalAt(desc, k, t)
  <2>1. desc[k].tag # t
    BY <1>1
  <2> QED  BY <1>1, <2>1, GlobalKept
<1> QED  BY <1>1, <1>2 DEF DataInv

LEMMA TimesKept ==
    ASSUME ParserInv, CountInv, NEW tags, Turn(tags), tags \cap MainTag = {},
           "reportCount" \notin tags, reportCount' = reportCount
    PROVE  CountInv'
<1>1. PICK k \in 1..Len(desc) :
         /\ k = pos + 1 /\ pos' = k /\ desc' = desc /\ desc[k].tag \in tags /\ k \in Nat \ {0}
         /\ k - 1 = pos
  BY MovesOn
<1>2. PICK tag : tag = "reportCount"
  OBVIOUS
<1>3. GlobalAt(desc, k + 1, tag) = GlobalAt(desc, k, tag) /\ (Seen(desc, tag, k) => Seen(desc, tag, k - 1))
  <2>1. desc[k].tag # tag
    BY <1>1, <1>2
  <2> QED  BY <1>1, <2>1, GlobalKept
<1> QED  BY <1>1, <1>2, <1>3 DEF CountInv

\* Only main items add to reports, or are pending.
LEMMA TableKept ==
    ASSUME ParserInv, OffsetInv, NEW tags, Turn(tags), tags \cap MainTag = {},
           count' = count, offsetTab' = offsetTab
    PROVE  OffsetInv' /\ DoneInv' /\ RestInv'
<1>1. PICK k \in 1..Len(desc) :
         /\ k = pos + 1 /\ pos' = k /\ desc' = desc /\ desc[k].tag \in tags
         /\ count = 0 /\ desc \in Seq(Item)
  BY MovesOn
<1>2. ASSUME NEW key \in (1..255) \X MainTag PROVE ReportOffset(key)' = Counted(key)' % 256
  <2>1. BitsIn(desc, key, k + 1) = BitsIn(desc, key, k)
    BY <1>1, BitsStep
  <2>2. Counted(key)' = BitsIn(desc, key, k + 1) /\ Counted(key) = BitsIn(desc, key, k)
    BY <1>1, Zenon DEF Counted
  <2>3. ReportOffset(key)' = ReportOffset(key)
    BY DEF ReportOffset
  <2> QED  BY <2>1, <2>2, <2>3 DEF OffsetInv
<1> QED  BY <1>1, <1>2 DEF OffsetInv, DoneInv, RestInv

-----------------------------------------------------------------------------
(* One item each.                                                          *)

LEMMA PlainKeeps ==
    ASSUME RegisterInv, NEW tags, Turn(tags), tags \cap MainTag = {},
           tags \cap DataTag = {}, "reportCount" \notin tags,
           UNCHANGED <<count, reportCount, offsetTab, data>>
    PROVE  DataInv' /\ CountInv' /\ DoneInv' /\ RestInv' /\ OffsetInv'
<1>1. /\ ParserInv /\ DataInv /\ CountInv /\ OffsetInv
      /\ count' = count /\ reportCount' = reportCount /\ offsetTab' = offsetTab /\ data' = data
  BY DEF RegisterInv
<1> QED  BY <1>1, DataKept, TimesKept, TableKept

LEMMA DataItemRegisters ==
    ASSUME RegisterInv, DataItem
    PROVE  DataInv' /\ CountInv' /\ DoneInv' /\ RestInv' /\ OffsetInv'
<1>1. DataTag \cap MainTag = {} /\ "reportCount" \notin DataTag
  BY DEF DataTag, MainTag
<1>2. /\ Turn(DataTag) /\ count' = count /\ reportCount' = reportCount /\ offsetTab' = offsetTab
      /\ data' = [data EXCEPT ![Current.tag] = Converted(Current)]
      /\ ParserInv /\ DataInv /\ CountInv /\ OffsetInv
  BY DEF DataItem, RegisterInv
<1>3. CountInv' /\ DoneInv' /\ RestInv' /\ OffsetInv'
  BY <1>1, <1>2, TimesKept, TableKept
<1>4. PICK k \in 1..Len(desc) :
         /\ k = pos + 1 /\ pos' = k /\ desc' = desc /\ desc[k].tag \in DataTag
         /\ k \in Nat \ {0} /\ Current = desc[k]
  BY <1>1, <1>2, MovesOn
<1>5. ASSUME NEW t \in DataTag PROVE data'[t] = GlobalAt(desc, k + 1, t)
  <2>1. data[t] = GlobalAt(desc, k, t) /\ data \in [DataTag -> Int]
    BY <1>2, <1>4 DEF DataInv, ParserInv, TypeOK
  <2>2. /\ desc[k].tag # t => GlobalAt(desc, k + 1, t) = GlobalAt(desc, k, t)
        /\ desc[k].tag = t => GlobalAt(desc, k + 1, t) = Converted(desc[k])
    BY <1>4, GlobalKept
  <2> QED  BY <1>2, <1>4, <2>1, <2>2, Zenon
<1>6. DataInv'
  BY <1>4, <1>5 DEF DataInv
<1> QED  BY <1>3, <1>6

LEMMA ReportCountRegisters ==
    ASSUME RegisterInv, ReportCountItem
    PROVE  DataInv' /\ CountInv' /\ DoneInv' /\ RestInv' /\ OffsetInv'
<1>1. PICK tags : tags = {"reportCount"} /\ Turn(tags)
  BY DEF ReportCountItem
<1>2. tags \cap MainTag = {} /\ tags \cap DataTag = {}
  BY <1>1 DEF MainTag, DataTag
<1>3. /\ reportCount' = Converted(Current) /\ ParserInv /\ DataInv /\ OffsetInv
      /\ count' = count /\ data' = data /\ offsetTab' = offsetTab
  BY DEF ReportCountItem, RegisterInv
<1>4. DataInv' /\ DoneInv' /\ RestInv' /\ OffsetInv'
  BY <1>1, <1>2, <1>3, DataKept, TableKept
<1>5. CountInv'
  <2>1. PICK k \in 1..Len(desc) :
           /\ pos' = k /\ desc' = desc /\ desc[k].tag = "reportCount" /\ k \in Nat \ {0}
           /\ Current = desc[k]
    BY <1>1, <1>2, <1>3, MovesOn
  <2>2. PICK tag : tag = "reportCount"
    OBVIOUS
  <2>3. GlobalAt(desc, k + 1, tag) = Converted(desc[k])
    BY <2>1, <2>2, GlobalKept
  <2> QED  BY <1>3, <2>1, <2>2, <2>3 DEF CountInv
<1> QED  BY <1>4, <1>5

\* Every item but the main ones
LEMMA OthersRegister ==
    ASSUME RegisterInv,
           \/ UsagePageItem \/ UsageItem \/ CollectionItem \/ EndCollectionItem
           \/ DataItem \/ ReportCountItem \/ OtherItem
    PROVE  DataInv' /\ CountInv' /\ DoneInv' /\ RestInv' /\ OffsetInv'
<1> DEFINE Plain(tags) == /\ tags \cap MainTag = {} /\ tags \cap DataTag = {}
                          /\ "reportCount" \notin tags
<1>1. Plain({"usagePage"}) /\ Plain({"usage"}) /\ Plain({"collection"}) /\ Plain({"end"})
      /\ Plain({"other"})
  BY DEF MainTag, DataTag
<1>2. ASSUME NEW tags, Plain(tags), Turn(tags), UNCHANGED <<count, reportCount, offsetTab, data>>
      PROVE  DataInv' /\ CountInv' /\ DoneInv' /\ RestInv' /\ OffsetInv'
  BY <1>2, PlainKeeps
<1> HIDE DEF Plain
<1>3. CASE UsagePageItem
  BY <1>1, <1>2, <1>3 DEF UsagePageItem
<1>4. CASE UsageItem
  BY <1>1, <1>2, <1>4 DEF UsageItem
<1>5. CASE CollectionItem
  BY <1>1, <1>2, <1>5 DEF CollectionItem
<1>6. CASE EndCollectionItem
  BY <1>1, <1>2, <1>6 DEF EndCollectionItem
<1>7. CASE OtherItem
  BY <1>1, <1>2, <1>7 DEF OtherItem
<1> QED  BY <1>3, <1>4, <1>5, <1>6, <1>7, DataItemRegisters, ReportCountRegisters

-----------------------------------------------------------------------------
(* A main item delivers its fields one after the other.                    *)

\* A count is never left over from before when a main item is read.
LEMMA CountIsSet ==
    ASSUME NEW d \in Seq(Item), NEW k \in 1..Len(d), GlobalAt(d, k, "reportCount") > 0
    PROVE  Seen(d, "reportCount", k - 1)
<1>1. k \in 1..(Len(d) + 1)
  OBVIOUS
<1>2. PICK tag : tag = "reportCount"
  OBVIOUS
<1>3. \/ Tagged(d, {tag}, 1, k - 1) = {} /\ GlobalAt(d, k, tag) = 0
      \/ \E i \in Item : i.tag = tag /\ GlobalAt(d, k, tag) = Converted(i)
  BY <1>1, GlobalType
<1>4. Tagged(d, {tag}, 1, k - 1) = {} => GlobalAt(d, k, tag) = 0
  BY DEF GlobalAt
<1> QED  BY <1>2, <1>4 DEF Seen

\* Of the main item at k the n-th field is delivered next.
Coming(k, n) ==
    /\ k \in 1..Len(desc) /\ n \in Nat \ {0} /\ desc \in Seq(Item) /\ k \in 1..(Len(desc) + 1)
    /\ count = 0 => k = pos + 1 /\ n = 1
    /\ count # 0 => k = pos /\ Done = n - 1
    /\ Current = desc[k] /\ desc[k] \in Item /\ desc[k].tag \in MainTag
    /\ n <= GlobalAt(desc, k, "reportCount")
    /\ CountLeft = GlobalAt(desc, k, "reportCount") - n
    /\ FirstUsage = UsageFor(desc, k, n)
    /\ \A t \in DataTag : data[t] = GlobalAt(desc, k, t)

LEMMA FieldToCome ==
    ASSUME RegisterInv, Turn(MainTag)
    PROVE  \E k \in 1..Len(desc), n \in Nat \ {0} :
              Coming(k, n) /\ pos' = k /\ desc' = desc
<1>1. /\ desc' = desc /\ pos' \in 1..Len(desc) /\ Current = desc[pos'] /\ Current \in Item
      /\ Current.tag \in MainTag /\ pos' = NextPos
      /\ pos' = (IF count = 0 THEN pos + 1 ELSE pos)
  BY ReadsMain DEF RegisterInv, NextPos
<1>2. /\ desc \in Seq(Item) /\ WellFormed(desc) /\ pos \in Nat /\ Len(desc) \in Nat
      /\ count \in 0..255 /\ reportCount \in 0..255
  <2>1. TypeOK
    BY DEF RegisterInv, ParserInv
  <2> QED  BY <2>1, DescriptorFacts DEF TypeOK
<1>3. PICK k \in 1..Len(desc) : k = pos'
  BY <1>1
<1>4. k \in 1..(Len(desc) + 1) /\ k - 1 \in Nat
  BY <1>2
<1>5. PICK times \in 0..255 : times = GlobalAt(desc, k, "reportCount") /\ times > 0
  BY <1>1, <1>2, <1>3, <1>4, ByteGlobal DEF WellFormed
<1>6. CASE count = 0
  <2>1. k = pos + 1 /\ k - 1 = pos
    BY <1>1, <1>2, <1>3, <1>6
  <2>2. reportCount = times
    <3>1. Seen(desc, "reportCount", k - 1)
      BY <1>2, <1>5, CountIsSet
    <3> QED  BY <1>5, <2>1, <3>1 DEF RegisterInv, CountInv
  <2>3. CountLeft = times - 1
    <3>1. CountLeft = (times - 1) % 256
      BY <1>6, <2>2 DEF CountLeft
    <3>2. PICK c \in 0..255 : c = times - 1
      BY <1>5
    <3>3. c % 256 = c
      BY SMT
    <3> QED  BY <3>1, <3>2, <3>3, Zenon
  <2>4. \A t \in DataTag : data[t] = GlobalAt(desc, k, t)
    BY <2>1 DEF RegisterInv, DataInv
  <2>5. FirstUsage = UsageFor(desc, k, 1)
    BY <1>6, <2>1, FirstUsageIs DEF RegisterInv
  <2>6. Coming(k, 1)
    BY <1>1, <1>2, <1>3, <1>4, <1>5, <1>6, <2>1, <2>3, <2>4, <2>5 DEF Coming
  <2> QED  BY <1>1, <1>3, <2>6
<1>7. CASE count # 0
  <2>1. k = pos /\ times = Times /\ count < times
    BY <1>1, <1>3, <1>5, <1>7 DEF Times, RegisterInv, DoneInv
  <2>2. PICK n \in Nat \ {0} : Done = n - 1 /\ n = Done + 1 /\ n <= times /\ n = times - count + 1
    BY <1>2, <1>7, <2>1 DEF Done
  <2>3. CountLeft = times - n
    <3>1. CountLeft = (count - 1) % 256
      BY <1>7 DEF CountLeft
    <3>2. PICK c \in 0..255 : c = count - 1 /\ c = times - n
      <4>1. count - 1 \in 0..255
        BY <1>2, <1>7
      <4>2. count - 1 = times - n
        BY <1>2, <2>2
      <4> QED  BY <4>1, <4>2
    <3>3. c % 256 = c
      BY SMT
    <3> QED  BY <3>1, <3>2, <3>3, Zenon
  <2>4. \A t \in DataTag : data[t] = GlobalAt(desc, k, t)
    <3> TAKE t \in DataTag
    <3>1. desc[k].tag # t
      BY <1>1, <1>3 DEF MainTag, DataTag
    <3>2. GlobalAt(desc, k + 1, t) = GlobalAt(desc, k, t)
      BY <3>1, GlobalKept
    <3> QED  BY <2>1, <3>2 DEF RegisterInv, DataInv
  <2>5. FirstUsage = UsageFor(desc, k, n)
    <3>1. NthOf(usages, 1) = UsageFor(desc, k, n)
      BY <1>7, <2>1, <2>2 DEF RegisterInv, RestInv
    <3>2. usages \in Seq(Node)
      BY DEF RegisterInv, ParserInv, TypeOK
    <3>3. FirstUsage = NthOf(usages, 1)
      BY <3>2 DEF FirstUsage, NthOf
    <3> QED  BY <3>1, <3>3
  <2>6. Coming(k, n)
    BY <1>1, <1>2, <1>3, <1>4, <1>5, <1>7, <2>1, <2>2, <2>3, <2>4, <2>5 DEF Coming
  <2> QED  BY <1>1, <1>3, <2>6
<1> QED  BY <1>6, <1>7

\* The bits of a report before the n-th field of the main item at k
BitsSo(key, k, n) ==
    BitsIn(desc, key, k)
        + (IF key = KeyOf(desc, k) THEN (n - 1) * GlobalAt(desc, k, "reportSize") ELSE 0)

LEMMA OffsetToCome ==
    ASSUME RegisterInv, NEW k, NEW n, Coming(k, n), NEW key \in (1..255) \X MainTag
    PROVE  ReportOffset(key) = BitsSo(key, k, n) % 256
<1>1. PICK size \in Int, bits \in Nat :
         size = GlobalAt(desc, k, "reportSize") /\ bits = BitsIn(desc, key, k)
  <2>1. desc \in Seq(Item) /\ k \in 1..Len(desc) /\ k \in 1..(Len(desc) + 1)
    BY DEF Coming
  <2>2. GlobalAt(desc, k, "reportSize") \in 0..255
    BY <2>1, ByteGlobal
  <2>3. BitsIn(desc, key, k) \in Nat
    BY <2>1, BitsStep
  <2> QED  BY <2>2, <2>3
<1>2. ReportOffset(key) = Counted(key) % 256
  BY DEF RegisterInv, OffsetInv
<1>3. Counted(key) = BitsSo(key, k, n)
  <2>1. CASE count = 0
    <3>1. (1 - 1) * size = 0 /\ bits + 0 = bits
      OBVIOUS
    <3> QED  BY <1>1, <2>1, <3>1 DEF Counted, BitsSo, Coming
  <2>2. CASE count # 0
    <3>1. Done = n - 1
      BY <2>2 DEF Coming
    <3> QED  BY <2>2, <3>1 DEF Counted, BitsSo, Coming
  <2> QED  BY <2>1, <2>2
<1> QED  BY <1>2, <1>3

LEMMA RestToCome ==
    ASSUME RegisterInv, NEW k, NEW n, Coming(k, n)
    PROVE  \A j \in Nat \ {0} : NthOf(usages, j) = UsageFor(desc, k, (n - 1) + j)
<1>1. CASE count = 0
  <2>1. usages = UsagesOf(desc, k) /\ n = 1
    BY <1>1 DEF Coming, RegisterInv, ParserInv, ReadInv, UsagesInv
  <2>2. \A j : NthOf(usages, j) = UsageFor(desc, k, j)
    BY <2>1 DEF NthOf, UsageFor
  <2> QED  BY <2>1, <2>2
<1>2. CASE count # 0
  BY <1>2 DEF Coming, RegisterInv, RestInv
<1> QED  BY <1>1, <1>2

LEMMA UsageTaken ==
    ASSUME NEW us \in Seq(Node), NEW j \in Nat \ {0}
    PROVE  NthOf(IF us = <<>> THEN <<>> ELSE Tail(us), j) = NthOf(us, j + 1)
<1>1. CASE us = <<>>
  BY <1>1 DEF NthOf
<1>2. CASE us # <<>>
  <2>1. /\ Len(Tail(us)) = Len(us) - 1 /\ Tail(us) \in Seq(Node) /\ Len(us) \in Nat
        /\ \A i \in 1..Len(Tail(us)) : Tail(us)[i] = us[i + 1]
    BY <1>2
  <2>2. (j \in DOMAIN Tail(us)) <=> (j + 1 \in DOMAIN us)
    BY <2>1
  <2>3. j \in DOMAIN Tail(us) => Tail(us)[j] = us[j + 1]
    BY <2>1
  <2> QED  BY <1>2, <2>2, <2>3 DEF NthOf
<1> QED  BY <1>1, <1>2

LEMMA TableAfter ==
    ASSUME RegisterInv, MainItem, NEW k, NEW n, Coming(k, n), NEW key \in (1..255) \X MainTag
    PROVE  ReportOffset(key)' = BitsSo(key, k, n + 1) % 256
<1>1. PICK size \in 0..255, bits \in Nat :
         size = GlobalAt(desc, k, "reportSize") /\ bits = BitsIn(desc, key, k)
  <2>1. desc \in Seq(Item) /\ k \in 1..Len(desc) /\ k \in 1..(Len(desc) + 1)
    BY DEF Coming
  <2> QED  BY <2>1, ByteGlobal, BitsStep
<1>2. ReportKey(Current.tag) = KeyOf(desc, k) /\ data["reportSize"] = size
  BY <1>1 DEF Coming, ReportKey, KeyOf, DataTag
<1>3. offsetTab' = AddToReport(KeyOf(desc, k), size)
  BY <1>2 DEF MainItem
<1>4. key[1] # 0 /\ n \in Nat /\ (n + 1) - 1 = n
  <2>1. n \in Nat
    BY DEF Coming
  <2>2. key[1] \in 1..255
    OBVIOUS
  <2> QED  BY <2>1, <2>2
<1>5. ReportOffset(key) = BitsSo(key, k, n) % 256
  BY OffsetToCome
<1>6. CASE key = KeyOf(desc, k)
  <2>1. ReportOffset(key)' = (ReportOffset(key) + size) % 256
    BY <1>3, <1>4, <1>6 DEF AddToReport, ReportOffset
  <2>2. PICK so \in Int : so = bits + (n - 1) * size /\ so + size = bits + n * size
    BY <1>1, <1>4
  <2>3. ((so % 256) + size) % 256 = (so + size) % 256
    <3>1. size \in Int
      BY <1>1
    <3> QED  BY <3>1, SMT
  <2> QED  BY <1>1, <1>4, <1>5, <1>6, <2>1, <2>2, <2>3 DEF BitsSo
<1>7. CASE key # KeyOf(desc, k)
  <2>1. ReportOffset(key)' = ReportOffset(key)
    BY <1>3, <1>7 DEF AddToReport, ReportOffset
  <2> QED  BY <1>5, <1>7, <2>1 DEF BitsSo
<1> QED  BY <1>6, <1>7

LEMMA MainRegisters ==
    ASSUME RegisterInv, MainItem
    PROVE  DataInv' /\ CountInv' /\ DoneInv' /\ RestInv' /\ OffsetInv'
<1>1. Turn(MainTag) /\ data' = data /\ reportCount' = reportCount /\ count' = CountLeft
  BY DEF MainItem
<1>2. PICK k \in 1..Len(desc), n \in Nat \ {0} : Coming(k, n) /\ pos' = k /\ desc' = desc
  BY <1>1, FieldToCome
<1>3. PICK times \in 0..255 : times = GlobalAt(desc, k, "reportCount") /\ n <= times
  <2>1. desc \in Seq(Item) /\ k \in 1..(Len(desc) + 1)
    BY <1>2 DEF Coming
  <2> QED  BY <1>2, <2>1, ByteGlobal DEF Coming
<1>4. count' = times - n /\ desc[k].tag \in MainTag /\ k \in Nat \ {0}
  BY <1>1, <1>2, <1>3 DEF Coming
<1>5. DataInv'
  <2>1. ASSUME NEW t \in DataTag PROVE data[t] = GlobalAt(desc, k + 1, t)
    <3>1. desc[k].tag # t
      BY <1>4 DEF MainTag, DataTag
    <3>2. GlobalAt(desc, k + 1, t) = GlobalAt(desc, k, t)
      BY <1>4, <3>1, GlobalKept
    <3> QED  BY <1>2, <3>2 DEF Coming
  <2> QED  BY <1>1, <1>2, <2>1 DEF DataInv
<1>6. CountInv'
  <2>1. CASE count = 0
    <3>1. PICK tag : tag = "reportCount"
      OBVIOUS
    <3>2. desc[k].tag # tag /\ k - 1 = pos /\ k = pos + 1
      BY <1>2, <1>4, <2>1, <3>1, DescriptorFacts DEF Coming, MainTag, RegisterInv, ParserInv
    <3>3. /\ GlobalAt(desc, k + 1, tag) = GlobalAt(desc, k, tag)
          /\ Seen(desc, tag, k) => Seen(desc, tag, k - 1)
      BY <1>4, <3>2, GlobalKept
    <3> QED  BY <1>1, <1>2, <3>1, <3>2, <3>3 DEF RegisterInv, CountInv
  <2>2. CASE count # 0
    BY <1>1, <1>2, <2>2 DEF RegisterInv, CountInv, Coming
  <2> QED  BY <2>1, <2>2
<1>7. Times' = times /\ Done' = n
  BY <1>2, <1>3, <1>4 DEF Times, Done
<1>8. DoneInv'
  BY <1>3, <1>4, <1>7 DEF DoneInv
<1>9. RestInv'
  <2>1. SUFFICES ASSUME count' # 0, NEW j \in Nat \ {0}
                 PROVE  NthOf(usages', j) = UsageFor(desc, k, n + j)
    BY <1>2, <1>7 DEF RestInv
  <2>2. usages' = IF usages = <<>> THEN <<>> ELSE Tail(usages)
    BY <1>1, <2>1 DEF MainItem, UsagesLeft
  <2>3. NthOf(usages', j) = NthOf(usages, j + 1)
    <3>1. usages \in Seq(Node)
      BY DEF RegisterInv, ParserInv, TypeOK
    <3> QED  BY <2>2, <3>1, UsageTaken
  <2>4. PICK i \in Nat \ {0} : i = j + 1 /\ (n - 1) + i = n + j
    OBVIOUS
  <2>5. NthOf(usages, i) = UsageFor(desc, k, (n - 1) + i)
    BY <1>2, RestToCome
  <2> QED  BY <2>3, <2>4, <2>5
<1>10. OffsetInv'
  <2>1. ASSUME NEW key \in (1..255) \X MainTag PROVE Counted(key)' = BitsSo(key, k, n + 1)
    <3>1. (n + 1) - 1 = n
      OBVIOUS
    <3>2. CASE count' # 0
      BY <1>2, <1>7, <3>1, <3>2 DEF Counted, BitsSo
    <3>3. CASE count' = 0
      <4>1. n = times
        BY <1>3, <1>4, <3>3
      <4>2. /\ BitsIn(desc, key, k) \in Nat
            /\ KeyOf(desc, k) = key => BitsIn(desc, key, k + 1)
                  = BitsIn(desc, key, k) + times * GlobalAt(desc, k, "reportSize")
            /\ KeyOf(desc, k) # key => BitsIn(desc, key, k + 1) = BitsIn(desc, key, k)
        <5>1. desc \in Seq(Item)
          BY <1>2 DEF Coming
        <5> QED  BY <1>3, <1>4, <5>1, BitsStep
      <4> QED  BY <1>2, <3>1, <3>3, <4>1, <4>2 DEF Counted, BitsSo
    <3> QED  BY <3>2, <3>3
  <2>2. ASSUME NEW key \in (1..255) \X MainTag PROVE ReportOffset(key)' = BitsSo(key, k, n + 1) % 256
    BY <1>2, TableAfter
  <2> QED  BY <2>1, <2>2 DEF OffsetInv
<1> QED  BY <1>5, <1>6, <1>8, <1>9, <1>10

-----------------------------------------------------------------------------
(* The registers at the calls.                                             *)

LEMMA NothingCounted ==
    ASSUME NEW d
    PROVE  /\ \A tag : ~ Seen(d, tag, 0) /\ GlobalAt(d, 0 + 1, tag) = 0
           /\ \A key : BitsIn(d, key, 0 + 1) = 0
<1>1. 1..0 = {} /\ 0 + 1 = 1 /\ 1 - 1 = 0
  OBVIOUS
<1>2. \A tags : Tagged(d, tags, 1, 0) = {}
  BY <1>1, Zenon DEF Tagged
<1> QED  BY <1>1, <1>2, BitsStart, Zenon DEF Seen, GlobalAt

LEMMA FreshRegisters ==
    ASSUME pos = 0, count = 0, offsetTab = <<>>, data = NoData
    PROVE  DataInv /\ CountInv /\ DoneInv /\ RestInv /\ OffsetInv
<1>1. DataInv /\ CountInv
  BY NothingCounted, Zenon DEF DataInv, CountInv, NoData
<1>2. OffsetInv
  <2>1. \A key : Counted(key) = 0 /\ ReportOffset(key) = 0
    BY NothingCounted DEF Counted, ReportOffset
  <2>2. 0 % 256 = 0
    OBVIOUS
  <2> QED  BY <2>1, <2>2, Zenon DEF OffsetInv
<1> QED  BY <1>1, <1>2 DEF DoneInv, RestInv

LEMMA ResetRegisters ==
    ASSUME ResetParser
    PROVE  DataInv' /\ CountInv' /\ DoneInv' /\ RestInv' /\ OffsetInv'
<1>1. pos' = 0 /\ count' = 0 /\ offsetTab' = <<>> /\ data' = NoData
  BY DEF ResetParser
<1>2. DataInv' /\ CountInv'
  BY <1>1, NothingCounted, Zenon DEF DataInv, CountInv, NoData
<1>3. OffsetInv'
  <2>1. \A key : Counted(key)' = 0 /\ ReportOffset(key)' = 0
    BY <1>1, NothingCounted DEF Counted, ReportOffset
  <2>2. 0 % 256 = 0
    OBVIOUS
  <2> QED  BY <2>1, <2>2, Zenon DEF OffsetInv
<1> QED  BY <1>1, <1>2, <1>3 DEF DoneInv, RestInv

LEMMA SameRegisters ==
    ASSUME RegisterInv, UNCHANGED <<desc, cleared, reportCount>>
    PROVE  DataInv' /\ CountInv' /\ DoneInv' /\ RestInv' /\ OffsetInv'
<1>1. /\ desc' = desc /\ pos' = pos /\ count' = count /\ usages' = usages
      /\ offsetTab' = offsetTab /\ data' = data /\ reportCount' = reportCount
  BY DEF cleared
<1>2. Done' = Done /\ Times' = Times
  BY <1>1 DEF Done, Times
<1>3. \A key : Counted(key)' = Counted(key) /\ ReportOffset(key)' = ReportOffset(key)
  BY <1>1, <1>2, Zenon DEF Counted, ReportOffset
<1>4. DataInv' /\ CountInv' /\ DoneInv' /\ RestInv'
  BY <1>1, <1>2 DEF RegisterInv, DataInv, CountInv, DoneInv, RestInv
<1>5. OffsetInv'
  BY <1>3 DEF RegisterInv, OffsetInv
<1> QED  BY <1>4, <1>5

LEMMA RegisterInvInit == Init => RegisterInv
<1> SUFFICES ASSUME Init PROVE RegisterInv
  OBVIOUS
<1>1. pos = 0 /\ count = 0 /\ offsetTab = <<>> /\ data = NoData
  BY DEF Init
<1> QED  BY <1>1, FreshRegisters, ParserInvInit DEF RegisterInv

LEMMA RegisterInvNext == RegisterInv /\ [Next]_vars => RegisterInv'
<1> SUFFICES ASSUME RegisterInv, [Next]_vars PROVE RegisterInv'
  OBVIOUS
<1>1. ParserInv'
  BY ParserInvNext DEF RegisterInv
<1>2. CASE \/ UsagePageItem \/ UsageItem \/ CollectionItem \/ EndCollectionItem
           \/ DataItem \/ ReportCountItem \/ OtherItem
  BY <1>1, <1>2, OthersRegister DEF RegisterInv
<1>3. CASE MainItem
  BY <1>1, <1>3, MainRegisters DEF RegisterInv
<1>4. CASE Exhausted
  <2>1. CASE call.kind = "list"
    BY <1>1, <1>4, <2>1, ResetRegisters DEF Exhausted, RegisterInv
  <2>2. CASE call.kind # "list"
    BY <1>1, <1>4, <2>2, SameRegisters DEF Exhausted, RegisterInv
  <2> QED  BY <2>1, <2>2
<1>5. CASE \E path \in SearchPath, type \in MainTag : HidFindObject(path, type)
  <2>1. ResetParser
    BY <1>5 DEF HidFindObject
  <2> QED  BY <1>1, <2>1, ResetRegisters DEF RegisterInv
<1>6. CASE HidDumpTree
  <2>1. ResetParser
    BY <1>6 DEF HidDumpTree
  <2> QED  BY <1>1, <2>1, ResetRegisters DEF RegisterInv
<1>7. CASE UNCHANGED vars
  BY <1>1, <1>7, SameRegisters DEF vars, parserVars, RegisterInv
<1> QED  BY <1>2, <1>3, <1>4, <1>5, <1>6, <1>7 DEF Next, ParseStep

LEMMA RegisterInvariant == Spec => []RegisterInv
BY RegisterInvInit, RegisterInvNext, PTL DEF Spec

-----------------------------------------------------------------------------
(* The fields delivered so far.                                            *)

SoFar == IF count = 0 THEN FieldsUpTo(desc, pos + 1)
         ELSE FieldsUpTo(desc, pos) \o SubSeq(FieldsAt(desc, pos), 1, Done)

Begins(s, t) == Len(s) <= Len(t) /\ \A i \in 1..Len(s) : t[i] = s[i]

LEMMA SubSeqGrows ==
    ASSUME NEW T, NEW s \in Seq(T), NEW n \in 1..Len(s)
    PROVE  /\ SubSeq(s, 1, n - 1) \in Seq(T) /\ Len(SubSeq(s, 1, n - 1)) = n - 1
           /\ SubSeq(s, 1, n) = Append(SubSeq(s, 1, n - 1), s[n])
           /\ SubSeq(s, 1, n) \in Seq(T)
<1>1. \A m \in 0..Len(s) : /\ SubSeq(s, 1, m) \in Seq(T) /\ Len(SubSeq(s, 1, m)) = m
                           /\ \A i \in 1..m : SubSeq(s, 1, m)[i] = s[i]
  <2> TAKE m \in 0..Len(s)
  <2>1. \A i \in 1..m : s[i] \in T
    OBVIOUS
  <2> QED  BY <2>1, SubSeqProperties
<1>2. n - 1 \in 0..Len(s) /\ n \in 0..Len(s)
  OBVIOUS
<1>3. PICK a \in Seq(T), b \in Seq(T) :
         /\ a = SubSeq(s, 1, n - 1) /\ Len(a) = n - 1 /\ \A i \in 1..(n - 1) : a[i] = s[i]
         /\ b = SubSeq(s, 1, n) /\ Len(b) = n /\ \A i \in 1..n : b[i] = s[i]
  BY <1>1, <1>2
<1>4. Append(a, s[n]) = b
  <2>1. /\ Append(a, s[n]) \in Seq(T) /\ Len(Append(a, s[n])) = n
        /\ \A i \in 1..n : Append(a, s[n])[i] = s[i]
    BY <1>3
  <2> QED  BY <1>3, <2>1, SeqEqual
<1> QED  BY <1>3, <1>4

LEMMA AppendBehind ==
    ASSUME NEW T, NEW a \in Seq(T), NEW b \in Seq(T), NEW x \in T
    PROVE  a \o Append(b, x) = Append(a \o b, x)
OBVIOUS

LEMMA PrefixOfConcat ==
    ASSUME NEW T, NEW a \in Seq(T), NEW b \in Seq(T)
    PROVE  Begins(a, a \o b)
BY DEF Begins

LEMMA BeginsFurther ==
    ASSUME NEW T, NEW a \in Seq(T), NEW b \in Seq(T), NEW c \in Seq(T), Begins(a, b), Begins(b, c)
    PROVE  Begins(a, c)
BY DEF Begins

\* The fields up to an item are the first fields of all.
LEMMA UpToBegins ==
    ASSUME NEW d \in Seq(Item)
    PROVE  \A k \in 1..(Len(d) + 1) : FieldsUpTo(d, k) \in Seq(FieldSet(d)) /\ Begins(FieldsUpTo(d, k), Fields(d))
<1> DEFINE last == Len(d) + 1
           Fine(k) == FieldsUpTo(d, k) \in Seq(FieldSet(d)) /\ Begins(FieldsUpTo(d, k), Fields(d))
           I == {n \in Nat : n < last => Fine(last - n)}
<1>1. last \in Nat \ {0} /\ Fields(d) = FieldsUpTo(d, last)
  BY FieldsAre
<1>2. ASSUME NEW k \in 1..Len(d)
      PROVE  /\ FieldsUpTo(d, k + 1) = FieldsUpTo(d, k) \o FieldsAt(d, k)
                 \/ FieldsUpTo(d, k + 1) = FieldsUpTo(d, k)
             /\ FieldsUpTo(d, k) \in Seq(FieldSet(d))
             /\ FieldsUpTo(d, k + 1) \in Seq(FieldSet(d))
             /\ Begins(FieldsUpTo(d, k), FieldsUpTo(d, k + 1))
  <2>1. PICK a \in Seq(FieldSet(d)), b \in Seq(FieldSet(d)) :
           a = FieldsUpTo(d, k) /\ b = FieldsAt(d, k)
    BY FieldsStep, FieldsAtType
  <2>2. FieldsUpTo(d, k + 1) = a \o b \/ FieldsUpTo(d, k + 1) = a
    BY <2>1, FieldsStep
  <2>3. a \o b \in Seq(FieldSet(d)) /\ Begins(a, a \o b) /\ Begins(a, a)
    <3>1. Begins(a, a)
      BY DEF Begins
    <3> QED  BY <3>1, PrefixOfConcat
  <2> QED  BY <2>1, <2>2, <2>3
<1>3. 0 \in I
  <2>1. FieldsUpTo(d, last) \in Seq(FieldSet(d))
    <3>1. CASE Len(d) = 0
      <4>1. last = 1
        BY <3>1
      <4>2. <<>> \in Seq(FieldSet(d))
        OBVIOUS
      <4> HIDE DEF last
      <4> QED  BY <4>1, <4>2, FieldsAre, Zenon
    <3>2. CASE Len(d) # 0
      <4>1. PICK k \in 1..Len(d) : k = Len(d)
        BY <3>2
      <4> QED  BY <1>2, <4>1
    <3> QED  BY <3>1, <3>2
  <2>2. Begins(FieldsUpTo(d, last), FieldsUpTo(d, last))
    BY <2>1 DEF Begins
  <2>3. last - 0 = last
    BY <1>1
  <2> QED  BY <1>1, <2>1, <2>2, <2>3
<1>4. ASSUME NEW n \in Nat, n \in I PROVE n + 1 \in I
  <2>1. SUFFICES ASSUME n + 1 < last PROVE Fine(last - (n + 1))
    OBVIOUS
  <2>2. PICK k \in 1..Len(d) : k = last - (n + 1) /\ k + 1 = last - n
    <3>1. /\ last - (n + 1) \in 1..Len(d)
          /\ (last - (n + 1)) + 1 = last - n
      <4>1. Len(d) \in Nat
        OBVIOUS
      <4> QED  BY <2>1, <4>1
    <3> QED  BY <3>1
  <2>3. Fine(k + 1)
    BY <1>1, <1>4, <2>1, <2>2
  <2>4. Fine(last)
    BY <1>1, <1>3
  <2>5. Begins(FieldsUpTo(d, k), Fields(d))
    BY <1>1, <1>2, <2>3, <2>4, BeginsFurther
  <2> QED  BY <1>2, <2>2, <2>5
<1> HIDE DEF I
<1>5. \A n \in Nat : n \in I
  BY <1>3, <1>4, NatInSet
<1>6. ASSUME NEW k \in 1..(Len(d) + 1) PROVE Fine(k)
  <2>1. PICK n \in Nat : n < last /\ last - n = k
    <3>1. last - k \in Nat /\ last - k < last /\ last - (last - k) = k
      BY <1>1
    <3> QED  BY <3>1
  <2>2. n \in I
    BY <1>5
  <2> QED  BY <2>1, <2>2 DEF I
<1> QED  BY <1>6

LEMMA SoFarKept ==
    ASSUME ParserInv, NEW tags, Turn(tags), tags \cap MainTag = {}, count' = count
    PROVE  SoFar' = SoFar
<1>1. PICK k \in 1..Len(desc) :
         /\ k = pos + 1 /\ pos' = k /\ desc' = desc /\ desc[k].tag \in tags
         /\ count = 0 /\ desc \in Seq(Item)
  BY MovesOn
<1>2. FieldsUpTo(desc, k + 1) = FieldsUpTo(desc, k)
  BY <1>1, FieldsStep
<1> QED  BY <1>1, <1>2 DEF SoFar

\* A main item's field is the next one in the catalogue.
LEMMA SoFarGrows ==
    ASSUME RegisterInv, MainItem, NEW k, NEW n, Coming(k, n), pos' = k, desc' = desc
    PROVE  /\ SoFar \in Seq(FieldSet(desc)) /\ Field(desc, k, n) \in FieldSet(desc)
           /\ SoFar' = Append(SoFar, Field(desc, k, n))
           /\ Begins(SoFar', Fields(desc))
<1>1. /\ k \in 1..Len(desc) /\ desc \in Seq(Item) /\ n \in Nat \ {0} /\ k \in 1..(Len(desc) + 1)
      /\ desc[k].tag \in MainTag
  BY DEF Coming
<1>2. PICK times \in 0..255 : times = GlobalAt(desc, k, "reportCount") /\ n <= times
  BY <1>1, ByteGlobal DEF Coming
<1>3. PICK before \in Seq(FieldSet(desc)), here \in Seq(FieldSet(desc)) :
         /\ before = FieldsUpTo(desc, k) /\ here = FieldsAt(desc, k)
         /\ Len(here) = times /\ here[n] = Field(desc, k, n)
         /\ FieldsUpTo(desc, k + 1) = before \o here
  <2>1. /\ FieldsUpTo(desc, k) \in Seq(FieldSet(desc)) /\ FieldsAt(desc, k) \in Seq(FieldSet(desc))
        /\ Len(FieldsAt(desc, k)) = times
        /\ FieldsUpTo(desc, k + 1) = FieldsUpTo(desc, k) \o FieldsAt(desc, k)
    BY <1>1, <1>2, FieldsAtType, FieldsStep
  <2>2. FieldsAt(desc, k)[n] = Field(desc, k, n)
    BY <1>1, <1>2 DEF FieldsAt
  <2> QED  BY <2>1, <2>2
<1>4. n \in 1..Len(here)
  BY <1>1, <1>2, <1>3
<1>5. PICK a \in Seq(FieldSet(desc)), b \in Seq(FieldSet(desc)), f \in FieldSet(desc) :
         /\ a = SubSeq(here, 1, n - 1) /\ b = SubSeq(here, 1, n) /\ f = Field(desc, k, n)
         /\ b = Append(a, f) /\ Len(a) = n - 1
  <2>1. /\ SubSeq(here, 1, n - 1) \in Seq(FieldSet(desc)) /\ Len(SubSeq(here, 1, n - 1)) = n - 1
        /\ SubSeq(here, 1, n) = Append(SubSeq(here, 1, n - 1), here[n])
        /\ SubSeq(here, 1, n) \in Seq(FieldSet(desc))
    BY <1>4, SubSeqGrows
  <2>2. here[n] \in FieldSet(desc)
    BY <1>4
  <2> QED  BY <1>3, <2>1, <2>2
<1>6. before \o b = Append(before \o a, f) /\ before \o a \in Seq(FieldSet(desc))
  <2>1. PICK T : T = FieldSet(desc)
    OBVIOUS
  <2>2. before \in Seq(T) /\ a \in Seq(T) /\ f \in T
    BY <2>1
  <2>3. before \o Append(a, f) = Append(before \o a, f)
    BY <2>2, AppendBehind
  <2>4. before \o a \in Seq(T)
    BY <2>2
  <2> QED  BY <1>5, <2>1, <2>3, <2>4, Zenon
<1>7. SoFar = before \o a
  <2>1. CASE count = 0
    <3>1. a = <<>> /\ k = pos + 1
      BY <1>5, <2>1 DEF Coming
    <3>2. before \o <<>> = before
      OBVIOUS
    <3> QED  BY <1>3, <2>1, <3>1, <3>2 DEF SoFar
  <2>2. CASE count # 0
    BY <1>3, <1>5, <2>2 DEF SoFar, Coming
  <2> QED  BY <2>1, <2>2
<1>8. count' = times - n
  BY <1>2 DEF MainItem, Coming
<1>9. SoFar' = before \o b /\ Begins(before \o b, FieldsUpTo(desc, k + 1))
  <2>1. CASE count' = 0
    <3>1. n = times
      BY <1>1, <1>2, <1>8, <2>1
    <3>2. b = here
      BY <1>3, <1>5, <3>1
    <3>3. Begins(before \o here, before \o here)
      BY DEF Begins
    <3>4. SoFar' = FieldsUpTo(desc, k + 1)
      BY <2>1 DEF SoFar
    <3> QED  BY <1>3, <3>2, <3>3, <3>4
  <2>2. CASE count' # 0
    <3>1. Done' = n
      BY <1>1, <1>2, <1>8 DEF Done, Times
    <3>2. SoFar' = before \o b
      BY <1>3, <1>5, <2>2, <3>1 DEF SoFar
    <3>3. Begins(before \o b, before \o here)
      <4>1. Len(b) = n /\ \A i \in 1..n : b[i] = here[i]
        <5>1. \A i \in 1..n : here[i] \in FieldSet(desc)
          BY <1>4
        <5> QED  BY <1>1, <1>5, <5>1, SubSeqProperties
      <4>2. n <= Len(here)
        BY <1>4
      <4> QED  BY <1>1, <4>1, <4>2 DEF Begins
    <3> QED  BY <1>3, <3>2, <3>3
  <2> QED  BY <2>1, <2>2
<1>10. Begins(FieldsUpTo(desc, k + 1), Fields(desc)) /\ FieldsUpTo(desc, k + 1) \in Seq(FieldSet(desc))
      /\ Fields(desc) \in Seq(FieldSet(desc))
  <2>1. k + 1 \in 1..(Len(desc) + 1) /\ Len(desc) + 1 \in 1..(Len(desc) + 1)
    BY <1>1
  <2>2. PICK i \in 1..(Len(desc) + 1), last \in 1..(Len(desc) + 1) : i = k + 1 /\ last = Len(desc) + 1
    BY <2>1
  <2>3. /\ Begins(FieldsUpTo(desc, i), Fields(desc)) /\ FieldsUpTo(desc, i) \in Seq(FieldSet(desc))
        /\ FieldsUpTo(desc, last) \in Seq(FieldSet(desc))
    BY <1>1, UpToBegins
  <2>4. Fields(desc) = FieldsUpTo(desc, last)
    BY <1>1, <2>2, FieldsAre
  <2> QED  BY <2>2, <2>3, <2>4
<1>11. Begins(SoFar', Fields(desc))
  <2>1. before \o b \in Seq(FieldSet(desc))
    OBVIOUS
  <2> QED  BY <1>9, <1>10, <2>1, BeginsFurther
<1> QED  BY <1>5, <1>6, <1>7, <1>9, <1>11

-----------------------------------------------------------------------------
(* The delivered object is the field to come.                              *)

LEMMA DeliveredPath ==
    ASSUME RegisterInv, Turn(MainTag), NEW k, NEW n, Coming(k, n), pos' = k, desc' = desc
    PROVE  /\ PathOf(Delivered) = Append(PathTo(desc, k), UsageFor(desc, k, n))
           /\ PathOf(Delivered) \in Seq(Node) /\ Len(PathOf(Delivered)) = depth + 1
           /\ depth + 1 \in 1..PathSize
           /\ \A i \in 1..(depth + 1) : PathOf(Delivered)[i] = Delivered.node[i]
<1>1. /\ k \in 1..Len(desc) /\ desc \in Seq(Item) /\ k \in 1..(Len(desc) + 1)
      /\ desc[k].tag \in MainTag /\ FirstUsage = UsageFor(desc, k, n) /\ ParserInv
  BY DEF Coming, RegisterInv
<1>2. depth + 1 \in 1..PathSize /\ depth \in Nat /\ SubSeq(node, 1, depth) = PathTo(desc, k + 1)
  BY <1>1, MainFits
<1>3. PathTo(desc, k + 1) = PathTo(desc, k)
  <2>1. desc[k].tag \notin {"collection", "end"}
    BY <1>1 DEF MainTag
  <2> QED  BY <1>1, <2>1, PathStep
<1>4. PICK p \in Seq(Node) : /\ p = PathTo(desc, k) /\ Len(p) = depth
                              /\ \A i \in 1..depth : p[i] = node[i]
  <2>1. PathTo(desc, k) \in Seq(Node)
    BY <1>1, PathType
  <2>2. \A i \in 1..depth : node[i] \in Node
    BY <1>2, PathSizeIsNumber DEF RegisterInv, ParserInv, TypeOK
  <2>3. Len(SubSeq(node, 1, depth)) = depth /\ \A i \in 1..depth : SubSeq(node, 1, depth)[i] = node[i]
    BY <1>2, <2>2, SubSeqProperties
  <2> QED  BY <1>2, <1>3, <2>1, <2>3
<1>5. PICK u \in Node : u = FirstUsage
  BY <1>1, FirstUsageIs
<1>6. /\ Append(p, u) \in Seq(Node) /\ Len(Append(p, u)) = depth + 1
      /\ \A i \in 1..depth : Append(p, u)[i] = p[i]
      /\ Append(p, u)[depth + 1] = u
  BY <1>4
<1>7. \A i \in 1..(depth + 1) : Delivered.node[i] = Append(p, u)[i]
  <2> TAKE i \in 1..(depth + 1)
  <2>1. /\ Delivered.node = [node EXCEPT ![depth + 1] = u] /\ i \in 1..PathSize
        /\ node \in [1..PathSize -> Node]
    BY <1>1, <1>2, <1>5, DeliveredType, PathSizeIsNumber DEF ParserInv, TypeOK
  <2>2. CASE i = depth + 1
    BY <1>6, <2>1, <2>2
  <2>3. CASE i # depth + 1
    <3>1. i \in 1..depth
      BY <1>2, <2>3
    <3> QED  BY <1>4, <1>6, <2>1, <2>3, <3>1
  <2> QED  BY <2>2, <2>3
<1>8. SubSeq(Delivered.node, 1, depth + 1) = Append(p, u)
  BY <1>6, <1>7, NodesArePath
<1>9. PathOf(Delivered) = Append(p, u)
  BY <1>8 DEF PathOf, Delivered
<1> QED  BY <1>1, <1>2, <1>4, <1>5, <1>6, <1>7, <1>9

LEMMA DeliveredOffset ==
    ASSUME RegisterInv, Turn(MainTag), NEW k, NEW n, Coming(k, n), Answerable(desc)
    PROVE  /\ ReportOffset(ReportKey(Current.tag)) = Field(desc, k, n).offset
           /\ data["reportId"] # 0
<1>1. /\ k \in 1..Len(desc) /\ desc \in Seq(Item) /\ k \in 1..(Len(desc) + 1)
      /\ desc[k].tag \in MainTag /\ n \in Nat \ {0} /\ n <= GlobalAt(desc, k, "reportCount")
      /\ Current = desc[k] /\ data["reportId"] = GlobalAt(desc, k, "reportId")
  BY DEF Coming, DataTag
<1>2. k \in Tagged(desc, MainTag, 1, Len(desc))
  BY <1>1 DEF Tagged
<1>3. /\ GlobalAt(desc, k, "reportId") # 0 /\ GlobalAt(desc, k, "reportId") \in 0..255
      /\ GlobalAt(desc, k, "reportSize") \in 0..255 /\ GlobalAt(desc, k, "reportCount") \in 0..255
  BY <1>1, <1>2, ByteGlobal DEF Answerable
<1>4. n \in 1..GlobalAt(desc, k, "reportCount")
  BY <1>1, <1>3
<1>5. PICK key \in (1..255) \X MainTag : key = ReportKey(Current.tag) /\ key = KeyOf(desc, k)
  <2>1. PICK id \in 1..255 : id = GlobalAt(desc, k, "reportId")
    BY <1>3
  <2>2. ReportKey(Current.tag) = <<id, desc[k].tag>> /\ KeyOf(desc, k) = <<id, desc[k].tag>>
    BY <1>1, <2>1, Zenon DEF ReportKey, KeyOf
  <2>3. <<id, desc[k].tag>> \in (1..255) \X MainTag
    BY <1>1
  <2> QED  BY <2>2, <2>3
<1>6. Field(desc, k, n).offset = BitsBefore(desc, k) + (n - 1) * GlobalAt(desc, k, "reportSize")
  BY DEF Field
<1>7. BitsBefore(desc, k) = BitsIn(desc, key, k) /\ BitsIn(desc, key, k) \in Nat
  BY <1>1, <1>5, BitsBeforeIs, BitsStep
<1>8. Field(desc, k, n).offset = BitsSo(key, k, n)
  BY <1>5, <1>6, <1>7 DEF BitsSo
<1>9. Field(desc, k, n).offset < 256
  BY <1>2, <1>4 DEF Answerable
<1>10. Field(desc, k, n).offset \in Nat
  <2>1. PICK a \in Nat, b \in Nat, m \in Nat :
           a = BitsIn(desc, key, k) /\ b = GlobalAt(desc, k, "reportSize") /\ m = n - 1
    BY <1>1, <1>3, <1>7
  <2>2. a + m * b \in Nat
    OBVIOUS
  <2> QED  BY <1>6, <1>7, <2>1, <2>2
<1>11. PICK v \in 0..255 : v = BitsSo(key, k, n)
  BY <1>8, <1>9, <1>10
<1>12. v % 256 = v
  BY SMT
<1>13. ReportOffset(key) = BitsSo(key, k, n) % 256
  BY OffsetToCome
<1> QED  BY <1>1, <1>3, <1>5, <1>8, <1>11, <1>12, <1>13, Zenon

LEMMA DeliveredField ==
    ASSUME RegisterInv, Turn(MainTag), NEW k, NEW n, Coming(k, n), pos' = k, desc' = desc,
           Answerable(desc)
    PROVE  AsField(Delivered) = Field(desc, k, n)
<1>1. PathOf(Delivered) = Append(PathTo(desc, k), UsageFor(desc, k, n))
  BY DeliveredPath
<1>2. ReportOffset(ReportKey(Current.tag)) = Field(desc, k, n).offset
  BY DeliveredOffset
<1>3. data = [t \in DataTag |-> GlobalAt(desc, k, t)]
  <2>1. data \in [DataTag -> Int] /\ \A t \in DataTag : data[t] = GlobalAt(desc, k, t)
    BY DEF Coming, RegisterInv, ParserInv, TypeOK
  <2> QED  BY <2>1, Zenon
<1>4. Current = desc[k]
  BY DEF Coming
<1>5. AsField(Delivered) =
        [path |-> PathOf(Delivered), type |-> Current.tag, attribute |-> Current.value % 256,
         offset |-> ReportOffset(ReportKey(Current.tag)), data |-> data]
  BY DEF AsField, Delivered
<1>6. Field(desc, k, n) =
        [path |-> Append(PathTo(desc, k), UsageFor(desc, k, n)), type |-> desc[k].tag,
         attribute |-> desc[k].value % 256, offset |-> Field(desc, k, n).offset,
         data |-> [t \in DataTag |-> GlobalAt(desc, k, t)]]
  BY DEF Field
<1> QED  BY <1>1, <1>2, <1>3, <1>4, <1>5, <1>6, Zenon

-----------------------------------------------------------------------------
(* The answers.                                                            *)

Written(os) == [i \in DOMAIN os |-> AsField(os[i])]

\* What FindObject looks for is the path it was called with.
Searching ==
    /\ hidData.depth = Len(call.path) /\ hidData.type = call.type
    /\ hidData.data["reportId"] = 0
    /\ \A i \in 1..Len(call.path) : hidData.node[i] = call.path[i]

AnswerInv ==
    /\ meaning = Fields(desc)
    /\ call # None =>
          /\ call.kind = "first" => given = <<>>
          /\ call.kind = "list" => Written(given) = SoFar
          /\ call.kind = "find" =>
                /\ given = <<>> /\ Searching
                /\ \A i \in 1..Len(SoFar) : ~ Catalogue!Fits(SoFar[i], call.path, call.type)

LEMMA PrefixIs ==
    ASSUME NEW s \in Seq(Node), NEW t \in Seq(Node)
    PROVE  IsPrefix(s, t) <=> Len(s) <= Len(t) /\ \A i \in 1..Len(s) : s[i] = t[i]
<1>1. CASE Len(s) <= Len(t)
  <2>1. \A i \in 1..Len(s) : s[i] \in Node /\ t[i] \in Node
    BY <1>1
  <2>2. /\ SubSeq(s, 1, Len(s)) \in Seq(Node) /\ Len(SubSeq(s, 1, Len(s))) = Len(s)
        /\ \A i \in 1..Len(s) : SubSeq(s, 1, Len(s))[i] = s[i]
    BY <2>1, SubSeqProperties
  <2>3. /\ SubSeq(t, 1, Len(s)) \in Seq(Node) /\ Len(SubSeq(t, 1, Len(s))) = Len(s)
        /\ \A i \in 1..Len(s) : SubSeq(t, 1, Len(s))[i] = t[i]
    BY <2>1, SubSeqProperties
  <2>4. PICK a \in Seq(Node), b \in Seq(Node) : a = SubSeq(s, 1, Len(s)) /\ b = SubSeq(t, 1, Len(s))
    BY <2>2, <2>3
  <2>5. a = b <=> \A i \in 1..Len(s) : s[i] = t[i]
    <3>1. a = b => \A i \in 1..Len(s) : s[i] = t[i]
      BY <2>2, <2>3, <2>4
    <3>2. (\A i \in 1..Len(s) : s[i] = t[i]) => a = b
      BY <2>2, <2>3, <2>4, SeqEqual
    <3> QED  BY <3>1, <3>2
  <2> QED  BY <1>1, <2>4, <2>5 DEF IsPrefix
<1>2. CASE ~ (Len(s) <= Len(t))
  BY <1>2 DEF IsPrefix
<1> QED  BY <1>1, <1>2

\* FindObject returns the object just when the catalogue's field fits.
LEMMA WantedFits ==
    ASSUME RegisterInv, Turn(MainTag), NEW k, NEW n, Coming(k, n), pos' = k, desc' = desc,
           Answerable(desc), call.kind = "find", call \in Call, Searching
    PROVE  IsWanted(Delivered) <=> Catalogue!Fits(Field(desc, k, n), call.path, call.type)
<1>1. PICK p \in Seq(Node), q \in Seq(Node) :
         /\ p = call.path /\ q = PathOf(Delivered) /\ p \in SearchPath /\ Len(p) <= PathSize
         /\ Len(q) = depth + 1 /\ depth + 1 \in 1..PathSize
         /\ \A i \in 1..(depth + 1) : q[i] = Delivered.node[i]
  <2>1. call.path \in SearchPath
    BY DEF Call
  <2>2. call.path \in Seq(Node) /\ Len(call.path) <= PathSize
    BY <2>1, PathsAreNodes
  <2> QED  BY <2>1, <2>2, DeliveredPath
<1>2. /\ Delivered.type = Current.tag /\ Delivered.data["reportId"] # 0
      /\ Field(desc, k, n).path = q /\ Field(desc, k, n).type = Current.tag
  <2>1. data["reportId"] # 0 /\ AsField(Delivered) = Field(desc, k, n)
    BY DeliveredOffset, DeliveredField
  <2>2. Delivered.type = Current.tag /\ Delivered.data = data
    BY DEF Delivered
  <2>3. AsField(Delivered).path = q /\ AsField(Delivered).type = Delivered.type
    BY <1>1 DEF AsField
  <2> QED  BY <2>1, <2>2, <2>3
<1>3. ~ IsStrictPrefix(q, p)
  <2>1. /\ k \in 1..Len(desc) /\ desc \in Seq(Item) /\ k \in 1..(Len(desc) + 1)
        /\ desc[k].tag \in MainTag /\ n \in Nat \ {0} /\ n <= GlobalAt(desc, k, "reportCount")
    BY DEF Coming
  <2>2. k \in Tagged(desc, MainTag, 1, Len(desc)) /\ n \in 1..GlobalAt(desc, k, "reportCount")
    BY <2>1, ByteGlobal DEF Tagged
  <2> QED  BY <1>1, <1>2, <2>2 DEF Answerable
<1>4. IsWanted(Delivered) <=>
        /\ Current.tag = call.type /\ Len(p) > 0
        /\ \A i \in 1..Len(p) : Delivered.node[i] = p[i]
  BY <1>1, <1>2, Zenon DEF IsWanted, Searching
<1>5. Catalogue!Fits(Field(desc, k, n), call.path, call.type) <=>
        p # <<>> /\ Current.tag = call.type /\ IsPrefix(p, q)
  <2>1. ASSUME NEW f, NEW type
        PROVE  Catalogue!Fits(f, p, type) <=> p # <<>> /\ f.type = type /\ IsPrefix(p, f.path)
    BY DEF Catalogue!Fits, Catalogue!IsPrefix, IsPrefix
  <2> QED  BY <1>1, <1>2, <2>1
<1>6. p # <<>> <=> Len(p) > 0
  OBVIOUS
<1>7. IsPrefix(p, q) <=> \A i \in 1..Len(p) : Delivered.node[i] = p[i]
  <2>1. CASE Len(p) <= depth + 1
    BY <1>1, <2>1, PrefixIs
  <2>2. CASE ~ (Len(p) <= depth + 1)
    <3>1. ~ IsPrefix(p, q)
      BY <1>1, <2>2, PrefixIs
    <3>2. ASSUME \A i \in 1..Len(p) : Delivered.node[i] = p[i] PROVE FALSE
      <4>1. \A i \in 1..Len(q) : q[i] = p[i]
        BY <1>1, <2>2, <3>2
      <4>2. IsPrefix(q, p) /\ q # p
        BY <1>1, <2>2, <4>1, PrefixIs
      <4> QED  BY <1>3, <4>2 DEF IsStrictPrefix
    <3> QED  BY <3>1, <3>2
  <2> QED  BY <2>1, <2>2
<1> QED  BY <1>4, <1>5, <1>6, <1>7

LEMMA MapGrows ==
    ASSUME NEW S, NEW T, NEW v \in [S -> T], NEW os \in Seq(S), NEW o \in S
    PROVE  [i \in DOMAIN Append(os, o) |-> v[Append(os, o)[i]]]
              = Append([i \in DOMAIN os |-> v[os[i]]], v[o])
<1>1. DOMAIN os = 1..Len(os) /\ Len(os) \in Nat
  OBVIOUS
<1>2. PICK a \in Seq(T) : /\ a = [i \in DOMAIN os |-> v[os[i]]] /\ Len(a) = Len(os)
                            /\ \A i \in 1..Len(os) : a[i] = v[os[i]]
  <2>1. PICK g : g = [i \in DOMAIN os |-> v[os[i]]]
    OBVIOUS
  <2>2. g = [i \in 1..Len(os) |-> v[os[i]]]
    BY <1>1, <2>1, Zenon
  <2>3. /\ g \in [1..Len(os) -> T] /\ DOMAIN g = 1..Len(os)
        /\ \A i \in 1..Len(os) : g[i] = v[os[i]]
    BY <2>2
  <2>4. g \in Seq(T) /\ Len(g) = Len(os)
    BY <1>1, <2>3
  <2> QED  BY <2>1, <2>3, <2>4, Zenon
<1>3. /\ DOMAIN Append(os, o) = 1..(Len(os) + 1) /\ Append(os, o)[Len(os) + 1] = o
      /\ \A i \in 1..Len(os) : Append(os, o)[i] = os[i]
  OBVIOUS
<1>4. /\ DOMAIN Append(a, v[o]) = 1..(Len(os) + 1)
      /\ \A i \in 1..(Len(os) + 1) : Append(a, v[o])[i] = v[Append(os, o)[i]]
  BY <1>2, <1>3
<1>5. Append(a, v[o]) = [i \in 1..(Len(os) + 1) |-> Append(a, v[o])[i]]
  <2>1. Append(a, v[o]) \in Seq(T)
    OBVIOUS
  <2> QED  BY <1>4, <2>1
<1> QED  BY <1>2, <1>3, <1>4, <1>5, Zenon

LEMMA WrittenGrows ==
    ASSUME NEW os \in Seq(Object), NEW o \in Object
    PROVE  /\ Written(Append(os, o)) = Append(Written(os), AsField(o))
           /\ Written(<<>>) = <<>>
<1>1. PICK v : v = [x \in Object |-> AsField(x)]
  OBVIOUS
<1>2. PICK T : T = {AsField(x) : x \in Object}
  OBVIOUS
<1>3. v \in [Object -> T] /\ \A x \in Object : v[x] = AsField(x)
  BY <1>1, <1>2, Zenon
<1>4. ASSUME NEW ps \in Seq(Object) PROVE Written(ps) = [i \in DOMAIN ps |-> v[ps[i]]]
  <2>1. \A i \in DOMAIN ps : ps[i] \in Object
    OBVIOUS
  <2>2. \A i \in DOMAIN ps : v[ps[i]] = AsField(ps[i])
    BY <1>3, <2>1, Zenon
  <2> QED  BY <2>2, Zenon DEF Written
<1>5. Append(os, o) \in Seq(Object)
  OBVIOUS
<1>6. Written(Append(os, o)) = Append(Written(os), v[o])
  <2>1. [i \in DOMAIN Append(os, o) |-> v[Append(os, o)[i]]]
            = Append([i \in DOMAIN os |-> v[os[i]]], v[o])
    BY <1>3, MapGrows
  <2> QED  BY <1>4, <1>5, <2>1, Zenon
<1>7. Written(<<>>) = <<>>
  BY DEF Written
<1> QED  BY <1>3, <1>6, <1>7, Zenon

LEMMA OthersAnswer ==
    ASSUME ParserInv, AnswerInv, NEW tags, Turn(tags), tags \cap MainTag = {},
           UNCHANGED <<count, hidData, call, given>>
    PROVE  AnswerInv'
<1>1. /\ SoFar' = SoFar /\ hidData' = hidData /\ call' = call /\ given' = given
      /\ desc' = desc /\ meaning' = meaning
  BY SoFarKept DEF Turn
<1>2. Searching' = Searching
  BY <1>1 DEF Searching
<1> QED  BY <1>1, <1>2 DEF AnswerInv, Catalogue!Fits, Catalogue!IsPrefix

LEMMA MainAnswers ==
    ASSUME RegisterInv, AnswerInv, MainItem, Answerable(desc)
    PROVE  AnswerInv'
<1>1. Turn(MainTag) /\ call # None /\ meaning' = meaning /\ desc' = desc /\ Deliver(Delivered)
  BY DEF MainItem, Turn
<1>2. PICK k \in 1..Len(desc), n \in Nat \ {0} : Coming(k, n) /\ pos' = k /\ desc' = desc
  BY <1>1, FieldToCome
<1>3. PICK f \in FieldSet(desc), s \in Seq(FieldSet(desc)) :
         /\ f = Field(desc, k, n) /\ f = AsField(Delivered) /\ s = SoFar
         /\ SoFar' = Append(s, f)
  BY <1>1, <1>2, SoFarGrows, DeliveredField
<1>4. CASE call' = None
  BY <1>1, <1>4 DEF AnswerInv
<1>5. CASE call.kind = "list" /\ call' = call /\ given' = Append(given, Delivered)
  <2>1. Delivered \in Object /\ given \in Seq(Object)
    BY <1>1, DeliveredType DEF RegisterInv, ParserInv, TypeOK
  <2>2. Written(given) = SoFar
    BY <1>1, <1>5 DEF AnswerInv
  <2>3. Written(given') = SoFar'
    BY <1>3, <1>5, <2>1, <2>2, WrittenGrows
  <2>4. Written(given)' = Written(given')
    BY DEF Written, AsField, PathOf
  <2> QED  BY <1>1, <1>5, <2>3, <2>4 DEF AnswerInv
<1>6. CASE call.kind = "find" /\ ~ IsWanted(Delivered) /\ UNCHANGED <<hidData, given, call>>
  <2>1. call' = call /\ given' = given /\ hidData' = hidData /\ call \in Call
    BY <1>1, <1>6 DEF RegisterInv, ParserInv, TypeOK
  <2>2. /\ given = <<>> /\ Searching
        /\ \A i \in 1..Len(s) : ~ Catalogue!Fits(s[i], call.path, call.type)
    BY <1>1, <1>3, <1>6 DEF AnswerInv
  <2>3. ~ Catalogue!Fits(f, call.path, call.type)
    BY <1>1, <1>2, <1>3, <1>6, <2>1, <2>2, WantedFits
  <2>4. \A i \in 1..Len(Append(s, f)) : ~ Catalogue!Fits(Append(s, f)[i], call.path, call.type)
    <3> TAKE i \in 1..Len(Append(s, f))
    <3>1. CASE i \in 1..Len(s)
      <4>1. Append(s, f)[i] = s[i]
        BY <3>1
      <4> QED  BY <2>2, <3>1, <4>1
    <3>2. CASE i \notin 1..Len(s)
      <4>1. Append(s, f)[i] = f
        BY <3>2
      <4> QED  BY <2>3, <4>1
    <3> QED  BY <3>1, <3>2
  <2>5. Searching'
    BY <2>1, <2>2 DEF Searching
  <2>6. \A g, path, type : Catalogue!Fits(g, path, type)' = Catalogue!Fits(g, path, type)
    BY DEF Catalogue!Fits, Catalogue!IsPrefix
  <2> QED  BY <1>1, <1>3, <1>6, <2>1, <2>2, <2>4, <2>5 DEF AnswerInv
<1> QED  BY <1>1, <1>4, <1>5, <1>6 DEF Deliver

LEMMA NothingYet ==
    ASSUME ParserInv
    PROVE  FieldsUpTo(desc, 0 + 1) = <<>> /\ Written(<<>>) = <<>>
<1>1. 0 + 1 = 1 /\ desc \in Seq(Item)
  BY DescriptorFacts DEF ParserInv
<1>2. Written(<<>>) = <<>>
  BY DEF Written
<1> QED  BY <1>1, <1>2, FieldsAre, Zenon

LEMMA FindObjectAnswers ==
    ASSUME RegisterInv, AnswerInv, NEW path \in SearchPath, NEW type \in MainTag,
           HidFindObject(path, type)
    PROVE  AnswerInv'
<1>1. /\ pos' = 0 /\ count' = 0 /\ given' = <<>> /\ desc' = desc /\ meaning' = meaning
      /\ call' = [kind |-> "find", path |-> path, type |-> type]
  BY DEF HidFindObject, ResetParser
<1>2. SoFar' = <<>>
  <2>1. FieldsUpTo(desc, 0 + 1) = <<>>
    BY NothingYet DEF RegisterInv
  <2> QED  BY <1>1, <2>1, Zenon DEF SoFar
<1>3. call'.kind = "find" /\ call'.path = path /\ call'.type = type
  BY <1>1
<1>4. Searching'
  <2>1. /\ hidData'.depth = Len(path) /\ hidData'.type = type
        /\ hidData'.data = [hidData.data EXCEPT !["reportId"] = 0]
        /\ hidData'.node = [k \in 1..PathSize |-> IF k <= Len(path) THEN path[k] ELSE hidData.node[k]]
    BY DEF HidFindObject, RegisterInv, ParserInv, TypeOK, Object
  <2>2. hidData.data \in [DataTag -> Int] /\ "reportId" \in DataTag
    BY DEF RegisterInv, ParserInv, TypeOK, Object, DataTag
  <2>3. hidData'.data["reportId"] = 0
    BY <2>1, <2>2
  <2>4. path \in Seq(Node) /\ Len(path) <= PathSize
    BY PathsAreNodes
  <2>5. \A i \in 1..Len(path) : hidData'.node[i] = path[i]
    <3> TAKE i \in 1..Len(path)
    <3>1. i \in 1..PathSize /\ i <= Len(path)
      BY <2>4, PathSizeIsNumber
    <3> QED  BY <2>1, <3>1
  <2> QED  BY <1>3, <2>1, <2>3, <2>5 DEF Searching
<1>5. ~ \E i \in 1..Len(<<>>) : TRUE
  OBVIOUS
<1> QED  BY <1>1, <1>2, <1>3, <1>4, <1>5 DEF AnswerInv

LEMMA DumpTreeAnswers ==
    ASSUME RegisterInv, AnswerInv, HidDumpTree
    PROVE  AnswerInv'
<1>1. /\ pos' = 0 /\ count' = 0 /\ given' = <<>> /\ desc' = desc /\ meaning' = meaning
      /\ call' = [kind |-> "list"]
  BY DEF HidDumpTree, ResetParser
<1>2. FieldsUpTo(desc, 0 + 1) = <<>> /\ Written(<<>>) = <<>>
  BY NothingYet DEF RegisterInv
<1>3. SoFar' = <<>>
  BY <1>1, <1>2, Zenon DEF SoFar
<1>4. Written(given)' = <<>>
  <2>1. Written(given)' = Written(given')
    BY DEF Written, AsField, PathOf
  <2> QED  BY <1>1, <1>2, <2>1
<1>5. call'.kind = "list"
  BY <1>1
<1> QED  BY <1>1, <1>3, <1>4, <1>5 DEF AnswerInv

CatalogueInv == RegisterInv /\ AnswerInv

LEMMA CatalogueInvInit == Init => CatalogueInv
<1> SUFFICES ASSUME Init PROVE CatalogueInv
  OBVIOUS
<1>1. RegisterInv
  BY RegisterInvInit
<1>2. meaning = Fields(desc) /\ call.kind = "first" /\ given = <<>>
  BY DEF Init
<1> QED  BY <1>1, <1>2 DEF CatalogueInv, AnswerInv

LEMMA CatalogueInvNext ==
    ASSUME \A d \in Descriptor : Answerable(d), CatalogueInv, [Next]_vars
    PROVE  CatalogueInv'
<1>1. RegisterInv' /\ RegisterInv /\ AnswerInv /\ ParserInv /\ Answerable(desc)
  BY RegisterInvNext DEF CatalogueInv, RegisterInv, ParserInv, TypeOK
<1>2. CASE \/ UsagePageItem \/ UsageItem \/ CollectionItem \/ EndCollectionItem
           \/ DataItem \/ ReportCountItem \/ OtherItem
  <2>1. \E tags : /\ tags \cap MainTag = {} /\ Turn(tags)
                  /\ UNCHANGED <<count, hidData, call, given>>
    <3>1. /\ {"usagePage"} \cap MainTag = {} /\ {"usage"} \cap MainTag = {}
          /\ {"collection"} \cap MainTag = {} /\ {"end"} \cap MainTag = {}
          /\ DataTag \cap MainTag = {} /\ {"reportCount"} \cap MainTag = {}
          /\ {"other"} \cap MainTag = {}
      BY DEF MainTag, DataTag
    <3> QED  BY <1>2, <3>1, Zenon DEF UsagePageItem, UsageItem, CollectionItem, EndCollectionItem,
                DataItem, ReportCountItem, OtherItem
  <2>2. AnswerInv'
    BY <1>1, <2>1, OthersAnswer
  <2> QED  BY <1>1, <2>2 DEF CatalogueInv
<1>3. CASE MainItem
  BY <1>1, <1>3, MainAnswers DEF CatalogueInv
<1>4. CASE Exhausted
  BY <1>1, <1>4 DEF Exhausted, AnswerInv, CatalogueInv
<1>5. CASE \E path \in SearchPath, type \in MainTag : HidFindObject(path, type)
  BY <1>1, <1>5, FindObjectAnswers DEF CatalogueInv
<1>6. CASE HidDumpTree
  BY <1>1, <1>6, DumpTreeAnswers DEF CatalogueInv
<1>7. CASE UNCHANGED vars
  <2>1. /\ desc' = desc /\ pos' = pos /\ count' = count /\ hidData' = hidData
        /\ call' = call /\ given' = given /\ meaning' = meaning
    BY <1>7 DEF vars, parserVars, cleared
  <2>2. SoFar' = SoFar /\ Searching' = Searching
    BY <2>1 DEF SoFar, Done, Times, Searching
  <2> QED  BY <1>1, <2>1, <2>2 DEF CatalogueInv, AnswerInv, Catalogue!Fits, Catalogue!IsPrefix
<1> QED  BY <1>2, <1>3, <1>4, <1>5, <1>6, <1>7 DEF Next, ParseStep

-----------------------------------------------------------------------------
(* The refinement.                                                         *)

NoneFits(s, path, type) == \A i \in 1..Len(s) : ~ Catalogue!Fits(s[i], path, type)

LEMMA NothingFits ==
    ASSUME NEW path, NEW type, NEW T, meaning \in Seq(T), NoneFits(meaning, path, type)
    PROVE  Catalogue!FirstFit(path, type) = <<>>
<1>1. DOMAIN meaning = 1..Len(meaning)
  OBVIOUS
<1>2. {k \in DOMAIN meaning : Catalogue!Fits(meaning[k], path, type)} = {}
  BY <1>1, Zenon DEF NoneFits
<1> QED  BY <1>2, Zenon DEF Catalogue!FirstFit

LEMMA FirstFits ==
    ASSUME NEW path, NEW type, NEW T, meaning \in Seq(T), NEW s \in Seq(T), NEW f \in T,
           Begins(Append(s, f), meaning), NoneFits(s, path, type), Catalogue!Fits(f, path, type)
    PROVE  Catalogue!FirstFit(path, type) = <<f>>
<1> DEFINE found == {k \in DOMAIN meaning : Catalogue!Fits(meaning[k], path, type)}
           IsFirst(k) == \A j \in found : k <= j
<1>1. PICK n \in Nat : n = Len(s) + 1
  OBVIOUS
<1>2. /\ n \in DOMAIN meaning /\ meaning[n] = f
      /\ \A i \in 1..Len(s) : meaning[i] = s[i]
      /\ DOMAIN meaning = 1..Len(meaning) /\ Len(meaning) \in Nat
  <2>1. /\ Len(Append(s, f)) = n /\ Append(s, f)[n] = f /\ n \in 1..n
        /\ \A i \in 1..Len(s) : Append(s, f)[i] = s[i] /\ i \in 1..n
    BY <1>1
  <2>2. n <= Len(meaning) /\ \A i \in 1..n : meaning[i] = Append(s, f)[i]
    BY <2>1 DEF Begins
  <2> QED  BY <2>1, <2>2
<1>3. n \in found
  BY <1>2
<1>4. IsFirst(n)
  <2>1. SUFFICES ASSUME NEW j \in found, ~ (n <= j) PROVE FALSE
    OBVIOUS
  <2>2. j \in 1..Len(s) /\ Catalogue!Fits(meaning[j], path, type)
    BY <1>1, <1>2, <2>1
  <2>3. Catalogue!Fits(s[j], path, type)
    BY <1>2, <2>2
  <2> QED  BY <2>2, <2>3 DEF NoneFits
<1>5. \A k \in found : IsFirst(k) => k = n
  BY <1>1, <1>2, <1>3, <1>4
<1>6. (CHOOSE k \in found : IsFirst(k)) = n
  <2> HIDE DEF found, IsFirst
  <2> QED  BY <1>3, <1>4, <1>5, Zenon
<1>7. Catalogue!FirstFit(path, type)
        = IF found = {} THEN <<>> ELSE <<meaning[CHOOSE k \in found : IsFirst(k)]>>
  BY Zenon DEF Catalogue!FirstFit
<1> HIDE DEF found, IsFirst
<1> QED  BY <1>2, <1>3, <1>6, <1>7, Zenon

\* What the variables of FieldCatalogue stand for
First == [kind |-> "first"]
Asked(c) == IF c = None \/ c = First THEN None ELSE c
Answered(c, os) == IF c = None THEN Written(os) ELSE <<>>

LEMMA AskIs ==
    Catalogue!Ask <=>
        /\ Asked(call) = None /\ Asked(call') # None
        /\ Answered(call', given') = <<>> /\ meaning' = meaning
BY Zenon DEF Catalogue!Ask, Asked, Answered, First, Written, AsField, PathOf

LEMMA ReplyIs ==
    Catalogue!Reply <=>
        /\ Asked(call) # None /\ Asked(call') = None
        /\ Answered(call', given')
              = IF Asked(call).kind = "list" THEN meaning
                ELSE Catalogue!FirstFit(Asked(call).path, Asked(call).type)
        /\ meaning' = meaning
BY Zenon DEF Catalogue!Reply, Asked, Answered, First, Written, AsField, PathOf

LEMMA StutterIs ==
    UNCHANGED Catalogue!catalogueVars <=>
        /\ meaning' = meaning /\ Asked(call') = Asked(call)
        /\ Answered(call', given') = Answered(call, given)
BY Zenon DEF Catalogue!catalogueVars, Asked, Answered, First, Written, AsField, PathOf

LEMMA FieldsType ==
    ASSUME NEW d \in Seq(Item)
    PROVE  Fields(d) \in Seq(FieldSet(d))
<1>1. PICK last \in 1..(Len(d) + 1) : last = Len(d) + 1
  OBVIOUS
<1>2. FieldsUpTo(d, last) \in Seq(FieldSet(d))
  BY UpToBegins
<1> QED  BY <1>1, <1>2, FieldsAre

\* HIDParse has then delivered every field.
LEMMA AllDelivered ==
    ASSUME RegisterInv, Exhausted, Answerable(desc)
    PROVE  SoFar = Fields(desc)
<1>1. desc \in Seq(Item) /\ pos = Len(desc) /\ pos \in Nat
  BY DescriptorFacts DEF RegisterInv, ParserInv, Exhausted
<1>2. count = 0
  <2>1. SUFFICES ASSUME count # 0 PROVE FALSE
    OBVIOUS
  <2>2. pos # 0 /\ desc[pos].tag \in MainTag
    BY <2>1 DEF RegisterInv, ParserInv, ReadInv, PendingInv
  <2>3. desc # <<>>
    BY <1>1, <2>2
  <2> QED  BY <1>1, <2>2, <2>3 DEF Answerable
<1> QED  BY <1>1, <1>2, FieldsAre DEF SoFar

CatalogueStep == Catalogue!Ask \/ Catalogue!Reply \/ UNCHANGED Catalogue!catalogueVars

LEMMA CallsAre ==
    ASSUME call # None, TypeOK
    PROVE  /\ call.kind \in {"first", "list", "find"}
           /\ call.kind = "first" => Asked(call) = None
           /\ call.kind # "first" => Asked(call) = call
           /\ Asked(None) = None /\ Answered(call, given) = <<>>
<1>1. \/ call \in [kind : {"first", "list"}]
      \/ call \in [kind : {"find"}, path : SearchPath, type : MainTag]
  BY DEF TypeOK, Call
<1>2. call.kind \in {"first", "list", "find"} /\ (call.kind = "first" => call = First)
  BY <1>1 DEF First
<1>3. First.kind = "first"
  BY DEF First
<1> QED  BY <1>2, <1>3, Zenon DEF Asked, Answered

\* The first parse of a device asks nothing.
LEMMA FirstParseEnds ==
    ASSUME CatalogueInv, call # None, call.kind = "first", call' = None, given' = given,
           meaning' = meaning
    PROVE  CatalogueStep
<1>1. given = <<>> /\ TypeOK
  BY DEF CatalogueInv, AnswerInv, RegisterInv, ParserInv
<1>2. Asked(call) = None /\ Answered(call, given) = <<>> /\ Asked(None) = None
  BY <1>1, CallsAre
<1>3. Answered(None, <<>>) = <<>>
  BY DEF Answered, Written
<1> QED  BY <1>1, <1>2, <1>3, StutterIs, Zenon DEF CatalogueStep

LEMMA MainItemStep ==
    ASSUME CatalogueInv, MainItem, Answerable(desc)
    PROVE  CatalogueStep
<1>1. /\ Turn(MainTag) /\ call # None /\ meaning' = meaning /\ desc' = desc
      /\ Deliver(Delivered) /\ RegisterInv /\ AnswerInv /\ TypeOK /\ call \in Call
  BY DEF MainItem, Turn, CatalogueInv, RegisterInv, ParserInv, TypeOK
<1>2. CASE call.kind = "first" /\ call' = None /\ given' = given
  BY <1>1, <1>2, FirstParseEnds
<1>3. CASE call' = call
  <2>1. Answered(call, given') = Answered(call, given)
    BY <1>1 DEF Answered
  <2> QED  BY <1>1, <1>3, <2>1, StutterIs, Zenon DEF CatalogueStep
<1>4. CASE call.kind = "find" /\ IsWanted(Delivered) /\ given' = <<Delivered>> /\ call' = None
  <2>1. PICK k \in 1..Len(desc), n \in Nat \ {0} : Coming(k, n) /\ pos' = k /\ desc' = desc
    BY <1>1, FieldToCome
  <2>2. PICK f \in FieldSet(desc), s \in Seq(FieldSet(desc)) :
           /\ f = Field(desc, k, n) /\ f = AsField(Delivered) /\ s = SoFar
           /\ Begins(Append(s, f), Fields(desc))
    BY <1>1, <2>1, SoFarGrows, DeliveredField
  <2>3. NoneFits(s, call.path, call.type) /\ Searching /\ meaning = Fields(desc)
    BY <1>1, <1>4, <2>2 DEF AnswerInv, NoneFits
  <2>4. Catalogue!Fits(f, call.path, call.type)
    BY <1>1, <1>4, <2>1, <2>2, <2>3, WantedFits
  <2>5. meaning \in Seq(FieldSet(desc))
    BY <1>1, <2>3, FieldsType, DescriptorFacts
  <2>6. Catalogue!FirstFit(call.path, call.type) = <<f>>
    <3>1. PICK T : T = FieldSet(desc)
      OBVIOUS
    <3>2. meaning \in Seq(T) /\ s \in Seq(T) /\ f \in T
      BY <2>5, <3>1
    <3>3. Begins(Append(s, f), meaning)
      BY <2>2, <2>3
    <3> QED  BY <2>3, <2>4, <3>2, <3>3, FirstFits
  <2>7. Written(given') = <<f>>
    <3>1. Written(<<Delivered>>) = <<AsField(Delivered)>>
      BY DEF Written
    <3> QED  BY <1>4, <2>2, <3>1
  <2>8. Asked(call) = call /\ Asked(None) = None /\ call.kind # "list"
    BY <1>1, <1>4, CallsAre
  <2> QED  BY <1>1, <1>4, <2>6, <2>7, <2>8, ReplyIs, Zenon DEF CatalogueStep, Answered
<1> QED  BY <1>1, <1>2, <1>3, <1>4 DEF Deliver

LEMMA ExhaustedStep ==
    ASSUME CatalogueInv, Exhausted, Answerable(desc)
    PROVE  CatalogueStep
<1>1. /\ call # None /\ call' = None /\ given' = given /\ meaning' = meaning
      /\ RegisterInv /\ AnswerInv /\ TypeOK /\ meaning = Fields(desc)
  BY DEF Exhausted, CatalogueInv, RegisterInv, ParserInv, AnswerInv
<1>2. SoFar = meaning /\ meaning \in Seq(FieldSet(desc))
  BY <1>1, AllDelivered, FieldsType, DescriptorFacts
<1>3. Answered(None, given) = Written(given)
  BY DEF Answered
<1>4. CASE call.kind = "first"
  BY <1>1, <1>4, FirstParseEnds
<1>5. CASE call.kind = "list"
  <2>1. Written(given) = meaning
    BY <1>1, <1>2, <1>5 DEF AnswerInv
  <2>2. Asked(call) = call /\ Asked(None) = None
    BY <1>1, <1>5, CallsAre
  <2> QED  BY <1>1, <1>3, <1>5, <2>1, <2>2, ReplyIs, Zenon DEF CatalogueStep
<1>6. CASE call.kind = "find"
  <2>1. NoneFits(meaning, call.path, call.type) /\ given = <<>>
    BY <1>1, <1>2, <1>6 DEF AnswerInv, NoneFits
  <2>2. Catalogue!FirstFit(call.path, call.type) = <<>>
    <3>1. PICK T : T = FieldSet(desc)
      OBVIOUS
    <3>2. meaning \in Seq(T)
      BY <1>2, <3>1
    <3> QED  BY <2>1, <3>2, NothingFits
  <2>3. Written(<<>>) = <<>>
    BY DEF Written
  <2>4. Asked(call) = call /\ Asked(None) = None /\ call.kind # "list"
    BY <1>1, <1>6, CallsAre
  <2> QED  BY <1>1, <1>3, <2>1, <2>2, <2>3, <2>4, ReplyIs, Zenon DEF CatalogueStep
<1> QED  BY <1>1, <1>4, <1>5, <1>6, CallsAre

LEMMA NewCall ==
    ASSUME call = None, call' \in Call, call' # First, meaning' = meaning
    PROVE  CatalogueStep
<1>1. call' # None
  BY NoneIsNoCall
<1>2. Asked(call) = None /\ Asked(call') = call' /\ Answered(call', given') = <<>>
  BY <1>1, Zenon DEF Asked, Answered
<1> QED  BY <1>1, <1>2, AskIs, Zenon DEF CatalogueStep

LEMMA StepsAreCatalogue ==
    ASSUME \A d \in Descriptor : Answerable(d), CatalogueInv, [Next]_vars
    PROVE  CatalogueStep
<1>1. Answerable(desc)
  BY DEF CatalogueInv, RegisterInv, ParserInv, TypeOK
<1>2. CASE \/ UsagePageItem \/ UsageItem \/ CollectionItem \/ EndCollectionItem
           \/ DataItem \/ ReportCountItem \/ OtherItem
  <2>1. call' = call /\ given' = given /\ meaning' = meaning
    BY <1>2 DEF UsagePageItem, UsageItem, CollectionItem, EndCollectionItem,
                DataItem, ReportCountItem, OtherItem, Turn
  <2> QED  BY <2>1, StutterIs, Zenon DEF CatalogueStep
<1>3. CASE MainItem
  BY <1>1, <1>3, MainItemStep
<1>4. CASE Exhausted
  BY <1>1, <1>4, ExhaustedStep
<1>5. ASSUME NEW path \in SearchPath, NEW type \in MainTag, HidFindObject(path, type)
      PROVE  CatalogueStep
  <2>1. call' = [kind |-> "find", path |-> path, type |-> type] /\ call = None /\ meaning' = meaning
    BY <1>5 DEF HidFindObject
  <2>2. call' \in Call /\ call' # First
    BY <2>1 DEF Call, First
  <2> QED  BY <2>1, <2>2, NewCall
<1>6. CASE HidDumpTree
  <2>1. call' = [kind |-> "list"] /\ call = None /\ meaning' = meaning
    BY <1>6 DEF HidDumpTree
  <2>2. call' \in Call /\ call' # First
    BY <2>1 DEF Call, First
  <2> QED  BY <2>1, <2>2, NewCall
<1>7. CASE UNCHANGED vars
  <2>1. call' = call /\ given' = given /\ meaning' = meaning
    BY <1>7 DEF vars
  <2> QED  BY <2>1, StutterIs, Zenon DEF CatalogueStep
<1> QED  BY <1>2, <1>3, <1>4, <1>5, <1>6, <1>7 DEF Next, ParseStep

\* A tree dump writes each field that the descriptor means, in order; a search
\* finds the first one that fits, or nothing: for every descriptor that
\* HIDParse can answer for, and whatever was parsed before.  That each call
\* returns is left to the runs.
THEOREM ParserIsCatalogue ==
    ASSUME \A d \in Descriptor : Answerable(d)
    PROVE  Spec => Catalogue!CatalogueSafety
<1>1. Init => Catalogue!CatalogueInit
  <2>1. SUFFICES ASSUME Init PROVE Asked(call) = None /\ Answered(call, given) = <<>>
    BY Zenon DEF Catalogue!CatalogueInit, Asked, Answered, First, Written, AsField, PathOf
  <2>2. call = First /\ given = <<>>
    BY <2>1 DEF Init, First
  <2>3. Written(<<>>) = <<>>
    BY DEF Written
  <2> QED  BY <2>2, <2>3, Zenon DEF Asked, Answered
<1>2. CatalogueInv /\ [Next]_vars => [Catalogue!Ask \/ Catalogue!Reply]_Catalogue!catalogueVars
  BY StepsAreCatalogue DEF CatalogueStep
<1>3. CatalogueInv /\ [Next]_vars => CatalogueInv'
  BY CatalogueInvNext
<1> QED  BY <1>1, <1>2, <1>3, CatalogueInvInit, PTL DEF Spec, Catalogue!CatalogueSafety

-----------------------------------------------------------------------------
(* The offset table, during a tree dump.                                   *)

Mine(os, key) == {k \in DOMAIN os : <<os[k].data["reportId"], os[k].type>> = key}
SumOf(os, key) == Total(SizesOf(os), Mine(os, key))

ListedInv ==
    call # None /\ call.kind = "list" =>
        \A key \in (1..255) \X MainTag : ReportOffset(key) = SumOf(given, key)

LEMMA SumOfNone == \A key : SumOf(<<>>, key) = 0
<1> SUFFICES ASSUME NEW key PROVE SumOf(<<>>, key) = 0
  OBVIOUS
<1>1. PICK S : S = {} /\ IsFiniteSet(S)
  BY FS_EmptySet
<1>2. Mine(<<>>, key) = S
  BY <1>1 DEF Mine
<1>3. \A x \in S : SizesOf(<<>>)[x] \in Int
  BY <1>1
<1>4. Total(SizesOf(<<>>), {}) = 0
  BY <1>1, <1>3, TotalStep, Zenon
<1> QED  BY <1>1, <1>2, <1>4 DEF SumOf

LEMMA SumOfAppend ==
    ASSUME NEW os \in Seq(Object), NEW o \in Object, NEW key
    PROVE  SumOf(Append(os, o), key) = SumOf(os, key)
              + (IF <<o.data["reportId"], o.type>> = key THEN o.data["reportSize"] ELSE 0)
<1>1. PICK os2 \in Seq(Object), n \in Nat \ {0} :
         /\ os2 = Append(os, o) /\ n = Len(os) + 1 /\ os2[n] = o
         /\ DOMAIN os = 1..(n - 1) /\ DOMAIN os2 = 1..n
         /\ \A k \in 1..(n - 1) : os2[k] = os[k]
  <2>1. /\ Append(os, o) \in Seq(Object) /\ Len(os) \in Nat
        /\ Append(os, o)[Len(os) + 1] = o /\ DOMAIN os = 1..Len(os)
        /\ DOMAIN Append(os, o) = 1..(Len(os) + 1)
        /\ \A k \in 1..Len(os) : Append(os, o)[k] = os[k]
    OBVIOUS
  <2>2. (Len(os) + 1) - 1 = Len(os) /\ Len(os) + 1 \in Nat \ {0}
    BY <2>1
  <2> QED  BY <2>1, <2>2
<1>2. PICK S, T : S = Mine(os, key) /\ T = Mine(os2, key)
  OBVIOUS
<1>3. PICK v, w : v = SizesOf(os) /\ w = SizesOf(os2)
  OBVIOUS
<1>4. /\ S \in SUBSET (1..(n - 1)) /\ T \in SUBSET (1..n) /\ IsFiniteSet(S) /\ IsFiniteSet(T)
      /\ n \notin S
  <2>1. S \in SUBSET (1..(n - 1)) /\ T \in SUBSET (1..n)
    BY <1>1, <1>2 DEF Mine
  <2>2. n - 1 \in Nat /\ n \in Nat /\ n \notin 1..(n - 1)
    OBVIOUS
  <2> QED  BY <2>1, <2>2, GreatestOf
<1>5. T \ {n} = S
  <2>1. 1..(n - 1) = (1..n) \ {n}
    OBVIOUS
  <2> QED  BY <1>1, <1>2, <1>4, <2>1 DEF Mine
<1>6. n \in T <=> <<o.data["reportId"], o.type>> = key
  BY <1>1, <1>2 DEF Mine
<1>7. (\A x \in S : v[x] = w[x]) /\ (\A x \in T : w[x] \in Int)
      /\ (\A x \in S : v[x] \in Int) /\ w[n] = o.data["reportSize"]
  <2>1. \A obj \in Object : obj.data["reportSize"] \in Int
    BY DEF Object, DataTag
  <2>2. (\A k \in 1..(n - 1) : v[k] = os[k].data["reportSize"])
        /\ (\A k \in 1..n : w[k] = os2[k].data["reportSize"])
    BY <1>1, <1>3, Zenon DEF SizesOf
  <2>3. \A k \in 1..n : os2[k] \in Object
    BY <1>1
  <2>4. \A k \in 1..(n - 1) : k \in 1..n
    OBVIOUS
  <2>5. n \in 1..n
    OBVIOUS
  <2> QED  BY <1>1, <1>4, <2>1, <2>2, <2>3, <2>4, <2>5, ZenonT(60)
<1>8. Total(v, S) = Total(w, S) /\ Total(v, S) \in Int
  BY <1>4, <1>7, TotalAgrees, TotalStep
<1>9. n \in T => Total(w, T) = Total(w, S) + o.data["reportSize"]
  <2>1. \A m \in T : Total(w, T) = Total(w, T \ {m}) + w[m]
    BY <1>4, <1>7, TotalStep
  <2> QED  BY <1>5, <1>7, <2>1
<1>10. n \notin T => Total(w, T) = Total(w, S)
  <2>1. n \notin T => T = S
    BY <1>5
  <2> QED  BY <2>1
<1>11. SumOf(os, key) = Total(v, S) /\ SumOf(Append(os, o), key) = Total(w, T)
  BY <1>1, <1>2, <1>3 DEF SumOf
<1> QED  BY <1>6, <1>8, <1>9, <1>10, <1>11

LEMMA MainItemLists ==
    ASSUME CatalogueInv, ListedInv, MainItem, Answerable(desc), OffsetsFit(desc)
    PROVE  ListedInv'
<1>1. /\ RegisterInv /\ TypeOK /\ Turn(MainTag) /\ call # None
      /\ offsetTab' = AddToReport(ReportKey(Current.tag), data["reportSize"])
      /\ given \in Seq(Object)
  BY DEF CatalogueInv, RegisterInv, ParserInv, TypeOK, MainItem, Turn
<1>2. SUFFICES ASSUME call' # None, call'.kind = "list", NEW key \in (1..255) \X MainTag
               PROVE  ReportOffset(key)' = SumOf(given', key)
  BY DEF ListedInv, SumOf, Mine, SizesOf
<1>3. call.kind = "list" /\ given' = Append(given, Delivered)
  BY <1>2 DEF MainItem, Deliver
<1>4. ReportOffset(key) = SumOf(given, key)
  BY <1>1, <1>3 DEF ListedInv
<1>5. PICK k \in 1..Len(desc), n \in Nat \ {0} : Coming(k, n) /\ pos' = k /\ desc' = desc
  BY <1>1, FieldToCome
<1>6. /\ ReportOffset(ReportKey(Current.tag)) = Field(desc, k, n).offset
      /\ data["reportId"] # 0
  BY <1>1, <1>5, DeliveredOffset
<1>7. data["reportSize"] \in 0..255 /\ Field(desc, k, n).offset + data["reportSize"] < 256
  <2>1. /\ k \in Tagged(desc, MainTag, 1, Len(desc)) /\ k \in 1..(Len(desc) + 1)
        /\ desc \in Seq(Item) /\ n <= GlobalAt(desc, k, "reportCount")
        /\ data["reportSize"] = GlobalAt(desc, k, "reportSize")
    BY <1>5 DEF Coming, Tagged, DataTag
  <2>2. /\ GlobalAt(desc, k, "reportSize") \in 0..255
        /\ GlobalAt(desc, k, "reportCount") \in 0..255
    BY <2>1, ByteGlobal
  <2>3. n \in 1..GlobalAt(desc, k, "reportCount")
    BY <2>1, <2>2
  <2> QED  BY <2>1, <2>2, <2>3 DEF OffsetsFit
<1>8. Delivered \in Object /\ Delivered.data = data /\ Delivered.type = Current.tag
  BY <1>1, DeliveredType DEF RegisterInv, Delivered
<1>9. SumOf(given', key) = SumOf(given, key)
         + (IF ReportKey(Current.tag) = key THEN data["reportSize"] ELSE 0)
  BY <1>1, <1>3, <1>8, SumOfAppend, ZenonT(60) DEF ReportKey
<1>10. \A r : ReportOffset(r) \in Nat
  <2>1. \A r \in DOMAIN offsetTab : offsetTab[r] \in 0..255
    BY <1>1 DEF TypeOK
  <2>2. \A v \in 0..255 : v \in Nat
    OBVIOUS
  <2> QED  BY <2>1, <2>2, Zenon DEF ReportOffset
<1>11. ReportKey(Current.tag)[1] # 0
  BY <1>6 DEF ReportKey
<1>12. CASE ReportKey(Current.tag) = key
  <2>1. ReportOffset(key)' = (ReportOffset(key) + data["reportSize"]) % 256
    BY <1>1, <1>11, <1>12 DEF AddToReport, ReportOffset
  <2>2. PICK v \in 0..255 : v = ReportOffset(key) + data["reportSize"]
    <3>1. \A o \in Nat, z \in 0..255 : o + z < 256 => o + z \in 0..255
      OBVIOUS
    <3> QED  BY <1>6, <1>7, <1>10, <1>12, <3>1, Zenon
  <2>3. v % 256 = v
    BY SMT
  <2> QED  BY <1>4, <1>9, <1>12, <2>1, <2>2, <2>3, Zenon
<1>13. CASE ReportKey(Current.tag) # key
  <2>1. ReportOffset(key)' = ReportOffset(key)
    BY <1>1, <1>13 DEF AddToReport, ReportOffset
  <2> QED  BY <1>4, <1>9, <1>10, <1>13, <2>1
<1> QED  BY <1>12, <1>13

LEMMA ListedInvNext ==
    ASSUME \A d \in Descriptor : Answerable(d) /\ OffsetsFit(d),
           CatalogueInv, ListedInv, [Next]_vars
    PROVE  ListedInv'
<1>1. CASE MainItem
  <2>1. Answerable(desc) /\ OffsetsFit(desc)
    BY DEF CatalogueInv, RegisterInv, ParserInv, TypeOK
  <2> QED  BY <1>1, <2>1, MainItemLists
<1>2. ASSUME UNCHANGED <<offsetTab, given, call>> PROVE ListedInv'
  BY <1>2 DEF ListedInv, ReportOffset, SumOf, Mine, SizesOf
<1>3. CASE \/ UsagePageItem \/ UsageItem \/ CollectionItem \/ EndCollectionItem
           \/ DataItem \/ ReportCountItem \/ OtherItem \/ UNCHANGED vars
  <2>1. UNCHANGED <<offsetTab, given, call>>
    BY <1>3 DEF UsagePageItem, UsageItem, CollectionItem, EndCollectionItem, DataItem,
       ReportCountItem, OtherItem, vars, parserVars, cleared
  <2> QED  BY <1>2, <2>1
<1>4. CASE Exhausted
  BY <1>4 DEF Exhausted, ListedInv
<1>5. CASE \E path \in SearchPath, type \in MainTag : HidFindObject(path, type)
  BY <1>5 DEF HidFindObject, ListedInv
<1>6. CASE HidDumpTree
  <2>1. offsetTab' = <<>> /\ given' = <<>>
    BY <1>6 DEF HidDumpTree, ResetParser
  <2>2. \A key : ReportOffset(key)' = 0
    BY <2>1 DEF ReportOffset
  <2>3. \A key : SumOf(given', key) = 0
    BY <2>1, SumOfNone, Zenon
  <2> QED  BY <2>2, <2>3, Zenon DEF ListedInv, SumOf, Mine, SizesOf
<1> QED  BY <1>1, <1>3, <1>4, <1>5, <1>6 DEF Next, ParseStep

\* During a tree dump the offset table holds, of each report in it, the bits
\* of just the fields that have been delivered, as long as a uchar holds them.
THEOREM OffsetsAdd ==
    ASSUME \A d \in Descriptor : Answerable(d) /\ OffsetsFit(d)
    PROVE  Spec => []OffsetsAreSums
<1>1. Init => CatalogueInv /\ ListedInv
  BY CatalogueInvInit DEF Init, ListedInv
<1>2. CatalogueInv /\ ListedInv /\ [Next]_vars => (CatalogueInv /\ ListedInv)'
  BY CatalogueInvNext, ListedInvNext
<1>3. CatalogueInv /\ ListedInv => OffsetsAreSums
  <2> SUFFICES ASSUME CatalogueInv, ListedInv, call # None, call.kind = "list",
                      NEW r \in DOMAIN offsetTab
               PROVE  LET mine == {k \in DOMAIN given :
                                      <<given[k].data["reportId"], given[k].type>> = r}
                          Bits(k) == given[k].data["reportSize"]
                      IN  offsetTab[r] = MapThenSumSet(Bits, mine)
    BY DEF OffsetsAreSums
  <2> DEFINE Bits(k) == given[k].data["reportSize"]
  <2>1. offsetTab[r] = SumOf(given, r)
    BY DEF ListedInv, ReportOffset, CatalogueInv, RegisterInv, ParserInv, TypeOK
  <2>2. MapThenSumSet(Bits, Mine(given, r)) = SizeSum(given, Mine(given, r))
    BY DEF MapThenSumSet, MapThenFoldSet, AnyOf, SizeSum
  <2>3. SizeSum(given, Mine(given, r)) = SumOf(given, r)
    <3>1. Mine(given, r) \in SUBSET DOMAIN given
      BY DEF Mine
    <3> QED  BY <3>1, SizeSumIs DEF SumOf
  <2> QED  BY <2>1, <2>2, <2>3, Zenon DEF Mine
<1> QED  BY <1>1, <1>2, <1>3, PTL DEF Spec
=============================================================================
