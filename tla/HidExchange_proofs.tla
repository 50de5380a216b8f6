------------------------- MODULE HidExchange_proofs -------------------------
(***************************************************************************)
(* Theorems about the exchange of reports, through any number of openings  *)
(* of devices whose descriptors the parser can answer for (Answerable):    *)
(* what a report call finds, where its message goes, and what a success    *)
(* of it means.                                                            *)
(***************************************************************************)
EXTENDS HidExchange, HidParser_proofs

AllAnswerable == \A d \in Descriptor : Answerable(d)

\* What the catalogue answers, of any fields
FitIn(fs, path, type) ==
    LET found == {k \in DOMAIN fs : Catalogue!Fits(fs[k], path, type)}
    IN  IF found = {} THEN <<>> ELSE <<fs[CHOOSE k \in found : \A j \in found : k <= j]>>

\* While a report call looks for its path, or has found it, the object is open
\* and nothing else goes on; what was found is what the catalogue answers.
RequestInv ==
    request # None =>
        /\ opened
        /\ request \in [fn : ReportCall, path : SearchPath, size : Size]
        /\ call # None => /\ call.kind = "find" /\ call.path = request.path
                          /\ call.type = TypeOf(request.fn)
        /\ call = None =>
              Written(given) = FitIn(meaning, request.path, TypeOf(request.fn))

\* hid_data is the field found, or still what was looked for.
FoundInv ==
    request # None =>
        /\ hidData.type = TypeOf(request.fn)
        /\ IF given = <<>> THEN hidData.data["reportId"] = 0 ELSE given = <<hidData>>

IdInv == hidData.data["reportId"] \in 0..255

ExchangeInv == CatalogueInv /\ RequestInv /\ FoundInv /\ IdInv /\ (opened \in BOOLEAN)

-----------------------------------------------------------------------------
(* The parser beneath.                                                     *)

\* Opening begins with a parser as it is allocated; everything else moves the
\* parser by its own steps.
LEMMA ParserMoves ==
    ASSUME ExchangeNext
    PROVE  [Next]_vars \/ Init'
<1>1. CASE Search
  BY <1>1 DEF Search, Next
<1>2. CASE ReportTransfer
  BY <1>2 DEF ReportTransfer
<1>3. CASE Open
  BY <1>3 DEF Open, Init, ResetParser
<1>4. CASE Close \/ ReportRejected
  BY <1>4 DEF Close, ReportRejected
<1>5. ASSUME NEW fn \in ReportCall, NEW path \in SearchPath, NEW size \in Size,
             ReportBegin(fn, path, size)
      PROVE  Next
  <2>1. TypeOf(fn) \in MainTag
    BY DEF TypeOf, MainTag
  <2> QED  BY <1>5, <2>1 DEF ReportBegin, Next
<1>6. ASSUME NEW size \in Size, InterruptTransfer(size)
      PROVE  [Next]_vars
  BY <1>6 DEF InterruptTransfer
<1>7. ASSUME NEW duration, NEW id, SetIdle(duration, id)
      PROVE  [Next]_vars
  BY <1>7 DEF SetIdle
<1>8. CASE DumpTree
  BY <1>8 DEF DumpTree, Next
<1> QED  BY <1>1, <1>2, <1>3, <1>4, <1>5, <1>6, <1>7, <1>8 DEF ExchangeNext, ExchangeStep

LEMMA AllocatedParser == Init' => CatalogueInv'
BY CatalogueInvInit, PTL

LEMMA ParserKept ==
    ASSUME AllAnswerable, CatalogueInv, [ExchangeNext]_allVars
    PROVE  CatalogueInv'
<1>1. CASE UNCHANGED allVars
  <2>1. [Next]_vars
    BY <1>1 DEF allVars
  <2> QED  BY <2>1, CatalogueInvNext DEF AllAnswerable
<1>2. CASE ExchangeNext
  BY <1>2, ParserMoves, AllocatedParser, CatalogueInvNext DEF AllAnswerable
<1> QED  BY <1>1, <1>2

-----------------------------------------------------------------------------
(* A report call looks for its path.                                       *)

LEMMA FitIs == \A path, type : Catalogue!FirstFit(path, type) = FitIn(meaning, path, type)
BY Zenon DEF Catalogue!FirstFit, FitIn

LEMMA WhatFindObjectFinds ==
    ASSUME CatalogueStep, TypeOK, call # None, call.kind = "find", call' = None
    PROVE  Written(given') = FitIn(meaning, call.path, call.type)
<1>1. /\ Asked(call) = call /\ Asked(None) = None /\ call.kind # "list"
      /\ Answered(None, given') = Written(given')
  BY CallsAre DEF Answered
<1>2. Catalogue!Reply
  BY <1>1, AskIs, StutterIs, Zenon DEF CatalogueStep
<1> QED  BY <1>1, <1>2, ReplyIs, FitIs, Zenon

LEMMA SearchKeeps ==
    ASSUME AllAnswerable, ExchangeInv, Search
    PROVE  RequestInv' /\ FoundInv' /\ IdInv'
<1>1. /\ ParseStep /\ opened' = opened /\ request' = request /\ call # None
      /\ CatalogueInv /\ RegisterInv /\ AnswerInv /\ ParserInv /\ TypeOK
      /\ meaning' = meaning
  BY DEF Search, exchangeVars, ParseStep, UsagePageItem, UsageItem, CollectionItem,
         EndCollectionItem, DataItem, ReportCountItem, OtherItem, MainItem, Exhausted, Turn,
         ExchangeInv, CatalogueInv, RegisterInv, ParserInv
<1>2. \/ UNCHANGED <<hidData, call, given>>
      \/ hidData' = Delivered /\ Turn(MainTag)
            /\ (call.kind = "find" => given' = <<Delivered>> /\ call' = None /\ IsWanted(Delivered))
      \/ call' = None /\ UNCHANGED <<hidData, given>>
  BY <1>1 DEF ParseStep, UsagePageItem, UsageItem, CollectionItem, EndCollectionItem,
              DataItem, ReportCountItem, OtherItem, MainItem, Exhausted, Deliver
<1>3. CatalogueStep
  BY <1>1, StepsAreCatalogue DEF Next, AllAnswerable
<1>4. call.kind = "find" /\ call' = None => Written(given') = FitIn(meaning, call.path, call.type)
  BY <1>1, <1>3, WhatFindObjectFinds
<1>5. call.kind = "find" => call' = call \/ call' = None
  BY <1>2
<1>6. RequestInv'
  <2>1. Written(given)' = Written(given')
    BY DEF Written, AsField, PathOf
  <2> QED  BY <1>1, <1>4, <1>5, <2>1, Zenon DEF ExchangeInv, RequestInv
<1>7. call.kind = "find" => /\ given = <<>> /\ hidData.type = call.type
                            /\ hidData.data["reportId"] = 0
  BY <1>1 DEF AnswerInv, Searching
<1>8. FoundInv'
  <2>1. SUFFICES ASSUME request # None PROVE FoundInv'
    BY <1>1 DEF FoundInv
  <2>2. call.kind = "find" /\ call.type = TypeOf(request.fn)
    BY <1>1, <2>1 DEF ExchangeInv, RequestInv
  <2>3. CASE UNCHANGED <<hidData, given>>
    BY <1>1, <1>7, <2>2, <2>3 DEF FoundInv
  <2>4. CASE hidData' = Delivered /\ given' = <<Delivered>> /\ IsWanted(Delivered)
    <3>1. Delivered.type = call.type
      BY <1>7, <2>2, <2>4, SMTT(60) DEF IsWanted
    <3> QED  BY <1>1, <2>2, <2>4, <3>1 DEF FoundInv
  <2> QED  BY <1>2, <2>2, <2>3, <2>4
<1>9. IdInv'
  <2>1. Delivered.data = data /\ data["reportId"] \in 0..255
    BY <1>1 DEF Delivered, ParserInv, ReadInv
  <2> QED  BY <1>2, <2>1 DEF ExchangeInv, IdInv
<1> QED  BY <1>6, <1>8, <1>9, SMTT(60)

LEMMA BeginKeeps ==
    ASSUME ExchangeInv, NEW fn \in ReportCall, NEW path \in SearchPath, NEW size \in Size,
           ReportBegin(fn, path, size)
    PROVE  RequestInv' /\ FoundInv' /\ IdInv'
<1>1. /\ request' = [fn |-> fn, path |-> path, size |-> size] /\ opened' = TRUE
      /\ call' = [kind |-> "find", path |-> path, type |-> TypeOf(fn)] /\ given' = <<>>
  BY DEF ReportBegin, HidFindObject
<1>2. hidData'.type = TypeOf(fn) /\ hidData'.data["reportId"] = 0
  <2>1. hidData \in Object /\ "reportId" \in DataTag
    BY DEF ExchangeInv, CatalogueInv, RegisterInv, ParserInv, TypeOK, DataTag
  <2>2. PICK values \in [DataTag -> Int] : hidData.data = values
    BY <2>1 DEF Object
  <2>3. /\ hidData'.type = TypeOf(fn) /\ hidData'.data = [values EXCEPT !["reportId"] = 0]
    BY <2>1, <2>2 DEF ReportBegin, HidFindObject, Object
  <2> QED  BY <2>1, <2>3
<1>3. call' # None
  <2>1. call' \in Call
    <3>1. TypeOf(fn) \in MainTag
      BY DEF TypeOf, MainTag
    <3> QED  BY <1>1, <3>1 DEF Call
  <2> QED  BY <2>1, NoneIsNoCall
<1>4. RequestInv'
  BY <1>1, <1>3 DEF RequestInv
<1>5. FoundInv'
  BY <1>1, <1>2 DEF FoundInv
<1>6. IdInv'
  BY <1>2 DEF IdInv
<1> QED  BY <1>4, <1>5, <1>6

LEMMA ExchangeInvStep ==
    ASSUME AllAnswerable, ExchangeInv, [ExchangeNext]_allVars
    PROVE  ExchangeInv'
<1>1. CatalogueInv'
  BY ParserKept DEF ExchangeInv
<1>2. opened' \in BOOLEAN
  BY ZenonT(60) DEF ExchangeInv, ExchangeNext, ExchangeStep, Search, exchangeVars, ReportTransfer, Open,
         Close, ReportRejected, ReportBegin, InterruptTransfer, SetIdle, DumpTree, allVars
<1>3. CASE Search
  BY <1>1, <1>2, <1>3, SearchKeeps DEF ExchangeInv
<1>4. ASSUME NEW fn \in ReportCall, NEW path \in SearchPath, NEW size \in Size,
             ReportBegin(fn, path, size)
      PROVE  ExchangeInv'
  BY <1>1, <1>2, <1>4, BeginKeeps DEF ExchangeInv
<1>5. ASSUME request' = None, hidData' = hidData \/ hidData'.data = NoData
      PROVE  ExchangeInv'
  <2>1. NoData["reportId"] = 0
    BY Nothing
  <2>2. IdInv'
    BY <1>5, <2>1 DEF ExchangeInv, IdInv
  <2> QED  BY <1>1, <1>2, <1>5, <2>2 DEF ExchangeInv, RequestInv, FoundInv
<1>6. CASE ReportTransfer
  BY <1>5, <1>6 DEF ReportTransfer, vars
<1>7. CASE Open
  <2>1. request' = None /\ hidData'.data = NoData
    BY <1>7 DEF Open, ExchangeInv, RequestInv
  <2> QED  BY <1>5, <2>1
<1>8. CASE Close \/ ReportRejected
  BY <1>5, <1>8 DEF Close, ReportRejected, Idle, vars
<1>9. ASSUME NEW size \in Size, InterruptTransfer(size)
      PROVE  ExchangeInv'
  BY <1>5, <1>9 DEF InterruptTransfer, Idle, vars
<1>10. ASSUME NEW duration, NEW id, SetIdle(duration, id)
       PROVE  ExchangeInv'
  BY <1>5, <1>10 DEF SetIdle, Idle, vars
<1>11. CASE DumpTree
  BY <1>5, <1>11 DEF DumpTree, Idle, HidDumpTree
<1>12. CASE UNCHANGED allVars
  <2>1. /\ request' = request /\ opened' = opened /\ hidData' = hidData /\ call' = call
        /\ given' = given /\ meaning' = meaning
    BY <1>12 DEF allVars, exchangeVars, vars
  <2>2. Written(given)' = Written(given)
    BY <2>1 DEF Written, AsField, PathOf
  <2> QED  BY <1>1, <1>2, <2>1, <2>2 DEF ExchangeInv, RequestInv, FoundInv, IdInv
<1> QED  BY <1>3, <1>4, <1>6, <1>7, <1>8, <1>9, <1>10, <1>11, <1>12
         DEF ExchangeNext, ExchangeStep

LEMMA ExchangeInvInit == ExchangeInit => ExchangeInv
<1> SUFFICES ASSUME ExchangeInit PROVE ExchangeInv
  OBVIOUS
<1>1. CatalogueInv /\ opened = TRUE /\ request = None /\ hidData.data = NoData
  BY CatalogueInvInit DEF ExchangeInit, Init
<1>2. NoData["reportId"] = 0
  BY Nothing
<1>3. IdInv
  BY <1>1, <1>2 DEF IdInv
<1> QED  BY <1>1, <1>3 DEF ExchangeInv, RequestInv, FoundInv

-----------------------------------------------------------------------------
(* What the device has of a report.                                        *)

\* Fields of reports that are numbered, with sizes that can be added up
Numbered(d) ==
    {f \in FieldSet(d) : f.data["reportId"] # 0 /\ f.data["reportSize"] \in Nat}

LEMMA NumberedAt ==
    ASSUME NEW d \in Seq(Item), Answerable(d), NEW k \in 1..Len(d), d[k].tag \in MainTag
    PROVE  FieldsAt(d, k) \in Seq(Numbered(d))
<1>1. FieldsAt(d, k) \in Seq(FieldSet(d))
  BY FieldsAtType
<1>2. k \in Tagged(d, MainTag, 1, Len(d)) /\ k \in 1..(Len(d) + 1)
  BY DEF Tagged
<1>3. GlobalAt(d, k, "reportId") # 0 /\ GlobalAt(d, k, "reportSize") \in 0..255
  BY <1>2, ByteGlobal, SMTT(60) DEF Answerable
<1>4. ASSUME NEW n PROVE /\ Field(d, k, n).data["reportId"] = GlobalAt(d, k, "reportId")
                         /\ Field(d, k, n).data["reportSize"] = GlobalAt(d, k, "reportSize")
  <2>1. "reportId" \in DataTag /\ "reportSize" \in DataTag
    BY DEF DataTag
  <2> QED  BY <2>1 DEF Field
<1>5. PICK T : T = FieldSet(d)
  OBVIOUS
<1>6. \A i \in 1..Len(FieldsAt(d, k)) : FieldsAt(d, k)[i] \in Numbered(d)
  <2> SUFFICES ASSUME NEW i \in 1..Len(FieldsAt(d, k)) PROVE FieldsAt(d, k)[i] \in Numbered(d)
    OBVIOUS
  <2>1. FieldsAt(d, k)[i] \in FieldSet(d)
    BY <1>1, <1>5
  <2>2. FieldsAt(d, k)[i] = Field(d, k, i)
    <3>1. Len(FieldsAt(d, k)) = GlobalAt(d, k, "reportCount")
      BY FieldsAtType
    <3> QED  BY <3>1, Zenon DEF FieldsAt
  <2>3. \A v \in 0..255 : v \in Nat
    OBVIOUS
  <2> QED  BY <1>3, <1>4, <2>1, <2>2, <2>3, ZenonT(60) DEF Numbered
<1>7. PICK s \in Seq(T) : s = FieldsAt(d, k)
  BY <1>1, <1>5
<1>8. PICK U : U = Numbered(d)
  OBVIOUS
<1>9. \A i \in 1..Len(s) : s[i] \in U
  BY <1>6, <1>7, <1>8, Zenon
<1>10. s \in Seq(U)
  BY <1>9
<1> QED  BY <1>7, <1>8, <1>10, Zenon

LEMMA NumberedFields ==
    ASSUME NEW d \in Seq(Item), Answerable(d)
    PROVE  Fields(d) \in Seq(Numbered(d))
<1> DEFINE I == {n \in Nat : n < Len(d) + 1 => FieldsUpTo(d, n + 1) \in Seq(Numbered(d))}
<1>1. 0 \in I
  <2>1. FieldsUpTo(d, 0 + 1) = <<>>
    BY FieldsAre
  <2>2. PICK T : T = Numbered(d)
    OBVIOUS
  <2>3. <<>> \in Seq(T)
    OBVIOUS
  <2> QED  BY <2>1, <2>2, <2>3
<1>2. ASSUME NEW n \in Nat, n \in I PROVE n + 1 \in I
  <2> SUFFICES ASSUME n + 1 < Len(d) + 1
               PROVE  FieldsUpTo(d, (n + 1) + 1) \in Seq(Numbered(d))
    OBVIOUS
  <2>1. PICK k \in 1..Len(d) : k = n + 1
    OBVIOUS
  <2>2. PICK before, here, T : /\ before = FieldsUpTo(d, k) /\ here = FieldsAt(d, k)
                               /\ T = Numbered(d)
    OBVIOUS
  <2>3. before \in Seq(T)
    BY <1>2, <2>1, <2>2
  <2>4. CASE d[k].tag \in MainTag
    <3>1. FieldsUpTo(d, k + 1) = before \o here
      BY <2>2, <2>4, FieldsStep
    <3>2. here \in Seq(T)
      BY <2>2, <2>4, NumberedAt
    <3>3. before \o here \in Seq(T)
      BY <2>3, <3>2
    <3> QED  BY <2>1, <2>2, <3>1, <3>3, Zenon
  <2>5. CASE d[k].tag \notin MainTag
    <3>1. FieldsUpTo(d, k + 1) = before
      BY <2>2, <2>5, FieldsStep
    <3> QED  BY <2>1, <2>2, <2>3, <3>1, Zenon
  <2> QED  BY <2>4, <2>5
<1>3. \A n \in Nat : n \in I
  <2> HIDE DEF I
  <2> QED  BY <1>1, <1>2, NatInSet
<1>4. Len(d) \in Nat /\ Len(d) < Len(d) + 1
  OBVIOUS
<1>5. FieldsUpTo(d, Len(d) + 1) \in Seq(Numbered(d))
  BY <1>3, <1>4
<1> QED  BY <1>5, FieldsAre, Zenon

LEMMA FieldsOfReports ==
    ASSUME AllAnswerable, CatalogueInv
    PROVE  /\ meaning \in Seq(Numbered(desc))
           /\ \A k \in DOMAIN meaning : /\ meaning[k].data["reportId"] # 0
                                        /\ meaning[k].data["reportSize"] \in Nat
           /\ \A type : InReport(0, type) = {}
           /\ \A id, type : InReport(id, type) \in SUBSET (1..Len(meaning))
<1>1. desc \in Seq(Item) /\ Answerable(desc) /\ meaning = Fields(desc)
  BY DescriptorFacts DEF AllAnswerable, CatalogueInv, RegisterInv, ParserInv, TypeOK, AnswerInv
<1>2. meaning \in Seq(Numbered(desc))
  BY <1>1, NumberedFields
<1>3. PICK T : T = Numbered(desc)
  OBVIOUS
<1>4. DOMAIN meaning = 1..Len(meaning) /\ \A k \in DOMAIN meaning : meaning[k] \in T
  BY <1>2, <1>3
<1>5. \A f \in T : f.data["reportId"] # 0 /\ f.data["reportSize"] \in Nat
  BY <1>3, Zenon DEF Numbered
<1> QED  BY <1>2, <1>4, <1>5, Zenon DEF InReport

\* A report has a number of bytes.
LEMMA LengthIsNat ==
    ASSUME AllAnswerable, CatalogueInv, NEW id, NEW type
    PROVE  ReportLength(id, type) \in Nat
<1> DEFINE Bits(k) == meaning[k].data["reportSize"]
<1>1. PICK S : S = InReport(id, type)
  OBVIOUS
<1>2. /\ S \in SUBSET (1..Len(meaning)) /\ DOMAIN meaning = 1..Len(meaning)
      /\ Len(meaning) \in Nat /\ \A k \in DOMAIN meaning : Bits(k) \in Nat
  <2>1. PICK T : T = Numbered(desc) /\ meaning \in Seq(T)
    BY FieldsOfReports
  <2> QED  BY <1>1, <2>1, FieldsOfReports
<1>3. MapThenSumSet(Bits, S) = SizeSum(meaning, S)
  BY DEF MapThenSumSet, MapThenFoldSet, AnyOf, SizeSum
<1> HIDE DEF Bits
<1>4. SizeSum(meaning, S) = Total(SizesOf(meaning), S)
  BY <1>2, SizeSumIs
<1>5. Total(SizesOf(meaning), S) \in Nat
  <2>1. IsFiniteSet(S)
    BY <1>2, GreatestOf
  <2>2. \A k \in S : SizesOf(meaning)[k] \in Nat
    BY <1>2 DEF SizesOf, Bits
  <2> QED  BY <2>1, <2>2, TotalIsNat
<1>6. PICK bits \in Nat : bits = MapThenSumSet(Bits, S)
  BY <1>3, <1>4, <1>5
<1>7. ReportLength(id, type) = (bits + 7) \div 8 + (IF id = 0 THEN 0 ELSE 1)
  BY <1>1, <1>6, Zenon DEF ReportLength, Bits
<1> QED  BY <1>7

\* A device that numbers its reports has none without a number.
LEMMA MovedIs ==
    ASSUME AllAnswerable, CatalogueInv, NEW fn, NEW id, NEW type, NEW size \in Nat,
           NEW moved \in Moved(fn, id, type, size)
    PROVE  moved \in Nat \cup {-1} /\ (id = 0 => moved = -1)
<1>1. CASE InReport(id, type) = {}
  BY <1>1 DEF Moved
<1>2. CASE InReport(id, type) # {}
  <2>1. id # 0
    BY <1>2, FieldsOfReports
  <2>2. PICK length \in Nat : length = ReportLength(id, type)
    BY LengthIsNat
  <2>3. Min({size, length}) \in {size, length}
    <3>1. \E x \in {size, length} : \A y \in {size, length} : x <= y
      OBVIOUS
    <3> QED  BY <3>1, Zenon DEF Min
  <2>4. moved \in {-1} \cup {Min({size, length})} \cup {size}
    BY <2>2, Zenon DEF Moved
  <2> QED  BY <2>1, <2>3, <2>4
<1> QED  BY <1>1, <1>2

-----------------------------------------------------------------------------
(* The transfer.                                                           *)

Answer(w) == FitIn(meaning, w.path, TypeOf(w.fn))

WireInv ==
    wire # None =>
        /\ wire \in [fn : ReportCall, path : SearchPath, type : MainTag,
                     id : 0..255, size : Nat, moved : Nat \cup {-1}]
        /\ Answer(wire) # <<>> => /\ wire.id = Answer(wire)[1].data["reportId"]
                                 /\ wire.type = Answer(wire)[1].type
        /\ ret = "SUCCESS" => Answer(wire) # <<>> /\ wire.moved = wire.size

LEMMA WhatIsAskedFor ==
    ASSUME ExchangeInv, request # None, call = None
    PROVE  LET fit == FitIn(meaning, request.path, TypeOf(request.fn))
           IN  /\ fit # <<>> => /\ ReportNumber = fit[1].data["reportId"]
                                /\ hidData.type = fit[1].type
               /\ fit = <<>> => ReportNumber = 0
<1>1. Written(given) = FitIn(meaning, request.path, TypeOf(request.fn))
  BY DEF ExchangeInv, RequestInv
<1>2. IF given = <<>> THEN ReportNumber = 0 ELSE given = <<hidData>>
  BY DEF ExchangeInv, FoundInv, ReportNumber
<1>3. CASE given = <<>>
  <2>1. Written(given) = <<>>
    BY <1>3 DEF Written
  <2> QED  BY <1>1, <1>2, <1>3, <2>1
<1>4. CASE given = <<hidData>>
  <2>1. Written(given)[1] = AsField(hidData) /\ Written(given) # <<>>
    BY <1>4 DEF Written
  <2>2. AsField(hidData).data = hidData.data /\ AsField(hidData).type = hidData.type
    BY DEF AsField
  <2> QED  BY <1>1, <2>1, <2>2, Zenon DEF ReportNumber
<1> QED  BY <1>2, <1>3, <1>4

LEMMA SizeAsked ==
    ASSUME ExchangeInv, request # None
    PROVE  TransferSize \in Nat
<1>1. request.size \in Nat
  BY SizesAreNumbers DEF ExchangeInv, RequestInv
<1>2. \A r \in DOMAIN offsetTab : offsetTab[r] \in Nat
  <2>1. \A r \in DOMAIN offsetTab : offsetTab[r] \in 0..255
    BY DEF ExchangeInv, CatalogueInv, RegisterInv, ParserInv, TypeOK
  <2> QED  BY <2>1
<1>3. \A key : ReportOffset(key) \in Nat
  BY <1>2 DEF ReportOffset
<1> QED  BY <1>1, <1>3, Zenon DEF TransferSize

LEMMA TransferKeeps ==
    ASSUME AllAnswerable, ExchangeInv, ReportTransfer
    PROVE  WireInv' /\ ret' \in ReturnCode
<1>1. PICK size \in Nat : size = TransferSize
  BY SizeAsked DEF ReportTransfer
<1>2. PICK moved \in Moved(request.fn, ReportNumber, hidData.type, size) :
         /\ wire' = [fn |-> request.fn, path |-> request.path, type |-> hidData.type,
                     id |-> ReportNumber, size |-> size, moved |-> moved]
         /\ \/ Complete(moved, size) /\ ret' = "SUCCESS"
            \/ ret' \in {"FAIL_GET_REPORT", "FAIL_SET_REPORT"}
  BY <1>1 DEF ReportTransfer
<1>3. moved \in Nat \cup {-1} /\ (ReportNumber = 0 => moved = -1)
  BY <1>2, MovedIs DEF ExchangeInv
<1>4. /\ request.fn \in ReportCall /\ request.path \in SearchPath
      /\ hidData.type = TypeOf(request.fn) /\ hidData.type \in MainTag
      /\ ReportNumber \in 0..255
  BY DEF ReportTransfer, ExchangeInv, RequestInv, FoundInv, IdInv, ReportNumber,
         TypeOf, MainTag
<1>5. /\ wire'.fn = request.fn /\ wire'.path = request.path /\ wire'.type = hidData.type
      /\ wire'.id = ReportNumber /\ wire'.moved = moved /\ wire'.size = size
      /\ wire' \in [fn : ReportCall, path : SearchPath, type : MainTag,
                    id : 0..255, size : Nat, moved : Nat \cup {-1}]
  BY <1>2, <1>3, <1>4
<1>6. meaning' = meaning
  BY DEF ReportTransfer, vars
<1>7. Answer(wire)' = FitIn(meaning, request.path, TypeOf(request.fn))
  BY <1>5, <1>6 DEF Answer
<1>8. ret' = "SUCCESS" => moved = size
  BY <1>2 DEF Complete
<1>9. moved = size => ReportNumber # 0
  BY <1>3
<1>10. WireInv'
  BY <1>5, <1>7, <1>8, <1>9, WhatIsAskedFor DEF WireInv, ReportTransfer
<1>11. ret' \in ReturnCode
  BY <1>2 DEF ReturnCode
<1> QED  BY <1>10, <1>11

\* The last message stays what it was until a call is made that sends another,
\* or none.
LEMMA WireStays ==
    ASSUME AllAnswerable, ExchangeInv, WireInv, ret \in ReturnCode \cup {None},
           [ExchangeNext]_allVars
    PROVE  WireInv' /\ ret' \in ReturnCode \cup {None}
<1>1. CASE ReportTransfer
  BY <1>1, TransferKeeps
<1>2. ASSUME wire' = None, ret' = ret \/ ret' \in ReturnCode
      PROVE  WireInv' /\ ret' \in ReturnCode \cup {None}
  BY <1>2 DEF WireInv
<1>3. CASE Open \/ Close \/ ReportRejected \/ DumpTree
  <2>1. wire' = None /\ ret' \in {"SUCCESS", "INVALID_PARAMETER", "DEVICE_NOT_OPENED"}
    BY <1>3 DEF Open, Close, ReportRejected, DumpTree
  <2> QED  BY <1>2, <2>1 DEF ReturnCode
<1>4. ASSUME NEW fn \in ReportCall, NEW path \in SearchPath, NEW size \in Size,
             ReportBegin(fn, path, size)
      PROVE  WireInv' /\ ret' \in ReturnCode \cup {None}
  BY <1>2, <1>4 DEF ReportBegin
<1>5. ASSUME NEW size \in Size, InterruptTransfer(size)
      PROVE  WireInv' /\ ret' \in ReturnCode \cup {None}
  <2>1. wire' = None /\ ret' \in {"TIMEOUT", "SUCCESS", "FAIL_INT_READ"}
    BY <1>5 DEF InterruptTransfer
  <2> QED  BY <1>2, <2>1 DEF ReturnCode
<1>6. ASSUME NEW duration, NEW id, SetIdle(duration, id)
      PROVE  WireInv' /\ ret' \in ReturnCode \cup {None}
  <2>1. wire' = None /\ ret' \in {"INVALID_PARAMETER", "SUCCESS", "FAIL_GET_REPORT"}
    BY <1>6, Zenon DEF SetIdle
  <2> QED  BY <1>2, <2>1 DEF ReturnCode
<1>7. CASE Search \/ UNCHANGED allVars
  <2>1. wire' = wire /\ ret' = ret /\ meaning' = meaning
    BY <1>7 DEF Search, ParseStep, UsagePageItem, UsageItem, CollectionItem,
       EndCollectionItem, DataItem, ReportCountItem, OtherItem, MainItem, Exhausted, Turn,
       allVars, exchangeVars, vars
  <2>2. Answer(wire)' = Answer(wire)
    BY <2>1 DEF Answer
  <2> QED  BY <2>1, <2>2 DEF WireInv
<1> QED  BY <1>1, <1>3, <1>4, <1>5, <1>6, <1>7 DEF ExchangeNext, ExchangeStep

MessageInv == ExchangeInv /\ WireInv /\ ret \in ReturnCode \cup {None}

LEMMA ExchangeInvariant ==
    ASSUME AllAnswerable PROVE ExchangeSpec => []MessageInv
<1>1. ExchangeInit => MessageInv
  BY ExchangeInvInit DEF ExchangeInit, MessageInv, WireInv
<1>2. MessageInv /\ [ExchangeNext]_allVars => MessageInv'
  BY ExchangeInvStep, WireStays DEF MessageInv
<1> QED  BY <1>1, <1>2, PTL DEF ExchangeSpec

-----------------------------------------------------------------------------
(* What is promised.                                                       *)

\* A report call finds what the catalogue of the present descriptor answers,
\* whatever has been searched for, written out, exchanged or opened before.
THEOREM CallsFindFirst ==
    ASSUME \A d \in Descriptor : Answerable(d)
    PROVE  ExchangeSpec => []FoundIsFirst
<1>1. MessageInv => FoundIsFirst
  BY FitIs, Zenon DEF MessageInv, ExchangeInv, RequestInv, FoundIsFirst, Written
<1> QED  BY <1>1, ExchangeInvariant, PTL DEF AllAnswerable

\* The requests and the messages of report calls stay well formed, the report
\* number in a byte and the bytes moved a count or the one error.
THEOREM ExchangeTypesCorrect ==
    ASSUME \A d \in Descriptor : Answerable(d)
    PROVE  ExchangeSpec => []ExchangeTypeOK
<1>1. MessageInv => ExchangeTypeOK
  BY DEF MessageInv, ExchangeInv, RequestInv, WireInv, ExchangeTypeOK
<1> QED  BY <1>1, ExchangeInvariant, PTL DEF AllAnswerable

LEMMA AnswerIs == FieldAsked(wire) = Answer(wire)
BY FitIs, Zenon DEF FieldAsked, Answer

\* A control message is for the report of the field that its call asked for,
\* although hid_data and the tables of the parser are shared by all calls.
THEOREM MessagesGoToTheirReport ==
    ASSUME \A d \in Descriptor : Answerable(d)
    PROVE  ExchangeSpec => []RightReport
<1>1. MessageInv => RightReport
  BY AnswerIs, Zenon DEF MessageInv, WireInv, RightReport
<1> QED  BY <1>1, ExchangeInvariant, PTL DEF AllAnswerable

\* A report call that succeeds has moved what it was asked for, and had found
\* its field, although it does not look at the result of hid_find_object.
THEOREM SuccessesAreHonest ==
    ASSUME \A d \in Descriptor : Answerable(d)
    PROVE  ExchangeSpec => []SuccessIsHonest
<1>1. MessageInv => SuccessIsHonest
  BY AnswerIs, Zenon DEF MessageInv, WireInv, SuccessIsHonest
<1> QED  BY <1>1, ExchangeInvariant, PTL DEF AllAnswerable
=============================================================================
