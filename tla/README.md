# libhid in TLA+

libhid is a C library for user-space access to USB HID devices on top of
libusb 0.1. This directory holds a model of the library's own logic, the TLC
runs that check it on small instances, and theorems that TLAPS checks for
instances of any size.

    tlc -workers 2 -config OpeningLinux.cfg MCHidOpening     # a run
    for m in HidOpening Programs HidWrap Sums \
             ReportFields HidParser HidExchange HidValue        # the proofs,
    do tlapm ${m}_proofs.tla; done                              # by module

`PROJECT.json` lists the runs with the module and configuration of each, the
source lines behind every definition, the mutants, the findings and the
hazards.

## 1. Inventory

| component | source | state | operations |
|---|---|---|---|
| opening and closing | `src/hid_opening.c` | `open_hid_device_list`, and the fields of each `HIDInterface` | `hid_open`, `hid_force_open`, `hid_close`, `hid_is_opened` |
| initialisation, objects | `src/hid_initialisation.c` | `initialised`; which objects exist | `hid_init`, `hid_cleanup`, `hid_new_`, `hid_delete_`, `hid_reset_HIDInterface` |
| claiming, by system | `src/linux.c`, `bsd.c`, `darwin.c` | none | `hid_os_force_claim` |
| preparation | `src/hid_preparation.c` | `hid_parser`, `hid_data` of the interface | `hid_prepare_interface` |
| descriptor parser | `hidparser/hidparser.c` | `HIDParser` | `ResetParser`, `HIDParse`, `GetReportOffset`, `FindObject` |
| values in reports | `hidparser/hidparser.c` | the report buffer | `GetValue`, `SetValue` |
| parser interface | `src/hid_parsing.c` | `hid_data` | `hid_init_`, `hid_prepare_`, `hid_reset_parser`, `hid_find_object`, `hid_extract_value`, `hid_get_report_size` |
| exchange | `src/hid_exchange.c` | none of its own | the report calls, `hid_get_item_value`, `hid_interrupt_read`, `_write`, `hid_set_idle` |
| presentation | `src/hid_presentation.c` | none | `hid_dump_tree`, `hid_write_identification`, `hid_strerror` |
| libusb and the kernel | not in `src/` | device lists, open handles, claims | `usb_open`, `usb_claim_interface`, ... |
| programs | `test/lshid.c`, `test/test_libhid.c`, `src/libhid-detach-device.c` | `hid_id`, the devices `lshid` has seen | `main`, `device_iterator` |
| Python binding | `swig/hidwrap.py`, `hid.i` | `Interface.is_open`, `IS_INITIALIZED`, the handlers of `atexit` | `init`, `cleanup`, `Interface()`, `close`, `__del__`, a method for each report call |

**How they interact.** A client makes one call at a time. `hid_open` and
`hid_force_open` scan libusb's device lists, opening and claiming each device
until one matches, claim it (on Linux with retries that detach the driver),
then prepare it: two allocations, two descriptor transfers and a parse up to
the first object. Success puts the object on the open list, which later scans
read; `hid_close` takes it off. A report call sets up `hid_data`, has
`FindObject` parse the descriptor anew, takes the report number from
`hid_data`, and sends a control message. Between any two libusb calls the
world moves: devices come and go, kernel drivers bind, and other processes
claim and detach.

**What is hard in each, and what makes it correct.**

* *Opening.* Three shared things (the open list, the handles, the claims) are
  changed by one call in up to a dozen steps, each of which may fail. Correct
  means: all or nothing; no interface given twice; no claim lost to another
  open of the same process; no handle left behind; every call returns however
  often another driver takes the interface back.
* *Initialisation.* Devices are compared by the address of a structure that a
  rescan frees, so a rescan must not happen under an open interface.
* *The parser.* One pass with several registers that survive from item to item
  and, some of them, from parse to parse. Correct means that the objects
  delivered are what the descriptor, read as a whole, means, and that any
  sequence of searches and dumps gives the same answers.
* *Values.* Bit positions, signs, neighbours in a byte.
* *Exchange.* Nobody looks at the result of the search before its outcome is
  used; correct means that the message is for the right report all the same,
  and that success means success.
* *Programs.* `lshid` opens device after device until there is none left: it
  must list each once, miss none, and end, though each round is an open that may
  fail anywhere. All programs leave by `return 1` after a failed call without
  closing, which is right only if that call has let go of everything.
* *Python.* Flags beside those of the library that must follow them through
  failures, and through constructors, destructors and handlers at the exit that
  come in an order the program does not see.

## 2. The modules

| module | what it is |
|---|---|
| `Libusb` | external: the libusb calls libhid makes, and the moves of the world |
| `HidOpening` | opening, closing, initialisation, objects, claiming, preparation |
| `DeviceOwnership` | abstract specification of opening: request, grant or refuse, release |
| `HidOpening_proofs` | the inductive invariant of `HidOpening`; theorems about the scan, lost handles, live devices and claims; that it implements `DeviceOwnership` |
| `HidItems` | the vocabulary of report descriptors and the conversions of values |
| `ReportFields` | what a descriptor means, declaratively: the reference for the parser |
| `HidParser` | the parser, one action for each kind of loop turn of `HIDParse` |
| `FieldCatalogue` | abstract specification of the parser: a catalogue that answers questions |
| `Sums_proofs` | lemmas: induction over the numbers, and sums over sets |
| `ReportFields_proofs` | lemmas: what one more item of a descriptor does to what it means |
| `HidParser_proofs` | that `HidParser` computes what a descriptor means, and implements `FieldCatalogue` |
| `HidValue` | `GetValue` and `SetValue` on a report |
| `HidValue_proofs` | powers of two, digits and their sums, and the theorems about `HidValue` |
| `HidExchange` | the calls of `hid_exchange.c`, composed with `HidParser` |
| `HidExchange_proofs` | the theorems about `HidExchange` |
| `Programs` | `lshid`, `libhid-detach-device` and `test_libhid`, each upon `HidOpening` |
| `Programs_proofs` | the theorems about `Programs` |
| `HidWrap` | the Python module `hidwrap` and its class, upon `HidOpening` |
| `HidWrap_proofs` | the theorems about `HidWrap` |
| `MC...` | constants for the runs |

### HidOpening and Libusb

Each libusb call is a step of its own, together with the code up to the next
one; `pc` is where the call in progress stands, `call` its parameters and
locals. An object is `hidif`: `devHandle`, `device`, `interface` are its
fields, `hasData` and `hasParser` say whether the two allocations are made.
`openList` is `open_hid_device_list`.

| pc | the code waits for |
|---|---|
| `scan` | `usb_open`, hid_opening.c:131, or the end of the lists |
| `scanClaim` | `usb_claim_interface`, :134, then the two comparisons |
| `scanClose` | `usb_close`, :164 |
| `claim` | `usb_claim_interface`, :224, or that of `hid_os_force_claim` |
| `detach` | `usb_detach_kernel_driver_np`, linux.c:52 |
| `alloc` | the `malloc`s of `hid_init_parser` |
| `hidDesc`, `reportDesc` | the control messages of hid_preparation.c |
| `giveUp` | `usb_close` in the `hid_close` of a failed open |

`Os` selects the `hid_os_force_claim`. A device ID is a set of bits, because
`hid_compare_usb_device` compares with masks; `matcher_fn` is the set of
devices it accepts. A `Device` is one attachment: replugged, it is another.

Assumed of the clients, as hid_opening.c:115 and the examples have it: one
call at a time; no deleted object is used; an open one is neither deleted nor
reset; with `TidyClients` every interface is closed before `hid_cleanup`.
Assumed of the world: a claim belongs to a handle and ends with it or with the
device; a detach takes an interface from anybody; any libusb call may fail.
Abstracted: `hidif->id`, log messages, the return value of `usb_close` in
`hid_close` but for the result of the call.

### HidItems, ReportFields, HidParser, FieldCatalogue

An item is a tag, a width and the number in its bytes; `Pos` counts items. The
variables are the fields of `HIDParser`. `UsageTab` is a sequence of its used
entries. `OffsetTab` is a function from (report, type); as an entry with ID 0
ends the table in `GetReportOffset`, report 0 has none, and its offset is 0
each time. Byte-wide fields wrap at 256. `ReportFields` says what a descriptor
means by looking back from each main item: the globals in effect, the
collections still open, the usages since the last main item. `HidParser` has
two variables without a counterpart, `given` (what was handed out) and
`meaning` (`Fields(desc)`, computed once).

Assumed: descriptors are well formed and fit into the tables. hidparser.c:233
says that the last usage is never removed; the code removes it (`UsagesLeft`),
and a field beyond the usages of its item has none. The repository keeps what
the program wrote for an Apple monitor (`ref/test_libhid_output`), and there it
is so: `ReportFields` takes the recorded output for what is meant, and
`DumpIsRecorded` compares the model's dump of that monitor with it line by line.

### HidValue

Bits and bytes as numbers, with `1 << Weight` and `~LogMax` in two's
complement for fields of up to 30 bits. The first byte is the report number.
What the properties depend on, and the code does not look at, stands at the end
of the module: `FieldsFit`, `Aligned`, `Apart`, `Representable` (section 5).

### HidExchange

A report call is `ReportBegin` (the checks, `hid_data`, the start of the
search), the turns of the parser, and `ReportTransfer`. `Open` and `Close` are
what opening means to the parser; the rest of it is `HidOpening`. A device
answers for the reports it has, with no more bytes than they have, or fails.
The size of the transfer and the report number are what the code takes, not
what it should take.

### Programs

`at` is where `main` stands; the steps of a `hid_force_open` are those of
`HidOpening`, and the environment moves between any two. `seen` is `hid_id`,
without a bound; `tried` records the devices that were matched and whether the
open then failed. `device_iterator` is called for each device of a scan that is
not previously matched; as a scan shows a device once, what it will accept is
known when the scan begins (`Iterated`). `HidClass` are the devices whose first
interface is of the HID class; a device of `Programs` is known by its path.
`lshid` looks at no result but DEVICE_NOT_FOUND; the others leave at the first
failure. Left out: the parsing of the arguments, what is printed, and that
`device_iterator` reads through `custom_data`, which `main` never sets (section 7).

### HidWrap

`life` is where an `Interface` stands: a constructor is `ConstructInit` (the
library is initialised on demand), `ConstructNew`, `ConstructOpen` and the steps
of the open. `isOpen` is its `is_open`, `isInitialized` the flag of the module,
`finalizers` the number of times that `_finalize_hid` is registered. `Del` is
the destructor, which runs when the program drops the object, also one whose
constructor raised, or after the handlers at the exit; or never, as Python
promises nothing about objects left at the exit. The class never deletes its
`HIDInterface`, so an object of `Hid` belongs to one `Interface`. `raised` is the
method that raised last. Assumed: one thread (section 7). `hid_ctypes.py` has
the same class over ctypes, with the same flags and calls; but its matcher
structure lacks `matcher_fn`, where the library then reads whatever lies behind
it. That is not modelled.

## 3. The runs

Passing. Bounds are given with the reason why the interesting cases happen.

| run | what it shows | instance | distinct states |
|---|---|---|---|
| `OpeningLinux` | opening is all or nothing, gives no interface twice, keeps its claims, loses handles in the scan only; `DEVICE_NOT_FOUND` is true; no freed device is pointed to | 2 objects, 2 devices that come and go, 1 interface, 3 handles, 1 retry; one device's ID has all bits of the other's | 816,819 |
| `OpeningEvicted` | the list stays exclusive when it overflows and shrinks in the middle, and no open takes a claim from a listed object, though other processes do | 3 objects and interfaces, 1 device, a list of 2, evictions, clients that forget to close | 121,066 |
| `OpeningLive` | each open returns; `HidOpening` implements `DeviceOwnership` | 2 objects, 1 device, 3 handles, 1 retry, no symmetry | 134,628 |
| `ParserMeaning` | `HidParser` implements `FieldCatalogue`: any sequence of dumps and searches answers what the descriptor means; the path is the nesting at every item; the offset table sums up; the dump of a monitor is the recorded one | 133 descriptors: up to two of eleven segments, each a way to write a field; the descriptor of the monitor | 395,873 |
| `Values` | `GetValue` is two's complement anywhere in a report; `SetValue` then `GetValue` is the identity, and other fields stay, for whole bytes | 7 fields, 5 reports, 13 values, any sequence of calls | 17,182 |
| `Exchange` | messages go to the right report with the right device, success is honest, calls return | 2 devices opened in turn, 3 paths, 2 sizes | 18,936 |
| `Programs` | `lshid` lists each HID device once and misses none, its table grows with devices and not with scans; a device called detached was held; nothing stays open however a program ends; each ends, but for `Futile` | 3 devices that come and go, one of them no HID, on Linux; the retries of the sources; 2 handles | 313,740 |
| `Wrapper` | the flags of the Python class follow the library, destructors raise only after a `close` of the program or a failure of `usb_close`, the exit cleans up, nothing is opened twice though no claim is kept | 3 Interfaces, 1 device, 2 interfaces, 3 handles, on Darwin; at most 3 initialisations | 1,292,905 |

Two objects and two devices let one object be open while the other scans past
it, and let a device go between any two steps; three handles are one more than
two objects need, so that one may be lost. `MaxRetries = 1` has a first, a
last and a refused retry. Three objects and a list of two let an entry be
removed from the front, and the list overflow. Two segments in a body let each
way to write a field follow each other. Three devices for `lshid`: one that
fails, one that is not HID and comes between, one that is missed if the loop
ends too early; three Interfaces let one be open, one be closed and one come
after a `cleanup` in between. `MaxInits` bounds how often `init` succeeds or is
tried after that: three handlers at the exit find the library initialised or
cleaned up.

`OpeningLinux` and `OpeningEvicted` take objects, handles and interfaces as
symmetric, `Wrapper` objects and handles: no action orders them or singles one
out, and all properties quantify over them. Runs with liveness have no symmetry. The `VIEW` of
`OpeningEvicted` leaves out `ret`, which no action and neither property reads.

Violated, each by the one property that the repository's words suggest:

| run | property | what happens |
|---|---|---|
| `HandleLeak` | `CleanupReleasesHandles` | a scan that passes over a previously matched device never closes the handle it opened there (hid_opening.c:141) |
| `FullList` | `ReturnsFresh` | with the list full, an interface is opened unlisted, and then once more (:283) |
| `WrongField` | `FoundIsOnPath` | on a device without report numbers every search finds the first field of its type (hidparser.c:356) |
| `SharedByte` | `SetIsGot` | a field that does not start at a byte is set at the wrong place (hidparser.c:415) |

**Mutants.** Before some definitions stands a second form of it that no action
uses: a plausible slip of the code, such as `NeverAdd` before `AddOpenDevice`.
With the body of the real definition replaced by it, the run named in
`PROJECT.json` finds its property violated: each property of a passing run can
fail.

## 4. Fairness

`HidOpening` has weak fairness of `Step`, the call in progress. The calling
thread runs; of the calls it makes, descriptor reads have a timeout
(`USB_TIMEOUT`) and the others do not wait for the device. A call that may
fail always has that outcome, so `Step` stays enabled: nothing is assumed of
the world, of libusb's success, or of the client, who need not call anything.
`HidParser` and `HidExchange` have weak fairness of `ParseStep` and
`ExchangeStep` for the same reason. `Programs` has weak
fairness of `ProgramStep`: the process runs, and its calls return, by the same
argument. It does not assume that devices stop coming and going, nor that any
call succeeds; where opens fail in a way that leaves nothing behind (`Futile`)
`lshid` does not end, and `ProgramEnds` says so. `HidWrap` has no fairness: all
its properties are of safety. In `DeviceOwnership` and `FieldCatalogue`
the fairness of an answer is what the refinement shows.

## 5. What is proved

The theorems hold for every value of the constants that the named assumptions
of the modules allow: any number of devices, interfaces, handles and objects,
any length of the list, any number of retries, any well-formed descriptors. A
theorem that needs more says so in its ASSUME, and the table here.

| theorem | states | only where |
|---|---|---|
| **`HidOpening_proofs`** | | |
| `OpeningInvariant`, `TypeCorrect` | `TypeOK` and `OpeningInv` always hold; the list never exceeds `MaxOpen` | |
| `ListIsExclusive` | no two entries of the list have the same target | |
| `OpenedObjectsAreWhole` | an object is open altogether or not at all between calls | |
| `ClaimsAreKept` | no step of an open takes the claim of another listed object | |
| `NotFound` | `DEVICE_NOT_FOUND` is true | |
| `HandlesLostInScan` | a handle is lost nowhere but in the scan, over a device that is open | |
| `DevicesStayLive` | no open object points to a device that was freed | `TidyClients` |
| `ListedAreClaimed` | what an open returned is claimed as long as the device is there | `~Evictions`, no Darwin |
| `ClaimsHaveOwners` | each claim is that of an open object or of the scan | `~Evictions`, no Darwin |
| `NothingReopened` | no interface is open in two objects, listed or not | `RoomForAll` |
| `OpeningIsOwnership` | `HidOpening` implements the safety part of `DeviceOwnership` | `RoomForAll` |
| **`Programs_proofs`** | | |
| `ProgramsKeepOpening`, `ProgramTypesCorrect` | the invariant of opening and `ProgramTypeOK` hold under the three programs | |
| `ListedOnce` | `lshid` opens no device twice | |
| `TableIsLargeEnough` | its table has no more entries than there are devices | |
| `NoDeviceMissed` | when its loop ends each HID device of the lists was listed, or its open failed | |
| `NothingLeftOpen` | a program that has ended has closed all that it opened | |
| `DetachedIsFree` | what `libhid-detach-device` detached was held, and is free | `~Evictions`, no Darwin |
| **`HidWrap_proofs`** | | |
| `WrapKeepsOpening`, `WrapTypesCorrect` | the invariant of opening and `WrapTypeOK` hold under the Python class | |
| `FlagIsTrue`, `ExitIsClean` | `IS_INITIALIZED` is the library's flag; the exit cleans up | |
| `NothingStaysOpen` | nothing is open behind an Interface that failed, was closed or dropped | |
| `DestructorsRaise` | when a destructor raises | |
| `DevicesOutlastInterfaces` | only a `cleanup` of the program frees the device of an open Interface | |
| `NoInterfaceTwice` | no interface is open in two Interfaces | `RoomForAll` |
| **`HidParser_proofs`** | | |
| `ParserTypesCorrect` | fields keep their widths, the path stays between 0 and `PATH_SIZE` | |
| `PathNests` | the path is the collections open at that item | |
| `ParserIsCatalogue` | `HidParser` implements the safety part of `FieldCatalogue` | `Answerable` |
| `OffsetsAdd` | the offset table adds up what has been delivered | `Answerable`, `OffsetsFit` |
| **`HidExchange_proofs`** | | |
| `ExchangeTypesCorrect` | `ExchangeTypeOK` | `Answerable` |
| `CallsFindFirst` | a report call finds what the catalogue answers | `Answerable` |
| `MessagesGoToTheirReport` | a message is for the report of the field asked for | `Answerable` |
| `SuccessesAreHonest` | success means that the field was found and all bytes moved | `Answerable` |
| **`HidValue_proofs`** | | |
| `MeaningIsGot` | `GetValue` takes out what the bits of a field mean, if that is in the logical range | `FieldsFit`, `Representable` |
| `ValueIsGot` | `GetValue` gets what `SetValue` has written | `FieldsFit`, `Aligned`, `Representable` |
| `OthersStay` | `SetValue` leaves the report's number and other fields alone | `FieldsFit`, `Apart` |

### The hypotheses

* `TidyClients`: clients close every interface before `hid_cleanup`.
  libusb frees the devices of its lists on a rescan; `hid_cleanup` does not look
  whether something is open, so that without this `DeviceLive` is false. Under
  the Python class, which does not keep to it, `DevicesOutlastInterfaces` says
  instead that it takes an explicit `cleanup`.
* `~Evictions`: no other process detaches an interface that this one has
  claimed. Any may, with `usb_detach_kernel_driver_np`; `OpeningEvicted` has them.
* `Os # "darwin"`: hid_os_force_claim of darwin.c reports success after a failed
  claim (section 7), and so an object may be listed without one.
* `RoomForAll`: no more objects than entries of the list. `FullList` is the run
  that shows what happens otherwise.
* `Answerable(d)` has what `HIDParse` and `FindObject` rely on and do not test.
  The last item is no main item: `HIDParse` stops when `Pos` reaches the end,
  so the second and further fields of a main item there are lost. Reports are
  numbered: without numbers `WrongField` happens. The first bit of each field
  fits into the `uchar` of `OffsetTab`. No path that is looked for goes on below
  a field, where `FindObject` compares leftover nodes (section 7).
* `OffsetsFit(d)`: so does the last bit of each field. The entry would wrap to 0
  behind a report of 256 bits (section 7).
* `WellFormed(d)`, an assumption of `HidParser` itself: paths fit into
  `PATH_SIZE`; no collection is ended that was not begun; a usage has a page and
  a main item a count of at least one (a count of 0 wraps, section 7); and the
  usage of a collection without an index is not on page 255, by which
  `HIDParse` knows, at the end of a collection, that an index is on top: it
  would take two nodes off the path where it had put one.

* `FieldsFit`: a report is as long as its fields ask for; the code is not told
  how long the buffer is.
* `Aligned`, and `Apart`: a field that is written starts at a byte, and no other
  field has bits in one of its bytes. `SetValue` adds each bit at `Weight % 8`,
  not `Bit % 8`, so that `SharedByte` happens elsewhere; and it clears whole bytes.
* `Representable(f)`: the logical range fits into the field, and if it has
  negative numbers it ends at 2^j - 1 and begins at -2^j or above. `GetValue`
  takes for negative what is greater than `LogMax`, and extends the sign by
  or-ing `~LogMax`, which does so for these maxima only (section 7).

TLC evaluates these for the constants of the runs: `WellFormed` wherever
`HidParser` is extended, `Answerable` and `OffsetsFit` in `MCHidParser` and
`MCHidExchange`, the last four in `MCHidValue`, for the fields of `Values`.
The further named assumptions say that sets of constants do not overlap
(`NullIsNothing`, `NullIsNoHid`, `NullIsNoTarget`, `NullIsNoStatus`,
`NullIsNoMethod`, `NoneIsNoCall`, `HoldersDiffer`), that `Device` is finite, and
what kind of value each constant is. `MatchersSuffice` and `RetriesSuffice`
say that the matchers and retries of the three programs are among those that
`HidOpening` allows.

### The arguments

**Opening.** `ExclusiveListed` is not inductive: that an entry added is new
depends on what the scan found some steps earlier. The strengthening
`OpeningInv` has three parts. `CallInv`: what the call in progress relies on at
each `pc` (the scan's handle is open and nobody else's; in `Holding` the object
is open; the allocations stand where `pc` says). `ListInv`: the entries are
distinct, the object of the call is not among them, and while it holds a device
its target is that of no entry. `OpenedIsWhole`: what holds of each object.
`InitInv` has the initial states; `TypeStep`, `CallStep`, `WholeStep` and
`ListStep` take the actions one by one, the last two upon `ForgetFacts` and the
lemmas about `AddOpenDevice` and `RemoveOpenDevice`: removal from the middle
keeps the entries distinct. `ClaimsAreKept` follows: a detach hits the target of
the call in progress, which is the target of no entry.

**Handles and claims.** Each of these adds one invariant upon the last. `ScanInv`:
every device of the lists that the matcher describes is still to come, is being
looked at, or was passed over because it is open; at the end of the lists this
is `NotFound`, and it says which device a handle lost in the scan belonged to.
`CodeInv`: only the scan returns `DEVICE_NOT_FOUND`. `LiveInv`: while the library
is not initialised nothing is open, so a rescan frees no device in use. `ClaimInv`:
claims are of open handles on the device claimed, and a handle that the scan has
just opened has none. `HeldInv`: an open holds its claim from the step after
`claim`, through the preparation, and on the list.

**Refinement of ownership.** An object is "opening" while the call in progress is
its own, and "open" with its target when it is open between calls. `RoomInv`,
that every object open between calls is listed, makes the scan's test for
previous matches complete; `OneMovesAtMost` shows that a step changes the phase
of one object at most, and `OwnershipMapping` which step of `DeviceOwnership`
that is.

**Clients.** `ProgramMoves` and `WrapStep` show that each step of the client is a
step of `HidOpening` or none, so that all lemmas about the library apply.
`TriedInv`: what was tried is in the table, a scan in progress accepts nothing
that was tried, and what the call holds was seen and not tried. `TableInv`: the
entries are distinct devices of the lists. `MissedInv`: what `device_iterator`
was shown was tried or is at hand, and the scan accepts all that it was not
shown; with `NotFound`, when the loop ends nothing is left. `ShutInv`: what is
open at which place of `main`, and that no handle is lost, as with one object a
scan passes over nothing. `FlagInv`: while the flag is set a handler is still to
come. `LifeInv`: the call under way is that of the one constructor that runs, and
`is_open` is set from its success on.

**The parser.** `ReportFields` looks back over the whole descriptor from each main
item, `HidParser` keeps registers. `ReportFields_proofs` has what one more item
changes in each of the former: the globals (`GlobalStep`), the usages
(`UsagesStep`), the open collections (`CollectionOpens`, `EndCloses`: an end
closes the last one, as the balance of begins and ends at the collection shows),
the path (`PathStep`), the bits of each report (`BitsStep`), the fields
(`FieldsStep`). The invariant of the parser is that each register has what
belongs to its position. `ParserInv`: types, the usages, the page and the path;
after a reset too, although page and count outlive it, because a well-formed
descriptor sets them before it uses them. `RegisterInv` adds the globals, how
many fields of a pending main item have been delivered, which usages are left
for the others, and the offsets modulo 256. Then the object delivered is the
next field of the descriptor (`DeliveredField`), and `AnswerInv` says that a
dump has written the fields so far, or that none of them fits what is searched.
With `StepsAreCatalogue` each turn maps to an answer of `FieldCatalogue` or a
stutter. `ListedInv`, for `OffsetsAdd`: each entry is the sum of the sizes of
the objects written so far, where `Answerable` and `OffsetsFit` keep `% 256` away.

**Exchange.** `ParserMoves`: the parser takes its own steps, and `Open` begins it
anew. `ExchangeInv` adds to the invariant of the parser that while a report call
is in progress the search is for its path (`RequestInv`), and that afterwards
`hid_data` is the field found, or still what was looked for, with report number
0 (`FoundInv`). No field of a numbered device is in report 0
(`NumberedFields`), so the message that the unchecked search leads to moves
nothing. `WireInv` keeps what was true of a message when it was sent until
another call is made.

**Values.** `BufInv` is all that is needed of the past: the report in the buffer
is made of bytes and as long as one that was received. The rest is arithmetic
for which the provers have no theory, from the bottom: 2^(n+1) is twice 2^n
(`Doubling`; the library says of the exponent that a set of n elements has 2^n
subsets, and that one element more doubles them is shown from there); quotients
and remainders are unique (`DivUnique`); so one digit more is `NextRemainder`,
and what is added above a digit does not reach it (`LowDigit`). By induction
digits at their weights sum up to the number that has them (`SumOfDigits`,
`DigitsOfSum`), and those that `v | ~m` adds to what is missing (`MissingDigits`).
`SignIsExtended` then has `GetValue`: raw bits above 2^j - 1 become the raw bits
less 2^size. `BitSet` has `SetValue`: the byte that bit w goes to is cleared, as
its lowest bit belongs to the field too, and what is added has the digits of the
value there, at most 255. `ByteStays`: no other byte changes.

**Induction over data.** No lemma takes an operator as its parameter. Where a
proof goes by induction (over the items of a descriptor, the fields of a
sequence, the size of a set) it defines the set of numbers for which the
statement holds, and `NatInSet` of `Sums_proofs` (from
`NatLessThanWellFounded` of the library) says that it has all of them. The
recursion hidden in `FlattenSeq` and `MapThenSumSet` is dealt with once, by
`FlattenAppend` and `TotalStep`: one element more is appended, or added.

### Only model-checked

* What needs fairness or `ENABLED`: `CallsReturn`, `ReportCallReturns`,
  `ProgramEnds`, and of `OwnershipSpec` and `CatalogueSpec` that each request is
  answered. The prover does not deal with them; their safety is proved.
* `DumpIsRecorded`, which is about one descriptor: there is nothing to prove for
  others, and computing the dump of one is what TLC does.
* What the four runs of section 3 show to be violated.

## 6. The plan

Done, in this order: `Libusb`, `HidOpening`, `DeviceOwnership` and its proofs,
as the part where most goes on at once; the parser with its reference and its
abstract specification; values; exchange; then the clients, `Programs` and
`HidWrap`, with their proofs, and a recorded descriptor; then the proofs about
handles, claims and ownership, the parser and the catalogue, exchange, and
values.

A second process that runs `libhid-detach-device` beside an open needs no model
of its own: to the open it is `ForeignEvict` of `Libusb`, which the run
`OpeningEvicted` has.

Next:

1. For descriptors that are not `Answerable` because reports have no number:
   what `FindObject` does find, as an invariant beside `AnswerInv`.
2. What `SetValue` does to a field that does not start at a byte, in the terms of
   `DigitsOfSum`, beside `SharedByte`.
3. Shorter proofs of `HidParser_proofs` where several actions differ in one
   register only.

## 7. Also seen, without a run

The runs avoid these; the code behaves as follows.

* hidparser.c:244: the last usage is removed as well, against the comment at
  :233; with one usage and a report count of 2 the second field has usage 0, and
  the dump recorded in `ref/test_libhid_output` has it so.
* hidparser.c:262: offsets are bits in a `uchar`. After 256 bits they start at 0
  again and two fields of a report share a place: `OffsetsAreSums` and
  `CatalogueSpec` fail for a report of 33 fields of 8 bits. The 128 bytes of
  EDID in `ref/lsusb-vvv/Apple_17_inch_Studio_Display` are such a report.
* hid_exchange.c:266: `hid_get_item_value` takes the entry of the offset table,
  the bits up to the item found, for the number of bytes to transfer.
* hidparser.c:268: a report count of 0 delivers 256 objects, as `Count--`
  wraps in a `uchar`.
* hidparser.c:350: `FindObject` compares as far as the wanted path goes, past
  the end of a shorter one, with nodes that an earlier field has left there:
  `FoundIsOnPath` fails where a collection 3 has a feature 2 and another feature
  2 follows beside it, for the path 2, 2 below their collection.
* hidparser.c:394: with a logical maximum that is no power of two less one
  `~LogMax` is no sign extension: -100 of -100..100 is read as -97.
* hid_opening.c:80: IDs match when all wanted bits are set, not when equal.
* darwin.c:34: a failed claim is a success of `hid_force_open`.
* hid_exchange.c:41 and the like: the result of `hid_find_object` is unused;
  a path that is not found leads to a request for report 0.
* lshid.c:103: the loop has no end if `hid_init` failed (NOT_INITIALISED each
  time) or a device of the lists cannot be opened (FAIL_OPEN_DEVICE each time):
  `Futile` in `Programs`.
* lshid.c:57: the `malloc` for a path has no room for its `/` and its end; :48:
  the 33rd device is written beyond the table; :41: `custom_data` of the
  matcher is read through without having been set.
* hidwrap.py:159: `close` does not clear `is_open`; after the program's own
  `close` the destructor closes again and raises. :139: without `force` the
  interface number is not passed on. :101: `cleanup` with an Interface open
  lets the next initialisation free its device.
* hid.i:1: the interpreter lock is released around each call, though the library
  is not thread-safe (hid_opening.c:115).
* hidwrap.py:195 asks for a duration in milliseconds up to 1020;
  hid_exchange.c:442 refuses more than 255, as it counts in units of 4 ms.
* libhid-detach-device: its manual page speaks of "the device identified by the
  ID string"; with the masks of hid_opening.c:80 it takes the first device whose
  IDs have all bits of those.
* hid_exchange.c:261: `hid_get_item_value`, for input items by its comment,
  reads feature reports.

## 8. Not modelled

Text and logs (`debug.c`, `hid_assert.h`, `hid_strerror`, the lines that
`hid_write_identification` writes, `hid_format_path`); `hid_get_item_string` and
`hid_set_item_value`, which the code leaves unimplemented; how bytes make an
item, with the big-endian branch; `malloc` failing in `hid_new_HIDInterface`,
which changes nothing; the calls of `hid_exchange.c` on an object that was
deleted, and `hid_set_idle` on a closed one, which is undefined behaviour; four-byte logical
bounds, beyond TLC's integers; Python programs with several threads, the report
methods of the class, which only call hid_exchange.c, and the type maps of
`hid.i`; how the programs read their arguments; `extract_report_descriptor.py`;
the build and the documentation.
