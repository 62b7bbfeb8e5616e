# LinuxTracepoints-Rust: a TLA+ verification project

This directory models the run-time core of the LinuxTracepoints-Rust
repository: the crates that register and write Linux user_events tracepoints,
and the crates that decode and read them back from `perf.data` files. The
modules are translated from the source; TLC checks them on small instances and
TLAPS proves much of what they say for every instance. `PROJECT.json` maps each
definition to source lines and lists runs, mutants, hazards, findings and
theorems.

## 1. The system

| Component | Source | State | Operations |
|---|---|---|---|
| user_events_data cell | `tracepoint/src/native.rs` | one static atomic word: descriptor, `-errno` or `-EAGAIN` | `get`, `update`, `peek` |
| `TracepointState` | `tracepoint/src/native.rs` | atomic `write_index` (also a lock), atomic `enable_status` written by the kernel | `new`, `register`, `unregister`, `write`, `write_with_headers`, drop |
| eventheader `Provider` | `eventheader/src/provider.rs` | busy flag, the linker's list of tracepoint pointers | `register`, `unregister` |
| eventheader write path | `eventheader/src/_internal.rs` | none | `write_eventheader` |
| eventheader macros | `eventheader_macros` | none at run time | generated code |
| dynamic provider | `eventheader_dynamic/src/provider.rs` | list of event sets, each a tracepoint in shared memory | `find_set`, `register_set`, `create_unregistered`, `unregister`, drop |
| `EventBuilder` | `eventheader_dynamic/src/builder.rs` | metadata and data buffers, id, tag, opcode | `reset`, `id_version`, `opcode`, `add_*`, `set_struct_field_count`, `write` |
| `EventHeaderEnumerator` | `tracepoint_decode/src/enumerator.rs` | positions in metadata and data, a stack of struct frames, a state and a substate | `move_next`, `move_next_sibling`, `move_next_metadata`, `reset`, `write_json_item_and_move_next_sibling` |
| values, formats, text | `tracepoint_decode/src/{perf_item,perf_field_format,perf_event_format,charconv,filters,writers,display}.rs` | none | pure conversions |
| sessions, clock | `tracepoint_decode/src/perf_session.rs` | clock id and offset | `set_clock_data`, `get_clock_data`, `time_to_time_spec` |
| `PerfDataFileReader` | `tracepoint_perf/src/{file_reader,input_file}.rs` | open file, buffers, event queue of a round, headers, attrs | `open_file`, `close`, `move_next_event`, `current_event` |
| event descriptions | `tracepoint_perf/src/file_reader.rs` | list of descriptions, map from ids, formats, four offsets | `add_attr`, `parse_tracing_data`, `get_sample_event_info`, `get_non_sample_event_info` |
| `PerfDataFileWriter` | `tracepoint_perf/src/{file_writer,output_file}.rs` | output position, headers, descriptions, tracing data | `create_file`, `write_*`, `set_*`, `add_*_event_desc`, `finalize_and_close`, `close_no_finalize` |

How they interact. Every `register` calls `get` of the data-file cell, and
`write` and `unregister` peek at it; the kernel writes `enable_status` of a
registered tracepoint at any time. A `Provider` calls `register` and
`unregister` of each tracepoint in its list. A dynamic provider
registers a tracepoint for each event set and hands out references that outlive
its own; an `EventBuilder` collects the fields of an event and writes it through
a set. What is written goes through the kernel into a `perf.data` file, which a
`PerfDataFileWriter` may also make; a `PerfDataFileReader` hands out its events
and finds an event's description by the id in it. The `EventHeaderEnumerator`
or a tracefs format decodes the event's fields to item values, which are
converted to text or JSON.

What is hard here:

* several threads race through lock-free words (`get`, `register`,
  `unregister`, `write`), with the kernel as a further party and with system
  calls that fail between two atomic steps;
* a list is rewritten in place under a try-lock that returns success when busy;
* the enumerator replaces recursion by a hand-kept stack and three ways of
  moving that share one context;
* the reader sorts rounds of events that stay in growing buffers, from files
  that may break off anywhere, and learns how to read events from the events;
* the writer lays out sections before it has written them, over a file that may
  have been there, and may fail at every write;
* an event set's memory is known to the kernel by address while any number of
  references to it come and go;
* two halves of one format live in different crates: what the builder encodes,
  the enumerator decodes and the JSON writer prints without recursion;
* conversions are tables over encodings, formats and sizes with fallbacks for
  malformed input.

## 2. Modules

| Module | Models | EXTENDS / uses |
|---|---|---|
| `UserEventsDataFile` | the cell; one atomic access or system call per action | |
| `AtomicDataFile` | abstract specification: `get` takes effect at one instant | instantiated by `UserEventsDataFile` |
| `Tracepoint` | `TracepointState` with the kernel's side | EXTENDS `UserEventsDataFile`: the composed system |
| `EventHeaderProvider` | `Provider` with its tracepoints, one call of a tracepoint per action | |
| `EventHeaderEnumerator` | the enumerator's context as a record, one operator per function | |
| `MCEventHeaderEnumerator` | events to decode and a reference decoder | EXTENDS `EventHeaderEnumerator` |
| `ReaderAttrs` | descriptions, offsets, walks over events: operators only | |
| `PerfEventInfo`, `MCPerfEventInfo` | the table of descriptions against what the kernel writes | EXTENDS `ReaderAttrs` |
| `PerfDataFileReader`, `MCPerfDataFileReader` | opening, reading in both orders, closing | EXTENDS `ReaderAttrs` |
| `PerfFileLayout` | the file as the reader's `open`, `load_attrs` and `load_headers` see it: operators only | |
| `PerfSessionInfo` | the session's clock: operators only | |
| `PerfDataFileWriter`, `MCPerfDataFileWriter` | the writer and the file under it | EXTENDS `PerfFileLayout`, `PerfSessionInfo`: writer and reader composed |
| `DynamicProvider` | the provider, its sets, the threads that hold them, the kernel | |
| `EventBuilder` | the builder as operators from builders to builders | |
| `EventHeaderWire` | the event between the programs: `write_eventheader`, tracepoint names, `enumerate_with_name_and_data` | EXTENDS `EventBuilder` |
| `EventRoundTrip`, `MCEventRoundTrip` | build, write, open, enumerate, print | EXTENDS `EventHeaderEnumerator`, `EventHeaderWire`: both halves composed |
| `TextConversion` | `charconv` and `filters`: operators only | |
| `PerfItemValue` | values as text and as JSON: operators only | EXTENDS `TextConversion` |
| `PerfFieldFormat`, `PerfEventFormat` | field declarations, format files, field values: operators only | |
| `Conversions`, `MCConversions` | a request and its result, with reference definitions | EXTENDS the four above and `PerfSessionInfo` |
| `TracepointProofs`, `EventHeaderProviderProofs`, `DynamicProviderProofs`, `EventRoundTripProofs`, `PerfEventInfoProofs`, `PerfDataFileReaderProofs`, `PerfDataFileWriterProofs`, `ConversionsProofs` | proofs; `TracepointProofs` also about `UserEventsDataFile`, `EventRoundTripProofs` also about `EventHeaderEnumerator` | each EXTENDS the module it is named after |

### Correspondence with the code

**UserEventsDataFile.** `file_or_error` is the static's word. `GetLoad` is the
load in `get`, `UpdateOpen` the search of `/proc/mounts` and the open (any
descriptor not in use, or an error), `UpdateCas` one iteration of the
compare-exchange loop with its three outcomes, `UpdateClose` the loser's close.
`new`, `old`, `got` are locals; `openFds` is the process's open descriptors for
this file.

**Tracepoint.** `Register` is the swap to BUSY with its `assert!`,
`RegisterGet` the calls into the cell, `RegisterIoctl` the ioctl (no file,
refused, accepted), `RegisterFinal` the swap back; `UnregisterSwap`,
`UnregisterIoctl`, `UnregisterFinal` and `Drop` likewise. `write` is
`WriteLoadEnable`, `WriteLoadIndex`, `Writev`. `KernelRegister`,
`KernelUnregister` and `KernelUpdate` are the kernel, modelled from how the
ioctls are used. `mem` follows the object's life (Rust lets nobody call into an
object being dropped). A failed `assert!` ends the call and leaves the words.
`SerializedCallers` restricts callers to `register`'s documented contract.

**EventHeaderProvider.** The pointer list is a sequence; `Sort`, `Scan`,
`Compact` and `Fill` are the fix-up of `register_impl`, a loop iteration per
step (`Sort` yields any descending arrangement of the list, which is what
`sort_unstable_by` promises), `RegisterEach` and `UnregisterEach` the walks. A
tracepoint is abstracted to the whole calls of `Tracepoint`. `misused`
remembers that a caller broke a precondition of `register`, so that no call is
excluded from the model.

**EventHeaderEnumerator.** Metadata is a sequence of tokens and data a sequence
of units, so that offsets stay numbers and every check of the code against the
end of a buffer stays a comparison. `NextProperty`, `StartStruct`,
`StartArray`, `StartValue`, `SkipStruct`, `EndStruct` and so on are the private
functions; `MoveNext`, `MoveNextSibling` (a loop: one iteration per step),
`MoveNextMetadata` and `Reset` are the actions. `CountModulus` is the range of
the `u8` counters.

**ReaderAttrs / PerfEventInfo.** Data is a sequence of u32 units, a u64 takes
two. `AddAttr` is `add_attr`, with the four offsets as their own operators;
`Walk` and `WalkBack` go over a sample and over the suffix of another event in
the order of the code. In `PerfEventInfo` the kernel's side
(`KernelSample`, `KernelEvent`) builds events from an attr independently of the
offsets. `AddFormats` is the two parts of `parse_tracing_data`: formats are kept
as they are parsed, and only after the last one (`whole`) do the descriptions
that are already there get theirs; data that breaks off returns in between.

**PerfDataFileReader.** One `read_one_event` per step (`ReadOneEvent`:
`ReadWhole` or `ReadBroken`), so a call of `move_next_event` in time order is
`StartRound`, many `FillQueue`, then `TakeQueued` or `TakePending`. `rd` is
`DataFileReader` apart from the queue; buffers hold the events' units, so that
a stale reference is seen. `SortQueue` yields the arrangement by time and place
in the round. Parsing of header contents is abstracted to what the content
lists; a file breaks off, if at all, in its last event, at one of the places
the code tells apart (header, size, data, following data). Normal and pipe mode
differ in what the end of the file means.

**PerfDataFileWriter / PerfFileLayout.** The file is a sequence of units: the
file header, a section, an attr, an id, an event take one each. `disk` is what
another process would find at that moment, so each state is also one after a
crash. The setters are one action each; `finalize_and_close` is `Finalize` (the
two synthesized headers and the layout), one `FinalizeWrite` per call of the
file, `FinalizeAttrs`, `FinalizeSeek` and `FinalizeHeader`. A failing
`write_all` leaves any proper prefix and moves the kernel's position but not
`inner_pos`. After an error the writer goes on where it is, so what the attempt
wrote is event data from then on (`Leave`). `OpenLayout`, `ParseEventDesc`,
`ParseTracing` are translated from the reader, not from the writer, with what
the reader passes over in silence: a description with another attr size, too
many ids or too long a name, and all after it; a format without a usable common
type or with another than the first one's. The wording of the tracing data,
attr contents and the padding of names are left out.

**DynamicProvider.** A set is an address that can be freed and used again;
`Release` is what dropping the last `Arc` does. `register_set` is two steps
(registered with the kernel, then inserted and returned) because the safety
comment is about the time between. `unregister` is a loop, one set per step;
the kernel may refuse each ioctl (`UnregisterIoctl`), whose errno the code does
not look at: the set has lost its index, the kernel keeps the address (history
variable `refused`), and the memory is freed with its last reference all the
same. `writers` load the enable bit and the index separately, as `Tracepoint`
does. Rust's `&mut self` keeps two calls of the provider apart (`CanCall`);
nothing keeps writers apart from it.

**EventBuilder / EventHeaderWire / EventRoundTrip.** Metadata is bytes, built
exactly as `raw_add_meta` does, so that flags, tags with a zero byte and
bookmarks are real. `WriteEventheader` puts the header and the extensions in
front, `EventInfo` parses the tracepoint's name and the extensions.
`Declarations` cuts the metadata into the declarations that
`EventHeaderEnumerator` walks: its `MoveNextImpl` and `PassSimpleArray` are
used as they are. `JsonStep` is one round of the loop of
`write_json_item_and_move_next_sibling`; `Comma`, `WritePropertyName`,
`WriteBegin`, `WriteEnd` are the JSON writer with its comma flag.

**TextConversion, PerfItemValue, PerfFieldFormat, PerfEventFormat,
PerfSessionInfo.** Pure functions. Integers of up to 64 bits are base-256
digits, so that sign extension and byte order are seen and TLC's integers do
not overflow; the digits' text is abstract. A field's declaration is a sequence
of tokens, a format file a sequence of lines. `Conversions` has one action per
kind of request.

## 3. Runs

| Run | Configuration | Shows |
|---|---|---|
| `data_file` | 3 threads, 4 descriptors, 3 errnos (EAGAIN's number among them) | no leak or double close, `get` returns, and the protocol implements `AtomicDataFile` |
| `tracepoint` | 2 threads, 2 tracepoints, callers keep the contract | `unregister` tells the truth, no registration is lost, drop unregisters; every call returns |
| `tracepoint_any_callers` | 3 threads, 2 tracepoints, any calls, panics | BUSY has one holder, a stored index is registered, `writev` sends an index issued to it by the file it goes to |
| `provider` | every list of up to 4 entries over 3 addresses and NULL, 2 threads | list private while rewritten, fixed up exactly, result 0 of a whole walk means done |
| `enumerator` | all events built from the declarations in the MC module, limit 11, nesting 2 | every mix of moves yields the reference decoder's items and verdict; positions stay in range; `move_next_sibling` returns |
| `event_info` | 512 layouts, variable-length parts, pairs of attrs that agree or not | offsets, ids and formats consistent; info equals what the kernel wrote; cut samples are errors |
| `reader` | about 2000 files, buffers of 16 units (two samples), both orders, reopening | promised order (rounds one after another, each by time, equal times as in the file), nothing skipped or repeated, bytes intact, reopening is fresh, calls return |
| `writer` | up to 4 calls and failures, two files, names, id lists and attrs within and beyond the limits | a file that opens tells what the calls gave, whenever the writer stopped and after retries too; a finalized file opens; `finalize_and_close` never trips its assertion, called again after an error too |
| `dynamic_provider` | 2 addresses, 2 keys, 2 threads, registrations and unregistrations that the kernel refuses | the provider holds every set the kernel has and did not refuse to give up; no write that begins after unregistration sends an event; `unregister` ends with nothing registered but what was refused |
| `event_round_trip` | up to 3 of 10 kinds of fields, 3 event sets, reused builder | what is written fits, its header reads back, its JSON is the caller's fields |
| `conversions` | 61,695 texts, values, fields, format files and clocks | each conversion agrees with a reference definition |
| `field_values` | the instance of `conversions` | expected violation, see below |

`field_values` shows a disagreement with the documentation of
`get_field_value_with_data_and_reader`: the value of text of varying size has
no bytes (or the build panics), because a mask is computed from an element size
of 0. `FieldReadsBack` states what does hold, with the excluded fields named in
`Misread`.

Three disagreements are part of what a passing property states:

* `JsonDenotesText` names the values whose JSON is not what the documentation
  says (`Misprinted`) and what is written for them: a 32-bit hex integer ignores
  `IntHexAsString`; a 16- or 32-bit value that is the one character backslash,
  and UTF-32 text with characters to escape, are written bare between the
  quotes. Of all other values text and JSON agree under every option.
* Data given to `set_header` for EVENT_DESC or TRACING_DATA does not get into
  the file, where the comments say that the two are synthesized if no data was
  set. `AcceptedIsComplete` states what the two headers hold instead: the
  descriptions, up to the first that is beyond the reader's limits, and the
  tracing data, with the formats of one common type, when its sizes were set.
* When the kernel refuses to unregister a dynamic set, the set is freed with its
  last reference while the kernel still has its address, against the SAFETY
  comments of `register_set`. `PinnedUntilUnregistered` and `UnregisterEnds`
  state what holds whatever the kernel answers. The comments' guarantee is
  `RegisteredIsNotFreed`: TLC refutes it on the instance of `dynamic_provider`,
  and theorem `DynamicNotFreed` says that it holds while nothing was refused.

Other findings have no run of their own. They were met while translating, and
the passing runs keep clear of them by their instances (named here) or by a
condition in the property:

* `register` on a registered tracepoint panics with BUSY stored, and drop then
  skips the unregistration (`NoLostRegistration`, `DropUnregisters` need
  serialized callers);
* an overlapping `unregister` of a `Provider` returns 0 at once
  (`UnregisterWalkLeavesNone` is about the call that walks);
* constant-length arrays of two or more structs are decoded from the wrong
  place after the first element, and the `u8` counter of
  `skip_struct_metadata` wraps (neither is among `MCEvents`);
* a pipe-mode file that ends inside an event's data leaves a stale reference,
  and data after an event may push a buffer over its limit (not among
  `MCFiles` of the reader);
* buffers shrunk by `close`, a feature event that replaces parsed tracing data,
  a mis-scaled assertion;
* a finalized file without descriptions, or whose last one has no ids, is
  refused (a condition of `FinalizedOpens`); names outside ASCII panic (`Wide =
  FALSE`); a retry of `finalize_and_close` after an I/O error counts the
  footers as events (`Leave` makes them part of `events`), and after a torn
  write or a failed rewrite of the header it makes a broken file (excluded by
  `damaged`); the limits on ids of reader and writer differ;
* `RelLoc4` fields are read as absolute, `struct` fields of size 1 have no
  width, a second `format:` line leaves the count of common fields;
* a new session's clock id is 0; `errno` of a set
  that was never registered is 0.

Accepted oddities, seen while modelling: tracing data that breaks off after
some formats leaves the descriptions before it without one (`FormatsAttached`
says which); an array of structs with no fields
passes the check that a struct has a field; a declaration with both array flags
is accepted by `next_property` and refused by `move_next_metadata`; a builder
may add more than 255 top-level fields, and the enumerator says "not supported"
at the first of them (`JsonIsWhatWasAsked` states it, with a limit of 2); a
counted value of more than 65535 elements gets a 4-byte length, but then the
event is too large to be sent.

### Bounds

* Threads: two suffice for each pairwise race; three are used where a third
  party can find what two left behind (the compare-exchange loop, BUSY).
* `U32_MAX` is 3 or 5: the code only compares an index with the two highest
  values. One index is enough, since a kernel may reuse an index for two files
  or two tracepoints and the properties compare pairs of file and index.
* Provider lists of four entries contain every combination of duplicates at
  the front, middle and end, with and without NULLs.
* Enumerator: two declarations from the full set, three from those that nest;
  nesting limit 2 so that the limit is met; the move limit 11 lies between the
  length of most events and of the longest.
* Event info: one id for every subset of the eight fields that decide offsets;
  two ids for conflicts; two descriptions so that one can replace another. A
  third adds nothing, since each comparison is with the first.
* Reader: four events in files that test order (with two times, so that ties
  occur), three from twelve kinds in files that test loading; 16 units are two
  samples, so a round needs several buffers. A reader is opened at most twice
  and not read after an error.
* Writer: four calls allow two descriptions and an event, or a retry after an
  error; 2,227,236 states. Sizes of contents differ (0, 1, 2 and more units),
  so that a wrong offset meets the wrong unit. The limits are small enough to
  be met: `IDS_LIMIT` 2 and `SAMPLE_IDS_MAX_SIZE` 4 with id lists of 0, 2, 3
  and 4, `STRING_LIMIT` and `NAME_MAX_SIZE` 8 with names of 3 and 8,
  `SECTION_LIMIT` 16; one of two attrs has another size, and five formats have
  three common types, none among them. `BILLION` and `U64_MAX` are small
  because only carries and wrap-around matter.
* Dynamic provider: two addresses let two sets live at a time and an address be
  used again, also one that the kernel kept; two threads make a set shared or
  not.
* Round trip: one name, tag, id, version and opcode, which an event has or,
  as the first of a builder or after `reset`, has not; ten calls and three
  sends; `EventMax` 29 and `HeadersMax` 6 put the limit amid the sizes of the
  events with three fields; three fields make a struct of two in a struct
  overflow, end early, or be followed by another.
* Conversions: every encoding with every format and, for each width, patterns
  at the ends of its range and the characters JSON escapes, in both byte orders
  and under five sets of options that tell the options apart; UTF-8 of up to 4
  bytes from the bounds of its ranges; format files of up to two common and two
  other fields.
* `CHECK_DEADLOCK FALSE` stands where the system may stop: every tracepoint
  dropped, an event decoded to its end with its move limit used up, a reader
  closed after its second file, the writer's calls used up, a dropped dynamic
  provider nobody holds a set of, a conversion that is served.

### Fairness

Weak fairness is given only to the steps of a call in progress
(`GetStep`/`GetReturn`, `ContinueCall`, `Continue`, `SiblingStep`,
`FillQueue`, the loop of the dynamic provider's `unregister` and the steps of a
write): the code has no blocking operation, so a preemptive scheduler
lets a thread in a call go on. No call has to start and the kernel does not
have to act.

### Mutants

Each property of a passing run has a mutant: an operator named in the modules
as a "Fault", a plausible slip in the code (a dropped check, a reversed
comparison, a missing reset), which makes the property fail.

## 4. Proofs

All proofs are checked by TLAPS with SMT, Zenon and LS4; the assumptions are
those named in the modules (for instance `U32MaxAssumption`:
`U32_MAX` leaves room for an index; `IndexesAssumption`: the kernel assigns
valid indexes).

**TracepointProofs, the cell** (any threads, descriptors, errnos).
`DescriptorsOwned` alone is not inductive: nothing says that a thread outside
`update` holds no descriptor in its locals, nor that a loser at the close has
one. `CellInv` adds `LocalsClean` and `LoserHolds`. `GetStepInv` proves the
step of one thread, `CellInvariant` the invariant, from which
`NoDescriptorLeak` and `GetReturnsPublished` follow. `PublishedForEver` (an
action property) and `Linearizable` (refinement of `AtomicDataFile`: each step
is a call, an effect, a return or a stutter) also need `RetryStoresDescriptor`:
a thread whose expected value is no longer EAGAIN has a descriptor to store.

**TracepointProofs, the tracepoints** (any threads, tracepoints, indexes).
`TypeCorrect`. Then `IndexInv`: BUSY is exclusive, and an index stored in the
word, about to be stored by `register`, or loaded by `write`, was issued by the
published file. The middle conjunct is needed because the index exists in a
local between the ioctl and the swap; that the published file never changes
comes from `CellInv`. This gives `BusyIsALock`, `WritesAreAddressed`,
`StoredIndexIsRegistered` with no assumption on callers. With
`SerializedCallers`, `SerialInv` adds: BUSY has an owner, a registration the
kernel holds is in the word or BUSY is, an owner past its ioctl has left
nothing behind, and nobody but the dropping thread is in a call on an object
being dropped. This gives `RegistrationKept`, `DroppedMeansUnregistered`,
`UnregisterIsTruthful`.

**PerfEventInfoProofs** (any recordings, any number and order of
descriptions). The invariant `Table` is the conjunction of the record type with
`OffsetsAgree`, `LastDescWins` and `FormatsAttached`. `OffsetsAgree` rests on
`OffsetsAreSet` (no attr yields "unset", so "unset" means "no attr yet");
`FormatsAttached` on `format_by_id` only growing, and on tracing data being
parsed at most once: `waiting`, the number of descriptions that data which
breaks off leaves without a format, does not change after that.

`InfoIsWhatWasWritten` is about the answers: id, values, ranges and sort time
are what the kernel wrote, whatever the recording's attrs, in whatever order
attrs and tracing data were loaded, and wherever a sample is cut off. `InfoInv`
is `Table` with `Recorded` (a description that lists an id has the attr the id
was recorded with) and `Asked` (the event asked about is a kernel's event, cut
or not, and the answer is the reader's). The argument has two sides.
`KernelSampleLaid` and `KernelEventLaid` say where the kernel puts each word
(`Places`, `Laid`: field by field, a word for each flag of the attr, then the
parts of varying length). `SampleWalked` and `SuffixWalked` say where the
reader's walk stands after any number of fields (`Walked`), or which field it
stopped in because the sample ended there (`Partly`). `SampleOffsets` and
`BackOffsets` show that the offsets of `add_attr`, computed from a subset of
the flags, are places of the layout, forwards and backwards. The theorem has
the hypothesis `AttrFits`: the event was recorded with an attr that fits the
reader's offsets, so that `add_attr` takes or would take it. For an attr that
`add_attr` refuses, the reader looks for the id at another attr's offset, and
what it finds there is arbitrary; that it then reports no wrong event is
checked by TLC on the instance. `IdsAssumption` says that ids are numbers.

**EventHeaderProviderProofs** (lists of any length, any pointers, any
threads). `ListIsPrivate` says that one thread has the flag, so that the list
can be reasoned about as its own. `LoopInv` has one invariant per loop of the
fix-up: the list is a rearrangement of what the linker put there (`FromLinker`,
`FoundIn`), the part before `good_pos` is strictly descending, nothing of the
rest is missing from it, and at the end `FixedUp`: each tracepoint once, then
NULLs. `WalkInv` says what the two walks have done up to `pos` and that the
kernel only has registrations of a list that was fixed up, which is why a walk
that stops at the first NULL has seen everything. This gives
`ProviderListPrivate`, `ProviderListFixedUp`, `ProviderRegisterComplete` and
`ProviderUnregisterComplete`.

**DynamicProviderProofs** (any addresses, keys, threads, any ioctl refused).
`PinnedUntilUnregistered` needs `NoDangling` (no reference to free memory, from
the counting that `Release` does), `IndexIsKernels` (a set has an index exactly
while the kernel has its address and has not refused to give it up), `Tracked`
(these addresses are in the list or on the way to it, and `unregister` leaves
none behind it) and `LateIsUnregistered`: a write that began late is on an
address the kernel is not given again while the writer holds it.
`DynamicPinned`, `DynamicNoLateEvent` and `DynamicNoDangling` follow, and
`DynamicNotFreed`: no registered memory is free, as long as the kernel has
refused no unregistration. Without that condition the statement is false.

**PerfDataFileReaderProofs** (any files that break off anywhere, buffer sizes,
both orders). The first half of the invariant says that every reference in the
queue, and the current one, finds its event's bytes (`Intact`), that buffers
only grow within a round (`Grows`), and that those after the buffer in use are
empty; it gives `ReaderBytesIntact`, `ReaderReopenFresh` and
`ReaderBufferAsserts`. The second half (`OnceInv`, `WholeInv`) says that the
events before the read position are, each once, among those handed out and
those still queued; it gives `ReaderEachEventOnce`. The third (`RoundInv`) is
about time order: of two events handed out the later one is never from an
earlier round (`OutInOrder`), the queue is one round (`OneRound`) with the
numbers that `AsInFile` says, and what has been handed out ends with the part
of the queue already taken, all before it lying earlier in the file (`Before`);
a queue being filled has no end of round in it (`Filling`), a queue being
handed out is sorted (`Sorted`). `SortQueue` is used only by what a stable sort
promises. It gives `ReaderRoundsInOrder`, which is what `EventsInOrder` says of
the order, for the times the reader finds. `FilesAssumption` asks that an event
has a header and fits an empty buffer (its size is a u16), nothing of its
contents. As in the model, the subtraction at `file_reader.rs:1005` wraps.

**EventRoundTripProofs, the enumerator** (any event, nesting limit, move limit,
order of calls). `PositionsInRange` is far from inductive: that a value lies in
the data depends on the lengths having been checked when its array began, and a
struct's end returns to what was saved. `IndInv` therefore says, substate by
substate, what the code's own `debug_assert`s say (`Asserted`) and what they
rest on (`Support`): the declared type is the one at `name_offset`, the
elements of a simple array that are still to come are all there, each frame of
the stack belongs to a struct one of whose elements is being read. One lemma
per function of the code shows that it leaves such a context. Hence
`EnumeratorInRange`, and `EnumeratorAsserts`: no `debug_assert` of the moving
functions fails and the match of `move_next_impl` is exhaustive. Events are
restricted by `EventsAssumption` only to be sequences of tokens whose structs
count fewer fields than a counter can.

**EventRoundTripProofs, the round trip** (any calls of the builder, names,
options, levels, keywords and ids). `RTInv` says that the metadata begins with
the event's name and its NUL, which no later call touches because a bookmark
lies behind them (`BookmarkOK`), that the builder's header is the one asked
for, and that what is on the wire is `Message` of the builder as it was.
`RoundTripFits` adds up the extensions (`Framed`); `BuilderAssumption` asks for
6 units of headers, which is what the code's `52 + 16` bytes stand for.
`RoundTripHeader` then shows that the decoder undoes each step: `HexReadsBack`
(the digits of a number are read to that number and end where they end),
`NameParsed` (the last underscore is the one `CommandString` wrote, and
provider, level, keyword and options are found around it), `ExtsFound` (the
loop over the extensions finds the metadata and the ids), `NameFound` (the
first NUL of the metadata ends the event's name), `InfoOf` (no error of
`enumerate_with_name_and_data` applies). `NamesAssumption` (no NUL in a name)
and the clause of `SendsAssumption` on ids are `debug_assert`s of `reset` and
`write`; the clauses on options say what `ProviderOptions::group_name` accepts,
after the `G` that `Provider::new` puts in front.

**PerfDataFileWriterProofs** (any payloads, attrs, ids, names, formats, header
contents and sessions, any number of calls, failure of any write).
`AcceptedIsComplete` relates the file to everything the writer was given, so
the invariant follows the file through the calls. `WriterInv` is `WriterType`;
`FinalizeInv`, what the steps of `finalize_and_close` have left to do;
`RecordingInv`, that while events are recorded the file begins with a blank
header, which no `open` accepts, and goes on with exactly those events, and
`WritingInv`, that then the part before `inner_pos` is the layout `Finalize`
planned; `LeftInv`, that behind the events lies what the attempt under way has
written, which an error makes events of; `HeaderInv`, that the file has no real
header until `finalize_and_close` is done; and `FinishedInv`, that it then is
complete. The header is written last, which is why a file accepted after a
crash is complete. All but the first two are about files in which no write was
torn and no rewrite of the header failed (`damaged`); a retry after any other
error is included. `HeaderLayout` and `AttrLayout` say where each section lies,
from sums of sizes (`SumTable`); `EventDescParsed` and `TracingParsed` that the
reader's loops over descriptions and formats undo what the writer concatenated,
up to the first description beyond the limits (`DescsMatch`) and for the
formats of one common type (`FormatsMatch`); `CompleteOpened` puts these
together to `OpenLayout` of the finished file. Hence `WriterAcceptedIsComplete`
and `WriterFinalizedOpens`, the latter for files whose sections the reader's
limit admits (`SectionsFit`). `WriterFinalizeReturns` is stated for
`NarrowNames` (no name has a character of two bytes): with wider names the code
panics, which is one of the findings. `WriterAssumption` says that contents
are sequences of units and numbers and that the two limits on names are the
same multiple of 8, as `64 * 1024` is.

**ConversionsProofs.** *Clock* (any clock with an id, any times, any number of
nanoseconds in a second, any width of the integers):
`ConversionsClockReadsBack`. Session and headers lose nothing, and the wrapping
subtraction followed by carries in `time_to_time_spec` equals the exact
difference (`Divided`, `ThreeTimes`, `AddedUp`). *Format files* (any lines in
any order, any number of fields, file ended or not):
`ConversionsFormatReadsBack`. `FieldReparsed` shows for one field that what is
written for it parses to it, `LineParsed` what one line does to the parser's
state, `FieldsLaidOut` where `WriteFormat` puts the fields, `Rereading` how far
the parser is after any number of those lines. As in the property, the format
has common fields. *Text* (any bytes, valid in their encoding or not, except
UTF-32, where the code does not escape): `ConversionsEscapedReadsBack`.
`StridesExist` and `CallsGood` cut the text into the calls that the converter
makes of its filter, `CallEscapes` says what the filter writes for one call,
`OneReadBack` and `RestReadsBack` that a JSON reader gets the call's text from
it and goes on behind it. `ConvAssumption` says that bytes are bytes and times
are u64.

**Recursion in the proofs.** The theorems about induction that take an operator
cannot be used here, but `NatSet`, proved from the well-foundedness of the
naturals, gives induction for a set, and a property of numbers can be put as a
set. With it the recursive functions `SkipFields`, `Hex`, `HexToInt`,
`ExtensionsFrom`, `SizesBefore`, `ParseEventDesc`, `ParseSystems`, the loop of
`ParseFormat`, `Utf8Calls`, `Utf16Calls`, `Unescaped`, `WalkWords`, `WalkBack`
and the fold under `FlattenSeq` are shown to have a fixed point (lemmas
`...Exists`), so that their equations may be used.

**Only model-checked.**

* Liveness (`GetReturns`, `CallsReturn`, `SiblingReturns`, `MoveNextReturns`,
  `UnregisterEnds`).
* The enumerator against the reference decoder and the JSON text
  (`WalkMatchesReference`, `MetadataVerdict`, `JsonIsWhatWasAsked`), whose
  references are RECURSIVE operators, written independently of the code, which
  the prover cannot use.
* `TextReadsBack`, `JsonDenotesText` and `FieldReadsBack`, which compare with
  tables of their instance.
* `EventsInOrder`, which compares the whole output with times and places that
  are computed from the file, apart from the reader. Its parts are proved: no
  event is lost or repeated (`ReaderEachEventOnce`) and each round comes by the
  times the reader found (`ReaderRoundsInOrder`).
* `InfoIsKernels` for events of a refused attr, and `FinalizeReturns` has no
  statement for names of two-byte characters (see above).

## 5. Not modelled

* Memory order weaker than sequential consistency. The code uses relaxed
  operations in places (`Provider`'s flag on the unregister path).
* The text of `/proc/mounts`; the characters of tracefs format files (the
  tokenizer) and of the tracing data; the digits of numbers, dates and floats.
* Macros: they generate code at compile time. The static variant of the write
  path they use differs from the dynamic one in where its data comes from.
* The ABI of perf events: constants and layouts. The accessors and `Display`
  of read-only views.
* The build without user_events, which replaces system calls by constants.
* Capacities of buffers (only their contents), and allocation failure.
* A torn write of the 104-byte file header.

## 6. Plan

Done, in this order: the cell, the tracepoint, the provider, the enumerator,
the event descriptions, the reader; then the writer, the dynamic provider, the
builder with the round trip of an event, the conversions and the clock; then
the proofs of the providers, the enumerator, the reader and the round trip;
then those of the writer, of the conversions, of the order of the reader's
rounds and of the event info. What is left to prove:

1. `EventsInOrder` as a whole, from `ReaderEachEventOnce`, `ReaderRoundsInOrder`
   and `InfoIsWhatWasWritten`: it lacks that the time the reader found for an
   event of a file is the one the file's maker meant.
2. The enumerator against a reference decoder, once the reference is restated
   as a recursive function over the declarations.
