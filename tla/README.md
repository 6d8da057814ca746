# A verification development for MXFLib

MXFLib (`src/mxflib`) is a C++ library that reads and writes MXF files; `src/mxfwrap`,
`src/libprocesswrap`, `src/mxfsplit`, `src/mxfdump` and a few more are tools built on it.
This directory holds TLA+ modules that model the parts of the library that keep state,
the TLC configurations that check them on small instances, and proofs, checked by TLAPS,
of what holds for every instance.

    tlc -workers 2 -config BodyWriter_tools.cfg MCBodyWriter.tla
    tlapm BodyWriter_proofs.tla

`PROJECT.json` lists the runs, the mutants, the findings, the hazards and the theorems,
and maps each definition to the lines of code that it stands for.

## 1. The system

The library is single-threaded and has no locks. What makes it hard is not concurrency
but long sequences of calls over shared mutable state: flags set in one method and
tested in another, packs and essence prepared now and written later, sources that have no
data yet, files whose writer died, and records that refer to others that come later.

| component | state it keeps | operations | what must be right | module |
|---|---|---|---|---|
| `BodyStream` (essence.cpp 2955-3127, essence.h) | state of the stream, requested and finished index tables, next sprinkled entry, end of stream | `GetState`, `GetNextState`, `SetFooterStatus`, the getters and setters | each requested table gets its turn, and the stream ends | `BodyStream` |
| `BodyWriter` (essence.cpp 2560-2954, 3130-4110) | list of streams, current stream, pending partition pack and its flags, pending index table, `PartitionBodySID`, phase | `AddStream`, `ClearStreams`, `WriteHeader`, `WriteBody`, `WritePartition`, `EndPartition`, `WriteFooter` | essence complete, in order, under its own SID; BodyOffset and IndexSID true; sharing rules obeyed; the file ends | `BodyWriter` |
| `GCWriter` (essence.cpp 98-1410) | streams and write orders, the queue of one content package, the index units it was told | `AddStream`, `SetWriteOrder`, `AddEssenceData`, `CalcWriteSize`, `Flush`, `WriteRaw` | predicted size is written size, items in write order, offsets told to the index are true | `GCWriter` |
| `GCReader`, `BodyReader` (essence.cpp 1414-1986) | position, handlers, pushed-back key, estimates in the RIP | `ReadFromFile`, `Seek`, `ReSync` | each KLV to its handler once, in order; a seek finds the offset | `BodyReader` |
| `IndexTable`, `IndexManager`, `ReorderIndex` (index.cpp) | segments, entries, offsets that wait for their entry, log, reorder buffer | `OfferEditUnit`, `OfferOffset`, `OfferTemporalOffset`, `AddEntriesToIndex`, `Lookup`, `CommitEntries` | same table whatever the order of arrival; a look-up is exact or says that it is not | `IndexTable`, `IndexManager`, `ReorderIndex` |
| `MXFFile` (mxffile.cpp) | file position, KAG, block alignment | `WritePartition`, `ReWritePartition`, `FillerSize`, `Align` | filler sizes legal, byte counts lead to the data, rewriting moves nothing | `PartitionLayout` |
| `RIP` and recovery (rip.cpp, mxffile.cpp) | map of partitions by position, master partition | `ReadRIP`, `ScanRIP`, `BuildRIP`, `GetRIP`, `ReadMasterPartition`, `IsTruncated` | the list found is the list written, also after a crash; a loss is noticed | `Recovery` |
| `Partition` (partition.cpp) | metadata sets, unmatched references | `AddMetadata`, `ClearMetadata`, `UpdateMetadata`, `ReadMetadata`, `WriteMetadata` | each reference linked once, in any order of arrival | `Linking` |
| `Primer` (primer.cpp) | map of local tags, its reverse, next dynamic tag | `ReadValue`, `Lookup`, `WritePrimer` | maps inverse to each other, tags distinct | `Primer` |
| types and classes (deftypes.cpp, mdtype.cpp, mdobject.cpp) | registries of types and classes, unresolved records | `LoadDictionary`, `LoadTypes`, `LoadClasses`, `Derive`, `ReDerive` | what is defined does not depend on the order of the records | `Dictionary` |
| `MDObject`, `MDTraits` (mdobject.cpp, mdtraits.cpp) | value of each property, `Modified` | `AddChild`, `SetInt`, `Resize`, `WriteObject`, `ReadValue`, `MakeCopy` | what is written is what was set, and is read back | `Values` |
| `UL`, `UUID`, `UMID`, `Label`, `SymbolSpace` (helper.cpp, types.h, ulmap.cpp) | registered labels and names, the label format | `GetString`, `ReadHexString`, `Find`, conversions | a text is read back as the identifier it was written for | `Identifiers` |
| `KLVEObject` (crypto.cpp) | plaintext offset, counts of what is encrypted, a block that waits, running hash | `WriteCryptoDataTo`, `ReadCryptoDataFrom`, footer | what is written in chunks is read back in requests of any size | `EncryptedKLV` |
| `AudioDemux` (audiomux.cpp) | buffers shared by the readers of the channels | `GetSource`, `GetEssenceData`, `FillBuffer` | all readers see all samples of their channels, in order | `AudioDemux` |
| `FileParser`, sequential and ranged sources (essence.cpp, essence.h) | list of files, current file, range, pre-charge and overrun | `ParseFileName`, `Open`, `GetEssenceData`, `GetNextFile` | all edit units asked for, once, in order, over all files | `SourceFiles` |

Not modelled are the metadata helpers, smart and parent pointers, `DataChunk`,
VBI and system items, the XML and RXI readers and the command line tools (section 7).

How they interact: the tools (`libprocesswrap/process.cpp`) call `BodyWriter`; it calls the
`EssenceSource` of each stream (a `FileParser`, an `AudioDemuxSource`) through a `GCWriter`, which
tells the `IndexManager` of the stream what it writes and where; it asks the manager for
index tables and hands partition packs, tables and metadata to `MXFFile`, which takes local
tags from the `Primer` of the `Partition`. Essence data that was read and did
not fit stays in the `GCWriter` over the return to the caller. A reader gets the RIP from
`MXFFile` (written, scanned or built), reads the metadata of the master partition
(`Partition`, `Primer`, the dictionary), and lets `BodyReader` and its `GCReader`s call
handlers for the essence, of which the encryption handler makes `KLVEObject`s.

`PROJECT.json` lists under "hazards" the places at which this is hard to test.

## 2. The modules

Each module begins with a comment that says which classes it is about and what an
integer, a name or a byte stands for in it.

* **`BodyStream`**, **`BodyWriter`**, **`MuxedFile`**, **`MCBodyWriter`**, **`BodyWriter_proofs`**: one
  stream (operators only); the state machine of the multiplexer; what a multiplexer promises,
  abstractly; the kinds of streams for TLC; the inductive invariant and the theorems, and the proof that the one implements the other.
* **`GCWriter`**, **`EncryptedKLV`**, **`MCGCWriter`**, **`GCWriter_proofs`**, **`EncryptedKLV_proofs`**: content packages, and the encrypted
  values that `GCWriter::WriteRaw` writes and an encryption handler reads (with proofs).
* **`IndexTable`** (operators), **`IndexManager`**, **`ReorderIndex`**, **`MCIndexManager`**, **`IndexManager_proofs`**: index tables and who fills them.
* **`BodyReader`**, **`MCBodyReader`**, **`BodyReader_proofs`**: reading the essence of a file, seeking and resynchronising (with proofs).
* **`Recovery`**, **`Recovery_proofs`**, **`Values`**, **`Identifiers`**, **`MCRecovery`**: reading what there is: a file whose writer may have died at any point
  and its partitions (with proofs); the values in sets and packs; labels and UUIDs as texts.
* **`Linking`**, **`Linking_proofs`**, **`Primer`**, **`PartitionLayout`**, **`Dictionary`**, **`MCPartition`**: the parts of a partition: sets and
  references (with proofs), local tags, bytes, and the dictionary that says what the sets are.
* **`AudioDemux`**, **`SourceFiles`**, **`MCAudioDemux`**, **`AudioDemux_proofs`**: sources of essence.

### Composition

`BodyWriter` composes the streams with the writer and the caller; `ReorderIndex` and
`IndexManager` both build on `IndexTable`; `Recovery` composes a writer that dies with the
readers of what it left; `Primer` a writing and a reading program. Parts of one object that
share no state (the sets, the primer and the layout of a partition; recovery, values and identifiers) are
together in one MC module, in which a variable `part` says which of them a behaviour is about while the
others rest in one initial state; their product would only multiply the states.

### BodyWriter: state and actions

| variable | in the code |
|---|---|
| `writer` | the members of `BodyWriter`: `state` = `State`, `list` = `StreamList`, `cur` = `CurrentStream` with `CurrentBodySID` (0 when that is 0), `done` = `PartitionDone`, `pending` = `PartitionWritePending`, `header` = `PendingHeader`, `footer` = `PendingFooter`, `meta` = `PendingMetadata`, `generic` = `PendingGeneric`, `table` = `PendingIndexData`, `sid` = `PartitionBodySID`, `pack` = `BasePartition` |
| `stream` | for each stream its `BodyStream` and `StreamInfo`; `profile` is what the caller fixed; `read` and `written` count edit units; `pending` says that a unit is in the `GCWriter` |
| `file` | the partitions written, each with pack, table, whether it has header metadata, and the edit units in it |
| `call` | the method in progress with its locals, where the model needs more than one step for it |
| `body` | the `Duration` that `WriteBody` has left |

An edit unit is its number. A `BodySID` is the stream. A stream offset counts edit units.

A C++ method that others call (`SetNextStream`, `WritePartitionPack`, `EndPartition`, the
index table in a partition of its own, the start of a body partition) is an operator from a machine,
the record of `writer`, `stream` and `file`, to a machine, so that an action makes all the
calls its method makes. Public methods are actions. Where a method loops over streams or
edit units each turn is an action of its own, so that the source may decide at every edit
unit whether the partition is full and whether the point is an edit point:

* `WriteHeader`: `WriteHeader`, `HeaderIndex` (one turn of the loop over the streams), `HeaderEnd`;
* `WriteBody`, and `WritePartition` by the state of the current stream: `NoCurrentStream`,
  `PreBodyIndex`, `PostBodyIndex`, `StartBody`; then `WriteEssence` by turns: `ClipEssence`,
  `EssenceEnds`, `EssenceHeld`, `EssenceWritten`; `Return` is the way back to
  `WritePartition` and `WriteBody`;
* `WriteFooter`, `FooterIndex`, `FooterEnd`; `AddStream`, `ClearStreams`, `CallEndPartition`.

`Aborted` is the state after an assertion with `default:` failed. `call = Idle` with
`body >= 0` means that `WriteBody` is about to call `WritePartition` again.

`MuxedFile` knows only a sequence of partitions and how many units of each stream have been
delivered. `WritesMuxedFile` in `BodyWriter` is its specification under the mapping that
forgets tables and flags of a pack: every step of every method begins partitions, adds the
next units of the last partition's stream, or leaves the file as it is.

### The other modules: state and actions

* **`GCWriter`**: `streams` = `StreamTable`, `used` = `WriteOrderMap`, `queue` = `WriteQueue` as a set of
  items with their orders, `tell` the length of the file. One action per public method, but `Flush` takes a step
  for each turn of its loop: `Flush` begins, `FlushItem` writes the first item of the queue with the filler before it,
  `FlushEnds` aligns the file; `call` has its locals (`LastType`, `KLSize`) and what it has written. An item from a source is its reads: what each leaves the value at, and its edit unit; a read may give nothing. `done` is what the last flush
  wrote, and what it had told the index.
* **`EncryptedKLV`**: `encryptor` and `decryptor` are the two `KLVEObject`s, `cells` the bytes in the file. Steps are
  the chunks of `WriteRaw` and the requests of `ReadDataFrom`; a block decrypted out of turn is noise.
* **`IndexManager`**: `mgr` is the manager with its provisional entry, managed data, waiting offsets and log; actions are
  the `Offer…` methods, `SetPosTableIndex`, making a table, purging, and changing a table that was made. A reverse offset that waits does so under the unit displayed, not the one it is about, as in the code.
  `told` and `asked` are histories. `ReorderIndex` has one action for each of its methods.
* **`BodyReader`**: `body` and `gc` are the members of `BodyReader` and its `GCReader`s, `rip` what `FileRIP`
  knows and estimates. A call of `ReadFromFile` takes one step for each KLV, with each answer a handler can give. A seek to an offset takes one
  step for each partition that `FindPartition` looks at (`call` has its locals) and one for each that `Seek` tries.
* **`Recovery`**: the first phase writes, item by item, and may stop at any byte boundary that matters (within a pack, a
  key or the RIP too), the second calls `ReadRIP`, `ScanRIP`, `BuildRIP`, `GetRIP`, `ReadMasterPartition`, `ReadFooterPartition` and
  `IsTruncated` in the combinations that the tools use.
* **`Linking`**: `Step` is one turn of a loop of `AddMetadata`, which recurses over strong links: the frames of the calls are the sequence
  `call`, the innermost first. Sets and links are the caller's, `AllMetadata`, `TopLevelMetadata` and `UnmatchedRefs` the partition's, as sets;
  the order of the lists is not modelled, and of duplicates only those of `TopLevelMetadata`, as counts, since `ClearMetadata` and
  `WriteMetadata` meet only those. `TreeAssumption` says that strong references cannot go round: `AddMetadata` and
  `WriteLinkedObjects` of the code would not return along such a cycle. `NewSet` lets a set be read in which no two strong references name the
  same target, which the code nowhere tests and on which `WrittenOnce` rests (the proof asked for it).
* **`Values`**: `object` is an `MDObject` with its children as values of a type; `said` is what the caller set. `Add`, `Drop`, `SetNumber`,
  `AddItem`, `SetList`, `ResizeArray`, `SetPart`, `SetValue`, `SetSame`, `Generate` are the calls that change it, `Copy` is `MakeCopy`, `Reread`
  writes and reads it into a new one, `RereadCut` a part of what was written, `ReadForeign` what another program wrote.
* **`Identifiers`**: `class` and `ident` are an object and its bytes, `text` the last thing written, `truth` what it is to be. `Write`,
  `FromString` and the conversions (`Convert`, `AsUUID`, `AsLabel`, `AsClass`, `Construct`, `Given`) move between objects and texts;
  `InsertLabel` and `SetLabelFormat` change what all of them see.
* **`Primer`**: the primer as a map, its reverse and the next dynamic tag; actions write properties, write the primer,
  read the partition of this or of another program, add a metadictionary.
* **`PartitionLayout`**: a file is a set of spans; writing and writing again compute the byte counts first, as the code does,
  and then write; that they agree is a property.
* **`Dictionary`**: a step takes one record of the list in hand; `stack` holds the recursion of `DefineClass`,
  `unresolved` the list for the next pass.
* **`AudioDemux`**: a call of `GetEssenceData` is cut where it calls the source; `SourceFiles` has the two calls of a source
  (size and data) with all that follows from them: next file, new parser, range.

## 3. What is checked

| run | states | question |
|---|---|---|
| `writer_tools` | 116 768 | do the combinations of tables that `libprocesswrap` asks for come out complete, labelled and in place, with partitions cut anywhere, and is every file finished? |
| `writer_isolated` | 25 005 | three streams: isolated tables in place, fair turns, index apart from metadata |
| `writer_api` | 242 219 | everything a caller may do: late and cleared streams, `EndPartition` anywhere, durations, clips, generic streams, edit alignment; and the refinement of `MuxedFile` |
| `gc_writer` | 2 625 756 | content packages in five scenes, also with offsets relative to values, lengths that are outgrown and sources that have nothing for now; and encrypted values |
| `index_manager` | 131 171 | tables made at any time from reports in any order, in seven scenes, and the reorder buffer, committed at once or in parts |
| `body_reader` | 583 055 | reading, seeking, refusing handlers, a looping caller |
| `recovery` | 398 227 | a writer that dies anywhere, and every way to find its partitions; values and identifiers there and back |
| `partition` | 64 021 | linking, primer, layout and dictionary |
| `audio_demux` | 1 446 208 | shared buffers of audio channels, and lists of files |
| `writer_stop_after`, `audio_wide`, `partition_drops` | - | three claims of comments that the code does not keep (section 6) |

| property | in a sentence |
|---|---|
| `TypeOK`, `PartsOK` | types (of the writer; of the parts of a partition) |
| `EssenceInOrder` | each stream is on file from unit 0 on, in order, with no gap and no repetition |
| `OwnPartition` | essence is only in partitions whose pack names its BodySID |
| `BodyOffsetTrue` | BodyOffset is the amount of essence of that SID in all earlier partitions |
| `ContentsTrue` | `MetadataAlone` (header metadata does not share with what `SetMetadataSharing` excludes: essence in `writer_tools`, index tables in `writer_isolated`), `TableLabelled` (IndexSID of the pack and index data behind it agree), `HeaderAndFooter` (one header, first; one footer, last) |
| `AllWritten` | a finished file has every unit of every source |
| `IndexComplete` | full and sprinkled tables index each unit, sprinkled ones of one kind exactly once; the sparse table has the first unit of each partition |
| `IsolatedInPlace` | isolated tables are right behind, or right before, the essence partition |
| `TakeTurns` | between two partitions of one stream each stream with essence to come has one |
| `Finishes` | every file gets finished and no combination of tables runs into an assertion (liveness) |
| `WritesMuxedFile` | `BodyWriter` implements `MuxedFile` (refinement) |
| `PackageTrue`, `TrackNumberKept` | no item is lost, write orders are distinct and kept, track numbers that were given out stay |
| `Predicted`, `IndexTrue`, `WellFormed` | `CalcWriteSize` is what `Flush` writes, but for fillers and lengths of a set size; offsets told to the index are where the items are; KAG kept; the length told in the end, also over a provisional one, is that of what was written |
| `WrittenWhole`, `ReadBack` | an encrypted value is whole with its hash whatever the chunks; read back whatever the requests |
| `LookupTrue` | what the manager keeps of a unit is what was reported of it (`EntriesTrue`), a log identifier names the unit it was asked for (`LogTrue`), and what a table says of a unit is true, or it says that it does not know |
| `index AllFound` | every unit of which a table needs no more than was reported is found, also if units are reordered, or their order is undone; the duration reaches up to the last |
| `CommittedTrue` | what is said of a unit reaches the table at its unit |
| `Delivered`, `Complete`, `SeekTrue`, `LoopEnds` | KLVs to the handler of their stream, in order; none skipped; a seek finds the offset; a loop until the end ends (liveness) |
| `recovery AllFound`, `TruncationTrue` | all partitions there are, and the master partition is a final one if there is one; a cut file is called truncated, a whole one not |
| `ObjectsTrue` | an object holds what was set, after any writing and reading, and what was read of another's bytes is what they say; `SetGenerationUID` knows whether a property other than the GenerationUID was set |
| `IdentityTrue` | an identifier is the same after any texts and conversions |
| `LinksTrue`, `WrittenOnce` | references and sets meet in any order, nothing waits in vain; a set is written once |
| `TagsTrue` | what is written through a primer is read back through another one, no tag stands for two properties |
| `LayoutTrue` | fillers fit, KAG and block grid kept, byte counts lead to the data, and rewriting keeps the extent, any number of times |
| `DictionaryTrue`, `CallsReturn` | the same dictionary whatever the order of its records; `AddMetadata` and `LoadDictionary` return (liveness) |
| `SamplesTrue`, `BuffersTrue` | each reader gets all samples of its channels in order; the buffers hold what somebody still needs |
| `FilesTrue` | all units of all files that were asked for, once, in order, with pre-charge and overrun |

Every property of a passing run has a mutant in `PROJECT.json`, a change of a definition
that a plausible mistake in the code would make, and the run finds it.

### Bounds, and why they are enough

*BodyWriter.* Two streams are the least with which a pack may be taken over, a turn pass and
a unit be held over another stream's partition; `writer_isolated` has three, with which a
stream may be passed over. `Symmetry` permutes the streams, which no definition names; it
is not used with liveness. One to three edit units per stream, and
sources with none: three allow a partition that is full after one unit, a held unit and a
last one. *Durations* are 0 (no limit) and 1; larger ones only count down. *Sized* and
*Closes* are the values of `MaxPartitionSize` (none or some) and `ClosePartition`.
*MaxPartitions* bounds only `EndPartition` calls by the user, which could go on for ever,
and with them the length of the file; nothing else needs a bound, as sources end.
`LateStreams` and `UserEnds` turn on what the tools never do and the API allows;
`Profiles` lists the kinds of streams. `writer_tools` has exactly the index table
combinations that `SetStreamIndex` of `libprocesswrap` makes.

*GCWriter.* A scene names the calls and arguments of its behaviours. Two or three streams with
one item each collide in all ways that write orders can; `maxOrders`, `maxUnits`, `maxTell` bound calls,
indexed units and the length of the file. Item sizes are on both sides of a change of the length of a BER length,
the KAGs smaller and larger than the least filler. *EncryptedKLV*: values up to 14 bytes are three blocks of four
and a rest, chunks of one and two blocks, requests below, at and above a block.

*Index.* Three or four units: a picture that is stored before those displayed before it, and one behind.
`EntryLimit` 2 and 3 splits tables into segments, `OffsetLimit` 1 makes key frame offsets overflow their byte,
`LogLimit` 2 makes log identifiers run out. Four units are put into the reorder buffer, which commits one, two or all of them.

*BodyReader.* Two files of five partitions, with and without filler behind the pack, fillers between KLVs,
header metadata, a RIP; offsets within, at and behind each partition. `MaxLog` bounds how much is read after the last seek.

*Recovery.* One body partition besides header and footer, with or without essence and index; with
the header updated or not. More body partitions repeat the same step of each scan. `MaxScan` is the longest that the footer and the
RIP can be.

*Partition.* Three sets with strong and weak references to each other, also to sets that never come.
Two dynamic tags and three properties, so that they run out. Sizes around that of the least filler and around multiples of the KAG.
Two dictionaries of six and four records, in every order of one list at a time.

*Values.* A byte has four bits, so that eight of them fit an integer of TLC; numbers -3 and 9, lists of one and two numbers, strings shorter and longer than
the fixed sizes, two items more than an array had, six classes: sets and packs with each way to write keys and lengths, and arrays, batches
and compounds. *Identifiers.* Six identities (labels of SMPTE and of others, UUIDs that begin with small and large bytes), three labels of which two have
masks, of whole bytes.

*AudioDemux.* Two readers, three channels, four samples in chunks of up to two. *SourceFiles*: up to three files with three to seven units,
two edit points.

### Fairness

`FairSpec` of `BodyWriter` says that the caller goes on: while the file is not finished some step of
`WriteHeader`, the loop `while(!Writer->BodyDone()) Writer->WritePartition(...)`
(`src/libprocesswrap/process.cpp` 158-171), or `WriteFooter` is taken. This is what the one
thread of the tools does. It is weak fairness of `Progress` with its `ENABLED` written out
(`AtRest`), as the evaluation of `ENABLED` over nested records is very slow. No fairness
is assumed of the source: each turn of `WriteEssence` reads, writes or leaves. `AtRest` excuses a
stream without an index manager whose tables are asked for in the body (the code logs an error
and returns, and the loop of the tools turns for ever); `writer_tools` has no such stream.

`WF_vars(Step)` of `Linking` and of `Dictionary`: a call that has begun goes on, as it does on one thread.
`WF_vars(Loop)` of `BodyReader`: the caller of the scene `Looping` calls `ReadFromFile` until it is told that
there is no more, as `mxfsplit` does. Nothing else has a fairness condition.

## 4. What is proved

For any value of the constants that their assumptions allow:

| theorem | states |
|---|---|
| `BodyWriter_proofs.Invariant` | `Spec => []IInv` |
| `BodyWriter_proofs.TypeCorrect` | `Spec => []TypeOK` |
| `BodyWriter_proofs.OwnPartitionAlways` | `Spec => []OwnPartition` |
| `BodyWriter_proofs.EssenceInOrderAlways` | `Spec => []EssenceInOrder` |
| `BodyWriter_proofs.BodyOffsetAlways` | `Spec => []BodyOffsetTrue` |
| `BodyWriter_proofs.AllWrittenAlways` | `Spec => []AllWritten`, if no streams are added or cleared late and `WriteBody` has no limit (of edit units; nothing is said of index data) |
| `BodyWriter_proofs.TakeTurnsAlways` | `Spec => []TakeTurns`, if no streams are added or cleared late and callers do not call `EndPartition` |
| `BodyWriter_proofs.WriterImplementsMuxedFile` | `Spec => WritesMuxedFile` |
| `AudioDemux_proofs.BuffersKept` | `Spec => []BuffersTrue` |
| `AudioDemux_proofs.SamplesInOrder` | `Spec => []SamplesTrue`, unless a sample has 32 bits or more than 8 that are resized |
| `Recovery_proofs.Invariant` | `Spec => []IInv` |
| `Recovery_proofs.AllFoundAlways` | `Spec => []AllFound`; of a file that ends within the first values of the footer pack that says only that BodySIDs and the master partition are right (`LinkThere`) |
| `Recovery_proofs.TruncationTrueAlways` | `Spec => []TruncationTrue` |
| `Linking_proofs.Invariant` | `Spec => []IInv` |
| `Linking_proofs.LinksTrueAlways` | `Spec => []LinksTrue` |
| `Linking_proofs.WrittenOnceAlways` | `Spec => []WrittenOnce` |
| `IndexManager_proofs.Invariant`, `TypeCorrect` | `Spec => []IInv`, `Spec => []TypeOK` |
| `IndexManager_proofs.EntriesTrueAlways` | `Spec => []EntriesTrue` |
| `IndexManager_proofs.LogTrueAlways` | `Spec => []LogTrue` |
| `GCWriter_proofs.Invariant` | `Spec => []IInv` |
| `GCWriter_proofs.TrackNumberKeptAlways` | `Spec => []TrackNumberKept` |
| `GCWriter_proofs.IndexTrueAlways` | `Spec => []IndexTrue` |
| `GCWriter_proofs.WellFormedAlways` | `Spec => []WellFormed` |
| `GCWriter_proofs.PackageTrueAlways` | `Spec => []PackageTrue`, if `PerPackage = 1` and all scenes are `Conventional` |
| `GCWriter_proofs.PredictedAlways` | `Spec => []Predicted` |
| `EncryptedKLV_proofs.WrittenWholeAlways` | `KLVSpec => []WrittenWhole`, if all values are `Writable` |
| `EncryptedKLV_proofs.ReadBackAlways` | `KLVSpec => []ReadBack`, if all values are `Writable` and `Readable` |
| `BodyReader_proofs.Invariant` | `Spec => []IInv`, if all scenes are `Usable` |
| `BodyReader_proofs.DeliveredAlways` | `Spec => []Delivered`, if all scenes are `Usable` |
| `BodyReader_proofs.CompleteAlways` | `Spec => []Complete`, if all scenes are `Usable` |
| `BodyReader_proofs.SeekTrueAlways` | `Spec => []SeekTrue`, if all scenes are `Usable`, and so no guess from an earlier partition misleads (`Estimable`) |

**BodyWriter.** For any set of streams and profiles, any source lengths and any number of partitions.
The proofs rest on `ProfilesAssumption` (profiles have their type), `NoneAssumption` (`None`
is neither a stream nor the state of one) and `WriterAssumption` (types of the constants),
which TLC evaluates in every run. None of the properties is inductive. That a BodyOffset is true
when a pack is *written* says nothing of a pack that was *prepared* and waits; that essence is in its own partition depends
on a pack that another method queued. `IInv` adds what ties the parts together:

* `FileOK(file, w)`: with `w` the number of units written of each stream, the file has exactly
  the units below `w`, each in a partition of its stream, increasing along the file, and the units of a
  stream in partitions before the i-th are those below its offset;
* `Template`: a pack that waits and names a stream has the offset of that stream's next unit,
  so nobody writes essence of the stream in between;
* `Open`: when no pack waits, `PartitionBodySID`, if set, is the SID of the last partition, so
  that `WritePartition` may continue it;
* `Serving`: while `WriteEssence` runs, the waiting pack or the last partition is that of the
  current stream;
* `StreamInv`: at most one unit is read and not written, none of a clip;
* while `WriteHeader` and `WriteFooter` run the template names no essence.

The proof has three layers. `Scheduled` captures what `SetNextStream` and `GetNextState` may
do: change states and the current stream and nothing of the above; so their case analysis never
enters the rest. `EmptyPartition` and `ItemsWritten` say how a good file grows: by a pack with
the right offset, or by more units in its last partition. Then each operator from machine to
machine keeps `Good`, each action keeps `IInv`, and the theorems follow.

`AllWritten` needs a second invariant, `OverInv`: a stream waits for its footer only if its source is at its end and none of its units waits in a
`GCWriter`, the writer is in its footer only if every stream waits for it (`Over`), and what the loops of `WriteHeader` and `WriteFooter` have done so far. `SetNextStream` is what
has to be right for it: it comes to the footer only when a search through all streams finds none with essence (`LookOver`). The hypotheses of the theorem are those of the run `writer_tools`, and are
how the tools use the class: with a limit for `WriteBody`, or streams that come late, the code does not write everything (section 6).

`TakeTurns` compares partitions that may be any distance apart, so its invariant `TurnInv` says what is already on file in favour of whom. Around the list of streams,
from the current one on, *what comes sooner has waited longer*: every partition of a stream that comes sooner is followed by one of each stream that comes later and has essence left
(`InTurn`, and `HasHadTurn` once the current stream has had its turn); and between two partitions of one stream nobody with essence left was passed over (`NobodyPassed`). A turn moves
the stream to the far end (`TurnTaken`), and `SetNextStream` goes to the one that has waited longest (`NextTurn`), since it passes only streams at their end (`LookPassed`). Two
more facts are needed: no stream is in the list twice, and only the current stream may have a post-body table due (`Alone`), as the search does stop at a stream that has one. There may be a limit for `WriteBody`. Both
hypotheses are needed, as TLC shows in `BodyWriter_isolated.cfg` with `MaxPartitions = 6` and `UserEnds = TRUE` or `LateStreams = TRUE`: `EndPartition` goes on to the next stream also when the current one
has not had its turn yet, which is so passed over; and a stream that is added after a turn of another may have to wait for the next one too.

**AudioDemux.** For any readers, channels, sizes, lengths and limits. The invariant `IInv` says that the old buffers and
the current one follow each other without a gap, that no reader is before the first of them, and what a
call in progress has asked for; `SInv` that what a reader has been given is a run of samples of its channels up to its position. The step over
a buffer in bytes is right by a lemma of its own about the stride, which is where the excluded sizes of samples fail.

**The refinement.** `MuxedFile` knows partitions and units only. Two relations between a machine before and after a call carry the proof: `Ahead`, the
writer has begun partitions and written nothing, and `Wrote`, it has begun partitions and put units into the last one. Each operator from machine to machine
is one or the other, they compose, and each is a step of `MuxedFile` or a stutter. Added to `IInv` is `Closing`: a writer that
is not done has no footer, neither on file nor in the template pack, and one that is done leaves the file alone.

**Recovery.** For any number of partitions, any BodySIDs, footers with metadata, with index tables, with both or neither, and any distance that `FindFooter` searches, without hypotheses; but `Found` itself leaves out files that end within the
first values of the footer pack (`LinkThere`), as there the code does not find all (section 6). The properties speak of what readers answer, so `IInv` adds what
the writer leaves behind, wherever the file ends (`FileOK`): the byte counts of a pack are those of the items behind it, `PreviousPartition` is that of the pack before, the footer is the last
pack and has no essence. Each way of finding the partitions relies on another part of it: going back by `PreviousPartition` on the links, walking on by byte counts and from
key to key on the counts, the test for the end of the footer on both. Where a file that is cut ends within a pack, or within what the pack counts, is what the lemmas about reading an item settle.
`ScanBack` (of `ScanRIP`) and `Walk` (of `BuildRIP`) are recursive, as the code loops. That they are defined at all, and what they return, is proved by a least counterexample: one only goes to lower positions, the
other only to higher ones up to the end of the file, also where what it reads is torn (`Recursive`, `ScanBackIs`, `WalkIs`). So these loops of the model end, whatever the file has.
`IsTruncated` remembers an answer, and the invariant says when that may not be "yes": `Finished => known # "yes"`.

**Linking.** For any sets, references and targets that `LinkingAssumption` and `TreeAssumption` allow. `LinksTrue` speaks of a partition at
rest, so the invariant says what holds in the middle of `AddMetadata`: `FramesOK`, the frames are a chain, each entered through a strong link of the one
below, and what is to be done in a frame are the last references of its set; `Known`, what is in the partition or on the stack is what `RefTargets` has;
`Settled`, a reference of a set already entered that is not to be visited any more is linked to its target, if that is known, or waits in `UnmatchedRefs`;
`TopOK`, `Bottom` and `Closed`, a set is at the top level unless something owns it or a frame is about to, only the bottom frame may be, and
strong links lead from known sets to known ones. `OneOwner` carries `WrittenOnce`: no set is the target of two strong references. `Settled` is why
it does not matter in which order sets arrive; `TreeAssumption` is used once, for that no set comes back to the stack it is on.

**IndexManager.** For any streams, any calls and any number of units. A caller asks for a log identifier before it knows the unit, and the number of the unit
is filled in when `OfferOffset` sees it. What makes that right is the order in which identifiers are handed out: one after the other, each only when the one before has got
its unit (`LogInv`), so that all below the next one are in the log. When they run out, none is free, as nothing is ever purged, and none is handed out
again (section 6). `Structure` has the rest: which entries may be waiting for which offsets. `EntriesTrue` compares what an entry says with what was reported while it was there. A reverse offset that comes before its entry is filed under the unit
displayed instead of the one it is about (1888), so an entry may be made with an offset that is another's; what makes that harmless, and is what the invariant says, is that what waited never completes an entry (1771): it counts for nothing until it is reported again.

**GCWriter.** For any scenes of which `GCWriterAssumption` holds: any elements, write orders, items, sizes, KAGs and calls in any order; numbers in keys are
bytes, types have seven bits (as the code shifts them by 25 bits in 32), and there are fewer than 255 streams, so that a count fits its byte. None of the properties is inductive, as they speak of a
package when it is written. `IInv` says of a Flush in progress what is true of the items so far (`KlvsTrue`): the key of an item is that of its stream, and *the count of that stream is fixed*, which is why no later
call changes it; its place is on the KAG, by a lemma that the filler which `FillerSize` chooses ends there for every KAG (`FillerEnds`); for a fast clip the length that is told is what the file has grown by since the provisional one was written, of any other it is what the source said, and both are the size of the value (`Measured`, `WellRead`); that the field has as many bytes as the provisional one is what the code
looks at before it goes on, and reports if not (`Outgrown`). What has been offered is what is due of the items so far
(`OffersUpTo`), where the filler of an item starts at the end of the one before, so `EndOf` is the running `StreamOffset`. The same of a stream: a track number that was told is its own, with its count fixed (`ToldTrue`). `Outside` is the part that
the calls between two flushes keep; those that change streams do it through one lemma about replacing a stream by one with the same key. `IndexTrueAlways` is without
hypotheses; `IndexTrue` asks of offsets that are relative to values that the package starts with its only clip, as the code is wrong otherwise, and counts a unit from its first read, if that gave something (section 6).

`PackageTrue` is about one number, the 32-bit write order, that must sort streams and tell them apart. What is documented is the `Rank`: type, CP before GC, what is set before the type,
low orders, streams without, high orders, what is set behind it. The proof divides the write orders into rows, one for each type, CP or GC, and class, and a row into places of 32
orders, which is what the shift by 5 leaves for orders that are in use; a higher row has higher orders (`RowsApart`), and a higher place of a row (`PlacesApart`). Each of the four ways to get an
order ends in its place: `DefaultPlace`, `ManualPlace`, `BeforePlace`, `BehindPlace`, the latter three also after the search for a free one (`FreeNear`). So orders sort as ranks do (`RanksFollow`).
The invariant `PackageInv` says the rest: every stream has an order that is in `WriteOrderMap` and stands for its rank, and no other stream has it (`StreamsApart`); a default order in the map belongs to
a type and a count that are taken (`DefaultsTrue`), so the next default order is free although `AddEssenceElement` does not look; an item in the queue keeps the order its stream had, which
nobody else gets, as the map never forgets one (`ItemsApart`); so no insertion finds its order taken, and what was handed over is in the queue or written, once (`OnceIn`). The hypotheses:
`PerPackage = 1`, as a second item of a stream is dropped; `Conventional`, orders and positions fit 16 bits, counts, schemes and sub IDs 7, no more than 32 orders are in use, elements have types of system items and essence,
and relative orders are for types where they are honoured: before a CP type and behind a GC one, and not both before a type and behind the one that precedes it, which are the same orders. TLC evaluates that of the
scenes of the run (`ConventionalScenes`). Outside of it the code does something else (section 6).

`Predicted` relates two walks over the queue, that of `CalcWriteSize`, made at once when the flush begins, and that of `Flush`, which takes a turn for each item while the file grows. `SizeInv` says of every turn that what was
written and what is counted for the rest of the queue (`ToDo`) is what was predicted, but for `Margin`: one filler (`MostNow`) for each item written, and 5 bytes for each of a stream that asks for lengths of a certain size, as sizes
are 1 to 9 and the best one 4 or 8 (`LengthNear`). What is counted is a sum over a set and the number of items before which the type changes; both lose just the first item's share when it is written (`OneSize`, `OneAligned`). The
former is shown for `SumFunction` from a function that has the sum over every subset (`SumsTo`), the latter from the maximum of a set. An item's length is that of its stream, which nothing changes (`LensTrue`). So without a KAG, or on a
block aligned file, and without such streams the prediction is exact. No hypotheses are needed. The lengths
have a bound of their own, as a field of 9 bytes may come on top of the most that a filler can be.

**EncryptedKLV.** For blocks, lengths, chunks and requests of any size. All that the writer is follows from one number, the byte that `WriteRaw` has come to:
`EncryptorAt` gives the offset, the bytes that wait, the next block and the hash, `Cells` the file. The proof of `WriteDataTo` shows that one more chunk leads from the state of one number
to that of the next, in the plaintext, across its end, behind it and at the end of the value. A reader is told by the byte it has come to and the number of blocks that it has decrypted:
`InPlain`, `Behind`, `AtEnd`. What is between the two is in its buffer. The hypotheses are what the code needs and no more than that: `Writable`, the chunk that reaches
the end of the plaintext has a block or more behind it, or the rest of the value, and with a hasher none; `Readable`, no request is less than a block, and with a hasher no request
ends where only padding is left. The run `gc_writer` has the values of its lists for which both hold. Outside of them the code is wrong (section 6).

**BodyReader.** For any files with any number of partitions, streams, readers, handlers and callers of scenes that are `Usable` (section 5; TLC evaluates that
of the scenes of the run, `UsableScenes`). The properties speak of what handlers got, and nothing in the members of a reader says what that was. `IInv` ties the two together:

* `ReadingTrue`: a reader in use is at essence of its stream and knows its offset, at a pack or at the end (`ReaderAt`), and when no call is in progress the `BodyReader` is where it is.
* `LogTrue`: what handlers got is essence of its stream, rises, and is before `Where`, the place reading has come to. If nothing is refused, no KLV before
  that place is left out from the first partition behind the seek on (`Covered`), and where reading begins anew no such partition has anything left (`ResumeAt`). That is what
  makes it right that `ReSync` skips the rest of a partition.
* `RipTrue`, `FindingTrue`: an estimate is never below the true offset, as a partition is taken to have no more head than it has; so the
  partition that `FindPartition` comes to is not behind what is sought. It may be any number of partitions too early.
* `SeekingTrue`: nor is any partition that `Seek` tries, and its predictions rise (`PlaceLater`), so that it does not give up on "always going round the same point". When the
  prediction is inside the partition, the offset is there (`PlaceTrue`), and for an offset that the stream has there is always a partition to go on with (`PlaceFound`).

The lemmas about files come first: where items are, how the offset of a stream grows from item to item and from partition to partition (`PacksApart`, `NextOffset`), and that essence in a partition lies
as far from its beginning in the file as in the stream (`Run`, `Home`); then there is a lemma for each action. The search for a partition in `FindPartition` takes steps of its own in the model,
since its loop as a fold could not be reasoned about.

*Only model-checked*: everything else. `Finishes`, `LoopEnds` and `CallsReturn` are out of reach of the prover (liveness
under fairness and `ENABLED`). `ContentsTrue` and `IndexComplete` hold only for the profiles of their runs (see the
findings), so theorems about them would need assumptions on `Profiles`. `Primer` and the tables that `IndexTable` looks up fold, sort or
select from sequences, about which only induction over data could say something in general; `Dictionary`, `Values` and `Identifiers` are recursive as
the code is (over texts and trees, where `Recovery` has only positions that rise or fall). `PartitionLayout` multiplies and divides by variables.

## 5. Domains of the models

Some parts of the code are right only on part of what one may ask of them. The instances keep within that part, and
section 6 says what happens outside.

* `EncryptedKLV`: values are not empty; chunks are whole blocks; behind the plaintext a chunk has at least a block or is the last one;
  requests are for at least a block or for everything; with a hasher, chunks end where the plaintext ends and no request ends with a last
  byte that fills its block; a reader goes back only without a hasher and before anything was decrypted.
* `SourceFiles`: a range starts within each file, with more than one unit behind its start, and has an end or a duration; with a parser that counts early the last
  unit asked for is no edit point; a list without an end comes last and has an origin that lets it read on.
* `AudioDemux`: not 32 bit, resized only from 8 bits.
* `Linking`: strong references make trees, and a set has one owner.
* `Values`: that an object is modified is not asked of a GenerationUID that is set by hand; a copy only of arrays that are not empty and have no fixed size, and of one-byte numbers below 10; packs without lengths only with arrays that are not
  empty, and not cut; integers are given 1, 2 or all their bytes; packs keep their properties; values fit their length fields.
* `Identifiers`: hexadecimal and dotted texts are read by the class that wrote them; the string of a class is in brackets, hexadecimal or dotted; the constructor of UL from a
  string gets tail bytes below 0x80 and layouts that it knows; a UUID object that keeps a label unswapped is written in brackets or as hexadecimal, without
  name; names of labels are unique and no hexadecimal numbers; components of an OID are below 100.
* `PartitionLayout`: block alignment only without KAG and padding; a partition with an index table is not written again without one.
* `Primer`: a metadictionary brings tags that are not dynamic ones in use; a primer is read into a new object.
* `Dictionary`: everything has a UL; an extension adds one child where a derived class has children of its own; late nested children only under
  classes that nobody derives from; `extendSubs = FALSE` only from a later list, and not extended again.
* `GCWriter`: sources give as many bytes as they said and begin their units in order, with a read each (`WellRead`); offsets relative to values are asked to be right only in a package that starts with its only clip, and those of a unit only if its first read gives something;
  values are shorter than 2^32 bytes; one item of a stream in a package; scenes are `Conventional` (section 4), so that orders that are set are never default ones;
  plain keys are not mixed with numbers that were given out.
* `BodyReader`: `Usable`. Files are `WellWritten`: essence is in partitions of its stream, behind what their packs count, each of which has some with the right BodyOffset, and
  another partition (if only the footer) follows; no pack follows a pack. They are `Estimable`: of the partitions of a stream no later one has less metadata and index. What is
  sought is where a KLV may begin. Handlers do not push back when reading goes KLV by KLV. There is no KAG to round the estimates to.
* `IndexManager`: what is said of a unit before it has an entry counts as not said (section 6), so temporal offsets come after their unit if they are to be found; one element that is reordered.
* `ReorderIndex`: a commit that leaves entries behind is the last one, as these are at wrong units (section 6).
* `Recovery`: that all partitions are found is not asked of a file that ends within the first values of the footer pack. The filler that a KAG may need between footer and RIP is not there.

## 6. Where the code differs from what it says

Three have a run that checks one property, which TLC finds violated; "findings" in `PROJECT.json` quotes the lines.

1. `writer_stop_after`: a stream added with `StopAfter` goes on to its end.
2. `audio_wide`: a reader of one channel of 32-bit audio runs three bytes ahead with each sample.
3. `partition_drops`: a partition written again without its index table keeps counts that are too high, and the
   next rewriting with one runs into the essence.

Others were met while modelling. The models have them as the code does, or exclude them (section 5).

*BodyWriter* (essence.cpp). `WriteBody(Duration)` stops when the streams together, not each, had it (3360). With
`CBRPreIsolated` and a post-body table a stream never notices its end (3091). Streams added after `ClearStreams` are never
served (3385). The index table of a stream without essence goes out behind the next stream's pack, whose IndexSID
is 0 (3589). For sources that leave indexing to the write the sparse entry is the unit before the partition (2908). A generic
stream turns the pending header pack into a generic-stream pack; a `CBRHeaderIsolated` table that is the first
goes into the header partition; the metadata that a partition handler asks for is not split from
the essence (a FIXME in the code); a CBR stream with a `FullFooter` request ends in the assertion of `WriteFooter`.

*GCWriter* (essence.cpp). A second item of a stream in a package is dropped without an error (470). The order of plain keys is made from
uninitialised members (384). Default write orders are not checked against given ones (283). A relative order for a type of the other of CP and GC
places the stream before all of it (1281). Numbers of elements become the count when several are added before the first is written (517).
`CalcWriteSize` computes each filler for the present position (792), and the best size of a length that is written with a fixed one (819). Offsets relative to the value
are short by what precedes the clip in the flush, be it filler, another item or another clip (870). A source that answers the first read of a unit with zero bytes, to be asked again later, loses the index entry of the unit, as it has been noted as seen
(1007). A source that gives more or fewer bytes than it said gets the length that it said, without an error; only fast clips are measured (957). `AddSoundElement` calls `AddPictureElement` (essence.h 861).

*Index* (index.cpp). A temporal offset that waited for its entry does not complete it (1771). The reverse offset is looked for at the unit it is about, but waits under the unit displayed (1888), from where it gets into the wrong entry (which
does no harm only because of 1771). `SetPosTableIndex` does not set
`UsesReordering` (index.h 508). One status bit stands for the offsets of all streams (1792). An entry for a position that exists is appended (113).
Temporal offsets are cut to a byte (920). `CommitEntries` moves the entries that are left to the start, but reduces counts and first position by how many are left instead of how many were committed (1499-1503), so that what follows goes to wrong units; and it never clears
a temporal offset that was not set (1358). `LogNext` looks for a free identifier when it runs out (2150), but finds none, since nothing purges the log; and the last
identifier is never handed out, as it answers -1 after it has taken it (2128).

*Reading* (essence.cpp). The push-back flag is never cleared, so KLV by KLV reading stops advancing (1458); a KLV pushed back while reading as a
whole is skipped by the resynchronisation of the next call (1874). `Eof` stays after a seek (1703); `Seek` answers 0 when no partition follows (1672). `ReSync` ends
16 bytes before the pack (1963). A condition on the header byte count is never true (rip.cpp 272).
`FindPartition` takes the header and index bytes of the last known pack for those of every unknown one (rip.cpp 237), so that it can come to a partition behind the offset; `Seek` then predicts a position
before that partition's essence, within its head, and accepts it, although "this will be correct as long as it is not beyond the end of this partition" (1657). A pack followed by a pack is mistaken for essence
(partition.cpp 723).

*Recovery* (mxffile.cpp). `GetRIP` takes a footer pack that is torn within its first values for one without previous partition (488), and misses the body partitions. `ReadFooterPartition` takes the
last RIP entry for the footer (1775). `IsTruncated` finds some truncations only with a `Details` string (2054), and takes the header for the
footer if there is none (2137).

*Partition.* With a KAG the block alignment is off by the filler behind the pack (mxffile.cpp 1406), with padding by the padding (1543).
`AddMetadata` reports an internal error for a state that legal calls reach (partition.cpp 226). A metadictionary may bring a tag that the primer has given out
(primer.cpp 152); `ReadValue` keeps the reverse map (primer.cpp 45).

*Dictionary.* `LoadTypes` and `LoadClasses` return -1 only when the first pass is stuck, and later passes of `LoadTypes` lose the default symbol space.
A compound cannot be extended. Nested children that are resolved in a later pass do not reach classes derived meanwhile; a nested container with an unresolved
grandchild is never registered. `ReDerive` interleaves when an extension adds two or more children before those of a derived class, inserts them again with the next
extension, and dereferences `end()` for a derived class without children. `MDType::Child(int)` is off by one.

*Values* (mdobject.cpp, mdtraits.cpp). `SetGenerationUID` writes the GenerationUID by `ReadValue`, which clears its mark (mdobject.cpp 1991, 1329): if the only change was that somebody had set the GenerationUID, the object is unmodified
afterwards. Changing an item or a part, or resizing, does not set `Modified`, and `IsModified` does not ask the parts, although its comment says
"including any child objects". An open array that reads no bytes gets one item of zero; the copy of an empty array has one item, of a fixed one twice as many. `UInt8` prints
hexadecimal and reads decimal. A shorter list set from a string keeps the rest, a longer one overwrites the last item of a fixed array. Three bytes read into an
`Int32` are taken for two. `EffectiveSize` of arrays counts items. `WriteObject` and `PutData` disagree on the header of a batch. A value that is too long is
written whole with a clamped length; of such a value a variable pack reads the rest as the next one. `WriteObject` counts the bytes of packs twice. A compound that is read short keeps old parts.

*Identifiers* (helper.cpp, types.h). `UL::Matches` compares byte 8 again where it means byte 7 in identifiers that are not labels. A UUID that keeps a label unswapped is read back
swapped from its URN. Components of an OID from 100 on are misread. UL from "urn:uuid:" is not swapped, knows no x-ul layout of 8.8.8.8, and folds tail bytes from 0x80 on; OIDs
assert. The string of a class is read with the letters of a URN as digits. `ReadHexString` allows one value more than asked and any separator. A mask shorter than 16
bytes leaves the rest of the mask unset; the text of a label with mask loses the bytes under it; `strncpy` leaves no terminator. The URN of a UL asks byte 8 and its brackets byte 0.

*Encryption* (crypto.cpp). A fragment smaller than a block is lost by `WriteCryptoDataTo`; small reads do not count what was decrypted ahead; the hash
is wrong when the plaintext ends within a chunk, and is not checked right when a request ends with the value and the value with a block; an empty value promises IV, check value and
padding and writes none.

*Files* (essence.cpp, essence.h). An open list from 0 reads no file, others with increment 1 or an origin do; names behind an open list are never reached; a range
with a start only gives one unit; DV and MPEG-2 ranges lose their last unit if it is an edit point; `LocateStart` never returns if the file is shorter than the start;
index units start at 0 again for each file.

*Audio* (audiomux.cpp). Resizing from more than 8 bits takes the count of channels for the step; the limit by `LenToSend` ignores the position; padding at the end counts
bytes as samples; an old buffer is kept one buffer longer than needed.

## 7. Not modelled

* Metadata helpers (metadata.cpp), VBI and system items, XML and RXI readers, `mxfdump`, `mxf2dot`, `dictconvert` and
  the other tools: they convert or print in straight lines; a model would be a transliteration.
* Smart and parent pointers, `DataChunk`: reference counts and buffers. What they make possible to go wrong (use after
  the last release) has no state in the models, whose objects are values.
* Ciphers and hashes are external: a block that is encrypted is a block with its number.
* What is inside an edit unit: parsers of essence formats; the values of resized samples.
* In `BodyWriter`: sizes in bytes (a limit on the size is a choice at each turn), pre-charge and sub-streams, system items, free-space index
  entries, the filler that replaces a sprinkled table that came out short; `Feature` flags have their default values.
* In `Recovery`: damage other than a lost end; run-in. In `MXFFile`: run-in, KXS metadictionaries, memory files.

## 8. Plan

1. Theorems: `HeaderAndFooter` and `TableLabelled` of `BodyWriter` under assumptions on the profiles; what `ReorderIndex` commits.
2. The parsers of essence as far as they keep state between calls (MPEG-2 edit points and temporal references, DV sequences), below `SourceFiles` and above `IndexManager`.
3. Smart pointers with their weak pointers, as a heap of counted objects.
