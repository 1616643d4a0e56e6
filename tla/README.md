# A verification of `pluginstall`

`pluginstall` downloads Minecraft server plugins: a manifest maps plugin names
to resources of an online repository (Spiget), and the program finds a version,
downloads its file and keeps a copy in a cache directory. This directory holds
TLA+ models of the program, the TLC runs that check them and theorems proved
about them with TLAPS. The repository also holds its own clone of the HTTP header
library `hyperx`, which is modelled too. Source paths below are relative to their
crate (`session.rs` is `src/src/session.rs` in `PROJECT.json`, `link.rs` is
`src/hyperx/src/header/common/link.rs`).

## 1. The system

| component | source | state | operations |
|---|---|---|---|
| manifest | `manifest.rs` | none | read and parse the file, look up a plugin |
| start of a command | `cli/mod.rs` | the chosen cache path | read manifest, choose cache directory |
| cache start-up | `caching.rs:78-104` | directories on disk | test for and create cache and data directory |
| cache index | `caching.rs:293-374` | `index.json`, and its copy in memory | `new`, `sync_to_disk`, `is_outdated` |
| download cache | `caching.rs:106-263` | data directory, index in memory | `get_cached_file`, `delete_cached_file`, `cache_file`, `copy_to_directory` |
| download session | `session.rs:97-176` | the response | `download_plugin`, `make_download_request` |
| response time to live | `session.rs:240-276`, `hyperx` | none | `response_downloaded_file_ttl` |
| Spiget adapter | `adapter/spiget.rs` | list of versions of a resource | details, version list, search by name, identifier, latest |
| HTTP cache in front of the API | `session.rs:57-71` (a library) | kept API responses | answers a request from an earlier response |
| file names from headers | `util.rs`, `session.rs:209-237` | none | `content_disposition_file_name`, `validate_file_name` |
| tables | `util.rs`, `cli/versions.rs` | column names, rows | layout of listings |
| HTTP headers | `hyperx`: `header/common`, `header/shared`, `header/parsing.rs` | none | `parse_header` and `fmt_header` of each header; lists, weights, entity tags, ranges, links |
| header map | `hyperx`: `header/mod.rs`, `internals`, `raw.rs`, `compat.rs` | lines and typed values of each entry | typed and raw get, set, change, append, remove; extend; compare; conversion to `http::HeaderMap` |
| output | `output.rs` | none | JSON or text, newline |
| Hangar adapter | `adapter/hangar.rs` | none | types only, commands stop with `todo!()` |

**How they interact.** A command is one process with one async task. It reads
the manifest, chooses and if need be makes the cache directory, reads the index
(all before any request), asks the API twice, and then calls `download_plugin`.
That looks into the index in memory, deletes an outdated data file or opens a
live one, checks the destination, and either copies the open file or downloads
the body, stores it (data file, entry in memory, index file) and at last writes
it to the destination. The `RwLock`s inside a process never contend. What is
shared between processes is files only, and there is no lock on them.

Of `hyperx` (features `compat` and `headers`, `Cargo.toml:15`) the program itself uses
two headers of the download response: Content-Disposition, whose file name
decides where the download is saved, and Cache-Control, which decides how long
it is kept. Both are read by `parse_header` from the response's lines.

**What is hard.** Everything that is on disk is changed in several steps: a
process may die between any two, the step after may fail, and another process
may take a step in between. Time passes between a check of an entry and its
use. Data files and the index are truncated and rewritten in place. The answers
of the API are pieced together from two requests made at different times.
Header lines come from anywhere, are combined and passed on by programs in
between, and a header map reads and prints them late and keeps both forms.

**What makes each part correct.**

* Download cache: what the index offers exists, is complete, and is the file
  the key stands for, after any crash; nothing is lost before its time; a cached
  file is served exactly when it should be; nothing it holds makes a download
  fail.
* Download session: a success means the whole file of the right plugin.
* Cache start-up: a process that goes on has both directories; each user gets
  there in the end.
* Response time to live: only what may be stored is stored.
* HTTP headers: a reader gets what the sender meant, however often the header
  was passed on; an answer fits the question; an accepted file name is safe.
* Header map: one entry for a name, no stale copy, no panic without a cause.
* Spiget: the version found is the newest that fits, as of a moment the command
  saw; if nothing changes, none is missed; a listing is laid out without a panic.

`PROJECT.json` lists the hazards at their lines, with the properties that
would catch each, or why none does.

## 2. Modules

```
CacheControl <- CacheIndex <- PluginDownload <- PluginDownloadProps <- MCPluginDownload
                                                   |        ^--- PluginDownloadProofs <- DownloadCacheProofs
                                    AbstractDownload (INSTANCE)
CacheStartup <- MCCacheStartup, CacheStartupProofs
CliTable <- SpigetVersions <- MCSpigetVersions
        ^--- CliTableProofs <- SpigetVersionsProofs ---^ (extends both)
HeaderText <- HeaderItems <- HeaderLists, HeaderFields, HeaderRanges, HeaderLinks <- HeaderTypes
HeaderTypes, FileNames <- HeaderExchange <- HeaderExchangeProps <- MCHeaderExchange
                                HeaderVectors <---'     ^--- HeaderExchangeProofs
HeaderStore <- HeaderStoreProps <- MCHeaderStore (INSTANCE HeaderTypes), HeaderStoreProofs
                    AbstractHeaders (INSTANCE)
NumberSets <- CliTableProofs, HeaderExchangeProofs
```

* **CacheControl**: `ResponseTtl`, a translation of
  `response_downloaded_file_ttl` over Cache-Control lines as `hyperx` parses
  them. Items that do not parse are dropped; only the first line counts; a line
  without any directive is an error; `no-store`, `no-cache`, and `max-age=0` give
  no time to live. A line is a sequence of (name, argument) items; the text of
  an argument is abstracted to no argument, an empty one, junk or a number.
* **CacheIndex**: the index as one function from (plugin, version) to an
  entry; `IsOutdated` with the overflow of the expiry instant; the index file,
  which can be missing, empty, garbage or an index, and what a write at
  offset 0 leaves in it. Time has instants `0..MaxInstant`.
* **PluginDownload**: the download path. One action per call that reads or
  writes a file:

  | `pc` | action | code |
  |---|---|---|
  | `load` | `LoadIndex` | `CacheIndex::new` |
  | `lookup` | `Lookup`, `ResolveFails` | `get_cached_file` up to its first file access; the API requests before it may fail |
  | `unlink` | `Unlink` | `delete_cached_file` |
  | `open` | `OpenCached` | `File::open` of `get_cached_file` |
  | `checkDir` | `Choose`, `InvalidDirectory` | `download_plugin` up to the choice, with its second `is_outdated` |
  | `fetch` | `Fetch`, `FetchFails` | `make_download_request` up to the body |
  | `create`, `write` | `CreateData`, `WriteData`, `Record` | `cache_file` |
  | `truncate`, `writeIndex` | `TruncateIndex`, `WriteIndex` | `sync_to_disk` |
  | `save` | `Save` | the write to the destination |
  | `copy` | `CopyBlock` | `copy_to_directory` |

  The data directory is modelled as Unix does it: a name is a link to a file
  (`link`, `content`), a file that is unlinked lives on while some process has
  it open, and a file that is truncated is truncated for everybody. A file is
  `NBlocks` blocks, written and copied one at a time; a block records which
  response it came from, so that mixtures can be told apart. `Tick`,
  `SetClockBack` and `Abort` (a process is killed, or a file operation fails) are
  the environment; the constant `Faults` says which of them happen.
* **AbstractDownload**: what the command promises, without files: a set of
  cached versions; a download is a hit exactly when its version is in it;
  otherwise it is fetched, offered to later downloads, then delivered;
  versions leave only when time passes or a download fails.
* **PluginDownloadProps**: the properties, the refinement mapping and the
  inductive invariants.
* **CacheStartup**: every test for a directory and every `create_dir` an
  action (`create_dir` makes no parents, and fails when the directory exists).
  The manifest's name is joined to a path as it is, so it is a path itself, of
  any length; a name that is an absolute path, which would replace the default
  directory, is left out.
  A process that is `ready` here is one at `load` in PluginDownload.
* **SpigetVersions**: the two requests of `SpigetPlugin::new` and
  `version_from_spec`, and the listing of `versions`, with versions published and withdrawn and kept responses
  served at any point. An HTTP cache may return any response it once kept;
  freshness is not modelled, which allows more than the library does.
* **CliTable**: the layout of a table, and the table `versions` prints. A cell is
  the number of bytes of its text, a line its number of bytes.

* **HeaderText, HeaderItems, HeaderLists, HeaderFields, HeaderRanges,
  HeaderLinks**: a reader and a printer for every header of `header/common`. A
  text is a sequence of tokens: a separator the parsers look for (`;`, `=`, `,`,
  a blank, a quotation mark) is a token of its own, what stands between two is
  one token, and tokens of their own stand for bytes that are not ASCII, not
  UTF-8, or a line break. A reader takes lines and gives `Ok(value)` or `Err`.
  Headers declared with the macros of `header/common/mod.rs` are a table,
  `MacroHeaders`: grammar (one value, a list, a list or `*`), kind of item,
  whether it is weighted. A weight is an integer of thousandths, and `FromF32`
  says which of them lose one when read as `f32`.
* **HeaderTypes**: `ParseHeader` and `PrintHeader` by the header's name, and
  the Rust type where it has several (`Authorization<Basic>`).
* **FileNames**: `ContentDispositionFileName`, `ValidateFileName` with what the
  standard library makes of a path (its parent, its components), and
  `ResponseFileName`, which composes them as the session does.
* **HeaderExchange**: a header between two programs. `Init` sends a value or
  takes lines other software may send; `Relay` reads and prints again,
  `MergeLines` combines two lines with a comma, `EncodeAppend` adds a value on a
  line, `AddCookie` adds a pair; `ServeRange` and `Revalidate` answer, with a
  Content-Range or an If-Match / If-None-Match.
* **HeaderVectors**: the headers the repository's tests read, and what they
  expect of them.
* **HeaderStore**: `Headers`, a list of entries, each with lines, values of
  some types, or both. An action is one call. The parsers and printers are
  parameters; `MCHeaderStore` gives them as tables of a few lines and values, and
  its assumption `TablesAreReal` compares these with HeaderTypes.
  The field `used` is not in the code: it records the types an entry was used
  as, which is what decides whether the code's assertions hold.
* **AbstractHeaders**: what the map promises: for each name lines or none,
  and readings of those lines.
* **NumberSets**: lemmas on the least, the greatest and the k-th member of a set
  of numbers, on which the proofs about text and tables rest.
* The modules named `...Proofs` hold the theorems of section 4, each about the
  module it is named after.

Names with a suffix after an underscore (`Record_Early`) are faulty variants of
the definition that follows them. No specification uses them; each is there so
that a property can be seen to fail when the code has that bug. They are listed
under `mutants` in `PROJECT.json`.

## 3. Runs

Runs that pass:

| run | instance | shows |
|---|---|---|
| `serial_faults` | 1 user, 2 plugins with one version identifier, 2 blocks, 3 inodes, clock to 3; API and download failures, bad directory, crash at every step; headers absent, `max-age=1`, malformed | `TypeOK`; `SerialInv`, the inductive invariant; `LiveEntriesComplete`: what the next run would serve is complete and is the right file, whatever failed before; `SuccessIsComplete`; `IndexIsOnDisk`: what was stored is in the index on disk; `ImplementsAbstract`: the refinement of AbstractDownload |
| `serial_clean` | the same without failures | `IndexMatchesData`: between runs, exactly the recorded versions have data files; `TidyInv`, the invariant that shows it; `CacheNeverBlocks`: no error of the cache; `KeptUntilOutdated`: no version is lost but to time; `DownloadsSucceed`: each download ends in a success |
| `shared` | 2 processes, 2 plugins, 4 inodes, the clock may be set back | `NoForeignBytes`: no block of another plugin's file is delivered; `MissingBlocksAreComing`: a block missing from a data file is still to be written by a process that has this very file open, however files are emptied, unlinked and made again meanwhile |
| `startup` | 2 processes, 3 manifests, two of them with overlapping directories, one `--cache` path and the default ones, 2 kills or missing manifests | `ReadyHasData`; `EventuallyReady` |
| `spiget` | 3 versions, two of which share a name; find by name, by identifier, latest, list; texts shorter and longer than the column names | `FoundIsNewest`; `QuietIsExact`; `ListingIsAligned`: no row panics the padding, all lines are as long as the rule |
| `exchange` | every header, with well-formed, extended and nonsense pieces, alone, two on a line, on two lines, with an empty piece between; values programs build, with every weight from 0 to 1; the tests' lines; 2 readers, lists of 2, representations of 0, 1, 4 and 10 bytes | `MeaningKept`; `NoDrift`: what one reader passes on the next reads alike; `ReadAsTested`; `ServedIsAskedFor`: the bytes served are those asked for; `RevalidationMatches`; `SavedInDirectory`: an accepted file name leads to a file directly in the destination; `TypeOK`, with no line break in a line |
| `store` | two headers, each spelled in two ways, one of them read as two types; a spelling that is no HTTP name; a value that cannot be printed, values with a control character, a line that is no text; 2 entries, 2 lines to an entry | `TypeOK`; `NamesUnique`; `CopiesAgree`; `PanicNeedsCause`: the entry a call panics over deserves that call's panic; `StepsAreMapSteps`: the refinement of AbstractHeaders |

Runs in which TLC finds a violation, each of something the repository says
(quoted in `findings`):

| run | property | what happens |
|---|---|---|
| `outage` | `CacheNeverBlocks` | an outdated entry's data file is deleted, the download fails, the entry is still in the index on disk: every later run fails to delete the file |
| `lost_update` | `IndexIsOnDisk` | two processes store two plugins; the second read the index before the first wrote it, and writes back what it read: the first returned from `cache_file`, and its entry is gone from a well-formed index that nobody is writing |
| `no_store` | `OnlyStorableServed` | `no-store` yields "no time to live", which means kept for ever |
| `two_manifests` | `NoForeignBytes` | two manifests with one plugin name and one `--cache` directory share entries |
| `first_run` | `DefaultCacheCreated` | the parent of the default cache directory is never created |

**Why the bounds are enough.** Two plugins with one version identifier are the
smallest case in which keys can be confused or an entry of another key lost.
Two blocks give a file a beginning that is written and an end that is not. With
`max-age=1` and a clock to 3, an entry can be stored, live, expire, be
replaced, and have its expiry pass the last instant. A serial user needs one
inode per name and one for a file that is deleted but open; two processes need
one more. In `shared` the clock reaches 1 and can go back to 0: an entry
expires under one process and is live for the other. Three versions make the
list longer than what one earlier response counted, with a name that is neither
unique nor newest. `MaxAborts` = 2 lets a process die between the two
directories and another die after it. Each property has a faulty variant of the
code that the same instance catches. A header is read twice in `exchange`, as a
first reading may normalise what a second must leave alone; no reader looks at
more than two neighbouring pieces. In `store` a line that is kept, one that is
appended, and a second type are enough to make any pair of copies disagree.
`MaxHops` bounds the readers, `MaxCookies` and `MaxItems` the lists programs build,
`MaxLines` the lines of an entry and `MaxEntries` those of the map: two entries are as many
as there are headers, and enough for one to be disturbed by a call on another. Inodes are a symmetry set; in `shared`
users are too, as no liveness is checked there.

**What the runs do not reach.** The runs of one user say nothing of a second process
that empties the file being copied, or writes back an old index: of two processes
`shared` and `lost_update` speak, and neither promises that a copy is whole. The
abstract cache uses the same `IsOutdated` and `ResponseTtl` as the program, so that
`ImplementsAbstract` does not compare the instant of expiry, or `max-age=0`, with
anything. `FoundIsNewest` is about versions that are found: that the oldest one may be
reported as not found is what the code does. `MeaningKept` and
`RevalidationMatches` leave out values with commas in their items, and `MeaningKept`
names that would have to be escaped (section 5). `hazards` notes each at its line.

**Fairness.** `DownloadsSucceed` assumes that a process that was started takes
its next step, and that the server answers: the code sets no timeout and
retries nothing, so without the second a command may hang. It does not assume
that users start another command. `EventuallyReady` assumes besides that a user
runs the program again after it ended, as nothing in the program retries; the
kills and the missing manifests are bounded. Only the program's own steps are fair: never the clock, a
fault or a change at the API. Deadlock is checked in every run but two: a user
can always start the program again. In `exchange` a header's journey ends, in
`store` a panic ends the program.

## 4. Theorems

All constants are arbitrary: any number of users, plugins, blocks, instants and
inodes, any versions, any header values and tables of readings, texts of any
length. What a theorem assumes besides the named assumptions of the modules is
a hypothesis of its statement, and said here.

### The download path

`PluginDownloadProofs`:

* `TypeCorrect`: `Spec => []TypeOK`. Inductive invariant `TypeInv`: `TypeOK` does
  not by itself say that there is a response to write and a file to write to;
  `Shape` adds it.
* `SharedCacheIsClean`: `Spec => []NoForeignBytes`, under `OneManifest` (requests
  with the same key ask for the same file). The argument is ownership: two
  names never link to one file, and a file that is open is linked under the
  opener's key or no key (`OwnershipInv`); hence all that is ever written to a
  file is right for its key (`CleanInv`). `SharedInv` is their conjunction.
  `two_manifests` shows that the assumption is needed.
* `FilesAreCompleted`: `[]MissingBlocksAreComing`, if no process is killed and no file
  operation fails. A process fills its file in order, and the file it has open can
  be emptied, unlinked or replaced by others at any of its steps; what the lemma
  `MissingStep` shows is that whoever empties a file then has it open and begins at
  its first block, and that a name is never linked to a file its maker has left.
  It says nothing of the reader, whose copy may end early.
* `SerialInvariant`, and from it `CrashConsistency`
  (`[]LiveEntriesComplete`) and `SuccessDelivers` (`[]SuccessIsComplete`), under
  `Serial` (at most one user), `OneManifest` and a clock that is not set back.
  `LiveEntriesComplete` is not inductive: a data file is replaced in place while
  the old index is still on disk. It is safe because a file is only replaced
  when its entry is not on offer. `IndexInv` says so, step by step, and that the
  index in memory agrees with the one on disk on every other key; `DataInv` says
  how much of the file has been written or copied. The clock matters because an
  entry that is outdated must stay so. `Serial` matters because a second
  process may truncate a data file that is being copied: the copy then ends
  early and is still a success.

`DownloadCacheProofs`, about one user:

* `OfferIsKept` (`KeptUntilOutdated`): only time takes a version off the offer. It
  assumes besides that commands are not interrupted, as one that dies between
  the truncation of the index and its writing loses all of it; failing requests
  are allowed. The one step at which the offer passes from
  the index on disk to the one in memory is `TruncateIndex`, and there both agree
  on every key but the command's own.
* `DownloadImplementsCache` (`ImplementsAbstract`): each step is one of
  AbstractDownload's or invisible in it, for any crashes and failures.
  The lemma `ProcessStep` shows it action by action, from `SerialInv`.
* `TidyInvariant`, and from it `IndexIsTidy` (`IndexMatchesData`) and
  `TidyCacheNeverBlocks` (`CacheNeverBlocks`), under `NothingFails` (no faults, and
  no Cache-Control header that is malformed). Between runs index and data
  directory agree. While a command replaces its file they differ in its key
  alone, and the index about to be written agrees again: that is `TidyInv`.
* `SyncReachesDisk` (`IndexIsOnDisk`) under `Serial` alone, whatever fails and
  whatever the clock does. With one user the exceptions for a process that is
  rewriting the index, and for a mixture, do not apply, so that the entry is there.

The last two are what the runs `outage` and `lost_update` violate: the theorems
say that the first takes a failure and the second another user. The property
is the same definition, so that the runs show the hypotheses are needed.

### Start-up and versions

* `CacheStartupProofs`: `StartupCompletes`, `Spec => []ReadyHasData`, for any
  number of processes, manifests and paths.
* `SpigetVersionsProofs`: `NewestIsFound` (`FoundIsNewest`), `QuietMissesNothing`
  (`QuietIsExact`) and `ListingsAreAligned` (`ListingIsAligned`), from
  `SpigetInvariant`. Listings are descending, so that the n newest are the first n
  and the first that fits is the newest that fits. The number that was counted
  and the list that was fetched may be of two moments: the invariant says that
  each is of some moment the command has seen, and when only one was seen they
  are of the same. `SpecsAssumption`: a limit is a `u64`, and so a number.
* `CliTableProofs`: what a fold over the columns answers, that the width of a
  column is that of its widest cell, hence that no padding underflows and that
  every line is as long as the rule.

### Headers

`HeaderStoreProofs`, for any names, types, values and tables (that `HeaderAssumption`
admits) of what lines are
read as and values printed as:

* `StoreInvariant`, and from it `HeadersTypeCorrect` (`TypeOK`), `OneEntryPerName`
  (`NamesUnique`), `CacheIsCoherent` (`CopiesAgree`) and `PanicsAreDeserved`
  (`PanicNeedsCause`). The code's assertions fail on an entry whose lines are
  wanted when it has none and not exactly one value, or on a type whose value is
  wanted when there are neither lines nor that value. `Sound` says why that has a
  cause: an entry without lines has a value, and each value is of a type the
  entry was used as, so that a missing value or a second one means two types.
  `panic` records the call and the entry, and `Deserved` asks for a cause in that
  very entry: another one that was used as two types excuses nothing. A call that
  converts may also meet a name that is no HTTP name (`compat.rs:140`) and a line
  that cannot be sent, which a printed line may well be: `fmt_line` replaces line
  breaks and leaves other control characters (`compat.rs:144`).
* `MapImplementsPromise` (`StepsAreMapSteps`): caching, late printing and late
  reading are invisible in AbstractHeaders.

`HeaderExchangeProofs`:

* `ExchangeTypeCorrect` (`TypeOK`): no line break on the wire, for values whose
  printed form is text and any lines, after any number of hops.
* `FilesStayInDirectory` (`SavedInDirectory`), for a Content-Disposition header of
  any text, in either format of its parameters. A path that has one component, is
  not rooted and is not `.` or `..` consists of that component and of pieces that
  are empty or `.`; `Resolved` skips these, which is shown along its fold.
* `SatisfiableIsWanted`: `ToSatisfiableRange` names exactly the bytes that were
  asked for and that there are, for every range and every length. It states no
  run's property; it is the arithmetic in `ServedIsAskedFor`.
* `RangesAreServed` (`ServedIsAskedFor`), for any ranges, any length and any number of
  relays of question and answer. `AskedInv` says that the server means by its
  Content-Range what `ToSatisfiableRange` answers for the range of the question; `KeptInv`
  (below) that both headers are read as they were meant; `SatisfiableIsSpan` that
  the positions can be printed and are in order.
* `EntityTagsAreKept`, and from it `ClientsAreRecognised` (`RevalidationMatches`).
  The invariant `TagInv` (defined in the proofs' module) says that an ETag header
  on its way is read as the tag that was meant, and so is a condition with one tag,
  if the tag has no comma. The lemmas are that a printed entity tag is read
  back, and that a list of one piece is not split.
* `KeptIsReadBack`, `MeaningIsKept` (`MeaningKept`) and `NothingDrifts` (`NoDrift`), for
  `KeptHeaders`, which are forty of the sixty-two:
  * the twenty-eight of the thirty-four headers of `header!` that have no weights
    (`KeptMacros`): words with variants (Allow, Connection, Content-Encoding,
    Transfer-Encoding, Accept-Ranges, Access-Control-Allow-Methods,
    Access-Control-Request-Method), plain text (the other list headers of
    Access-Control, Vary, Content-Location, From, Location, Referer, Server,
    User-Agent), entity tags (ETag, If-Match, If-None-Match), protocols (Upgrade),
    dates (Date, Expires, If-Modified-Since, If-Unmodified-Since, Last-Modified), a
    number (Access-Control-Max-Age) and a media type (Content-Type);
  * ten headers of one text, one number or one word (`PlainHeaders`): Authorization and
    Proxy-Authorization of a String or a Bearer token, Access-Control-Allow-Origin,
    Last-Event-ID, Pragma, Content-Length, Expect, Access-Control-Allow-Credentials;
  * Range and Content-Range, of bytes or of any other unit.

  Their lists may be of any length, their texts any text; the hypothesis is the model's
  own `Faithful`. Dates, media types and numbers are those of the model's tables.
  `NothingDrifts` assumes the header is one of them in the first state; none of
  them ever becomes a header that is not.

  The inductive invariant is `KeptInv`: the lines carry what the sender means, and
  carry what was last read, where lines carry a value (`Carries`) if it has the
  header's type and is what they are read as, should it be faithful. Faithfulness is a
  hypothesis within it, since a value that is not may be merged or appended to and
  become part of one. `MeaningKept` alone says nothing of the wire and is not
  inductive. Before they were proved, TLC found `KeptInv` and `AskedInv` true of the states of
  `exchange`.

  One lemma per action keeps it: `KeptRelay` from `PrintedCarries` (printing, then
  reading) and `ReadIsTyped` (what is read of any lines at all has the header's
  type); `KeptMerge` from `CombinedAreReadTheSame`; `KeptAppend` from
  `AppendedCarries`; `KeptRevalidate`; `KeptServe`. Below them are three facts about lists.
  `LineIsCut`: texts printed with a comma and a blank between them are split into
  just these texts, if none has a comma, a blank at an end, a line break or an
  invalid byte; `JoinedIsSplit` shows it along the fold of `FlattenSeq`, one piece at
  a time (`SplitGrows`). `MergedIsReadTheSame`: any lines, of whatever text, are
  read the same when the first two have been combined. `TwoLinesAreRead`: two lines are read as
  the texts of both, also when one of them is empty. The headers of ranges rest on
  `CutInTwo`, a text is cut at the first place of a token, and on `NumeralIsPlain`, a
  numeral is read as its number and holds none of the marks they are cut at.

The assumptions of HeaderExchange say what programs can build or a network can
bring: `SentAssumption` (a value has its header's type, `HasType`: an entity tag is one
`EntityTag::new` accepts, a `String` is UTF-8, a position is a number, a date is one the
date crate prints; printing it does not panic, and gives text; a Set-Cookie header has a cookie), `ArrivalsAssumption` (a header that arrives has
a line, and none has a line break), `AppendedAssumption` (as `SentAssumption`),
`LengthsAssumption` (no position of a representation is too large for the numerals of
the model) and `BoundsAssumption`. `NumeralsAssumption` of HeaderText is a fact of the
formatting of integers that TLC evaluates: different numbers have different numerals,
and none is a mark such as the dash.

### How they are proved, and what is not

The assumptions on constants are those named in the modules. `Key` is the pair
of plugin name and version; that the data file's name determines it holds as
version identifiers are unsigned integers, which contain no separator.

The provers do no induction over data. Where a definition recurs (a fold over
columns, over the pieces of a path) the proofs argue from the least place at which
a fact is wrong, which `LeastMember` provides from the well-foundedness of the
numbers. `SelectSeq`, `:>` and `@@` have no definition the provers can use: the
definitions that theorems rest on use `ElementsAt` and `Table` instead.

**Only model-checked**:

* `MeaningKept` and `NoDrift` for headers other than `KeptHeaders`: the six with weights, of
  whose table `WeightText` and whose rounding `FromF32` only evaluation says anything; and
  those with a grammar of their own (Basic credentials, Cache-Control,
  Content-Disposition, Cookie, Host, If-Range, Link, Origin, Prefer,
  Preference-Applied, Referrer-Policy, Retry-After, Set-Cookie,
  Strict-Transport-Security, Warning).
* `ReadAsTested`: it lists the lines of the repository's tests, and to evaluate it is to
  prove it.
* `DownloadsSucceed` and `EventuallyReady`: liveness is out of the prover's reach.

The proof of `FilesStayInDirectory` found a mistake in the property: a path that left the
directory was marked by a text, which is also the name of a file; the mark
`Outside` is now none.

## 5. What the header properties leave out

Not every value a program can build is printed so that it can be read back.
`MeaningKept` and `NoDrift` are about the values that `Faithful` admits. It excludes,
header by header, what the code does not preserve:

* An entity tag with a comma in If-Match or If-None-Match: the list is split at
  it and the pieces are dropped without an error (`parsing.rs:38`).
* Any other list with an item whose text has a comma in it, for the same reason.
* A Vary list whose one item is `*`, which is read as "any".
* A range from a later to an earlier position, which `Range` leaves out when it is read
  (`range.rs:238`) and `Content-Range` refuses; another unit with an equality sign (or, in
  Content-Range, a blank) in its name. `ServedIsAskedFor` leaves such requests out, since
  the server then answers the next range of the list. A range of another unit is
  not named `bytes`, though a program could name it so.
* Basic credentials without a password, which are read as an empty one, and a
  password with a colon, which is cut at it.
* Host and Origin with port 80 or 443, which is left out whatever the scheme;
  the origin `null`, which is printed but not read.
* A Cookie with two values of one name: `append` puts both in, reading keeps one.
* Empty lists of Cookie, Cache-Control, Prefer, Preference-Applied, Set-Cookie,
  Link and Range: they are printed as a line that is not read.
* Content-Disposition parameters in the simple format with a semicolon,
  quotation marks at an end, or bytes that are not UTF-8: nothing is escaped
  (`content_disposition.rs:178`).
* A quotation mark in the text of a Warning or in a link's title or anchor.
* A protocol whose name has a slash, which is read as the start of its version.
* A text that is empty, holds a line break, or begins or ends with a blank. Credentials
  and Access-Control-Allow-Origin may begin or end with one, since they are not trimmed;
  an empty Bearer token is printed but not read (`authorization.rs:93`), and an empty
  Last-Event-ID is read.
* A Pragma that is `no-cache` in another case, which is read as `no-cache`.

Besides, the weights 0.251, 0.253, 0.502, 0.506 and 0.511 lose a thousandth when
they are read (once, not at each reader: `NoDrift`), and Preference-Applied is
printed without parameters (`Gist`). Facts of the library that no property
contradicts: an extension that is spelled like a keyword is read as the keyword, and
`*` or `null` as a value of Access-Control-Allow-Origin as `Any` or `Null`, which the
model does not tell apart;
a list that may not be empty may be read as empty; `link.rs:467` takes commas
and semicolons alike between parameters.

`SavedInDirectory` says where a name leads, not that a file can be made there:
`validate_file_name` compares paths by components and so accepts `directory/`,
which its documentation calls invalid (`util.rs:92`); and `is_dir` asks about the
current directory, not the destination (`util.rs:104`).

`PanicNeedsCause` allows a panic on an entry that itself was used as two types and
has no lines, or whose value cannot be printed; where text is wanted, on lines that
are no text; and where it is converted, on a name or a line that the `http` crate
refuses. No document promises more. `StepsAreMapSteps` is about entries that were not used as two
types: of two values and no lines neither can be said to be the header.

## 6. Not modelled

* A write to the destination that fails part-way (`Abort` at `save` leaves the
  destination empty, though a truncated file may be left); nothing is promised
  about the destination after an error.
* The status of a download response: the code does not look at it.
* The HTTP cache is not in front of downloads (`session.rs:111`), only of API
  requests, where it is modelled.
* In the download path, the name of the file: a response without an acceptable
  one is `FetchFails`, and two resources may name one file.
* Wording, JSON, colours, newlines around the output, logging; argument parsing
  (generated); TOML; the Hangar adapter, which is unfinished. The field `latest`
  of `info` is a copy of the question and not of the answer.
* Spiget's `resource_version`, `resource_version_latest` and
  `resource_version_download_url`: no command calls them.
* Of `hyperx`: constructors, getters and setters, conversions of methods, benches;
  the printing of a whole map (`Display`, which prints each entry as `ValueString`
  does but answers an error instead of a panic). `encode` and `encode_append`
  cannot be called with Set-Cookie, which has no `Display`, nor with Prefer,
  Preference-Applied and Last-Event-ID, which are no `StandardHeader`.
  Authorization asks only that the text starts with the scheme and then skips one
  byte, so that `Bearerxy` is read as the token `y` (`SchemeCutOff`); tokens have no
  insides, so that the panic of a cut within a character of several bytes cannot
  be expressed (`authorization.rs:92`).
* A program that reads a Content-Disposition it cannot print (a name that is not UTF-8
  in the simple format, `CanPrint`) panics if it sends it on: in `Relay` the header
  then stays as it came.

## 7. Plan

Done: cache index and time to live, the download path with its abstract
specification, start-up, Spiget versions and their listing, the headers, the
names of files, and the header map with its abstract specification; of all of
these, the safety properties listed in section 4 proved.

Next, in this order:

1. `KeptHeaders` extended by If-Range and Retry-After, and then by the headers with
   weights, once `WeightText` is written so that the provers can reason about it.
2. `ResponseTtl`: lemmas on which responses get a time to live.
3. Start-up and download composed: the directories as a precondition of every
   file operation, and their removal by the user between two runs.
