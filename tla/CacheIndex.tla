----------------------------- MODULE CacheIndex -----------------------------
(***************************************************************************)
(* The index of the download cache (src/caching.rs): which version of      *)
(* which plugin is cached, since when and for how long, and the index file *)
(* it is read from and written to.  The two nested maps of the code        *)
(* (plugin name -> version identifier -> file) are one function of the     *)
(* pair; the `source_api` of a plugin is never read and is left out.       *)
(***************************************************************************)
EXTENDS Integers, CacheControl

CONSTANTS
    PluginNames,    \* names of plugins in the manifest
    VersionIds,     \* version identifiers, unique for one plugin only
    MaxInstant,     \* the last representable instant of the wall clock
    NoEntry         \* the entry of a version that is not in the index

Instants == 0..MaxInstant

(* The name an entry is found under, and, formatted, the name of its data file. *)
Keys == PluginNames \X VersionIds

(* CachedPluginVersionFile, without the two file names: both follow from the key. *)
Entries == [ttl : Nat \cup {NoTtl}, added : Instants]

ASSUME InstantAssumption == MaxInstant \in Nat
ASSUME SentinelAssumption == NoTtl \notin Nat /\ NoEntry \notin Entries

Index == [Keys -> Entries \cup {NoEntry}]

EmptyIndex == [k \in Keys |-> NoEntry]

(* is_outdated: an expiry past the last instant counts as reached. *)
IsOutdated(e, t) ==
    /\ e.ttl # NoTtl
    /\ \/ e.added + e.ttl > MaxInstant
       \/ t >= e.added + e.ttl

(* The versions the index offers at instant t. *)
LiveKeys(index, t) ==
    {k \in Keys : index[k] # NoEntry /\ ~IsOutdated(index[k], t)}

RecordedKeys(index) == {k \in Keys : index[k] # NoEntry}

-----------------------------------------------------------------------------
(* The file on disk.  It is unparsable while it is empty, and when two      *)
(* writers left a mixture in it.                                            *)
FileKinds == {"missing", "empty", "garbage", "index"}

IndexFiles == [kind : FileKinds, plugins : Index]

MissingFile == [kind |-> "missing", plugins |-> EmptyIndex]

EmptyFile == [kind |-> "empty", plugins |-> EmptyIndex]

GarbageFile == [kind |-> "garbage", plugins |-> EmptyIndex]

FileOf(index) == [kind |-> "index", plugins |-> index]

(* CacheIndex::new succeeds: a missing file is an empty index, and what is  *)
(* there must parse.                                                        *)
Readable(file) == file.kind \in {"missing", "index"}

(* What writing the index at offset 0 leaves in a file: a longer text that  *)
(* is already there keeps its tail.                                         *)
Overwritten(file, index) ==
    {FileOf(index)} \cup
        (IF file.kind = "empty" \/ file = FileOf(index) THEN {} ELSE {GarbageFile})
=============================================================================
