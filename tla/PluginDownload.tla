--------------------------- MODULE PluginDownload ---------------------------
(***************************************************************************)
(* The download path of pluginstall: src/session.rs (download_plugin,      *)
(* make_download_request) over src/caching.rs (DownloadCache, CacheIndex). *)
(*                                                                         *)
(* A member of Procs is a user who runs `pluginstall download` again and   *)
(* again, one process at a time.  Several members are processes that share *)
(* one cache directory.  A process is one async task, so the locks inside  *)
(* it never contend; only the files are shared, and every call that reads  *)
(* or writes a file is an action.  Data is written and copied in NBlocks   *)
(* blocks, because the runtime hands a file to the operating system a      *)
(* buffer at a time.                                                       *)
(***************************************************************************)
EXTENDS CacheIndex

CONSTANTS
    Procs,          \* users of the cache directory
    Resources,      \* what a manifest can point a plugin name at
    Requests,       \* the downloads a user may ask for
    Controls,       \* the Cache-Control lines a response may carry
    NBlocks,        \* blocks in a file
    Inodes,         \* files of the data directory, named or only open
    NoInode,
    NoData,         \* a block that was not written
    Faults          \* what may go wrong: see FaultKinds

FaultKinds == {"http", "dir", "abort", "clock"}

Ttls == Nat \cup {NoTtl}

(* A response, and the blocks of the body it carries.  The body depends on  *)
(* the resource and the version; the header is kept as history.             *)
Payloads == [resource : Resources, version : VersionIds, control : Controls]

Blocks == 1..NBlocks

Contents == [Blocks -> Payloads \cup {NoData}]

Nothing == [b \in Blocks |-> NoData]

Body(d) == [b \in Blocks |-> d]

(* Faulty variants of a definition, each with a bug the checks must notice, *)
(* stand before it under its name with a suffix.  Here: two plugins with    *)
(* the same version identifier share a file.                                *)
Key_VersionOnly(r) == <<CHOOSE n \in PluginNames : TRUE, r.version>>

(* The cache knows a request by plugin name and version only. *)
Key(r) == <<r.plugin, r.version>>

Source(r) == <<r.resource, r.version>>

(* Requests with the same key ask for the same file: every user of the      *)
(* cache directory has the same manifest.                                   *)
OneManifest == \A r, s \in Requests : Key(r) = Key(s) => Source(r) = Source(s)

ASSUME DownloadAssumption ==
    /\ Requests \subseteq
         [plugin : PluginNames, version : VersionIds, resource : Resources]
    /\ NBlocks \in Nat \ {0}
    /\ Faults \subseteq FaultKinds

ASSUME SentinelsAssumption ==
    /\ NoInode \notin Inodes
    /\ NoData \notin Payloads
    /\ BadHeader \notin Ttls

ASSUME ControlsAssumption ==
    \A c \in Controls : ResponseTtl(c) \in Ttls \cup {BadHeader}

Successes == {"cached", "fresh"}

Failures == {"IndexParse", "CacheIo", "InvalidDirectoryPath", "Http",
             "CacheControl", "aborted"}

Ended == {"idle"} \cup Successes \cup Failures

Running == {"load", "lookup", "unlink", "open", "checkDir", "fetch", "create",
            "write", "truncate", "writeIndex", "save", "copy"}

VARIABLES
    now,            \* the wall clock
    indexFile,      \* index.json
    link,           \* the data directory: the file each key's name is linked to
    content,        \* what each file holds
    pc,             \* what a process does next, or how it ended
    req,            \* the download it was asked for
    mem,            \* its in-memory index (DownloadCache::cache_index)
    handle,         \* the data file it has open
    pos,            \* the block it reads or writes next
    resp,           \* the response it received
    out             \* the file in the download directory

disk == <<indexFile, link, content>>
local == <<mem, handle, pos, resp>>
vars == <<now, disk, pc, req, local, out>>

TypeOK ==
    /\ now \in Instants
    /\ indexFile \in IndexFiles
    /\ link \in [Keys -> Inodes \cup {NoInode}]
    /\ content \in [Inodes -> Contents]
    /\ pc \in [Procs -> Running \cup Ended]
    /\ req \in [Procs -> Requests]
    /\ mem \in [Procs -> Index]
    /\ handle \in [Procs -> Inodes \cup {NoInode}]
    /\ pos \in [Procs -> 1..NBlocks + 1]
    /\ resp \in [Procs -> Payloads \cup {NoData}]
    /\ out \in [Procs -> Contents]

(* A cache directory that was just created. *)
Init ==
    /\ now = 0
    /\ indexFile = MissingFile
    /\ link = [k \in Keys |-> NoInode]
    /\ content = [i \in Inodes |-> Nothing]
    /\ pc = [p \in Procs |-> "idle"]
    /\ req \in [Procs -> Requests]
    /\ mem = [p \in Procs |-> EmptyIndex]
    /\ handle = [p \in Procs |-> NoInode]
    /\ pos = [p \in Procs |-> 1]
    /\ resp = [p \in Procs |-> NoData]
    /\ out = [p \in Procs |-> Nothing]

-----------------------------------------------------------------------------

At(p, label) == pc[p] = label

Goto(p, label) == pc' = [pc EXCEPT ![p] = label]

KeyOf(p) == Key(req[p])

Opened == {handle[p] : p \in Procs}

FreeInodes == {i \in Inodes \ Opened : \A k \in Keys : link[k] # i}

(* The process ends: whatever it had in memory or open is gone. *)
Finish(p, outcome) ==
    /\ Goto(p, outcome)
    /\ mem' = [mem EXCEPT ![p] = EmptyIndex]
    /\ handle' = [handle EXCEPT ![p] = NoInode]
    /\ pos' = [pos EXCEPT ![p] = 1]
    /\ resp' = [resp EXCEPT ![p] = NoData]

-----------------------------------------------------------------------------
(* The steps of one invocation, in the order of the code.                   *)

(* The user runs the program. *)
Start(p) ==
    /\ pc[p] \in Ended
    /\ \E r \in Requests : req' = [req EXCEPT ![p] = r]
    /\ Goto(p, "load")
    /\ out' = [out EXCEPT ![p] = Nothing]
    /\ UNCHANGED <<now, disk, local>>

(* Faulty: the index on disk is written, but never read back. *)
LoadIndex_Empty(p) ==
    /\ At(p, "load")
    /\ mem' = [mem EXCEPT ![p] = EmptyIndex]
    /\ Goto(p, "lookup")
    /\ UNCHANGED <<now, disk, req, handle, pos, resp, out>>

(* CacheIndex::new *)
LoadIndex(p) ==
    /\ At(p, "load")
    /\ \/ /\ Readable(indexFile)
          /\ mem' = [mem EXCEPT ![p] = indexFile.plugins]
          /\ Goto(p, "lookup")
          /\ UNCHANGED <<handle, pos, resp>>
       \/ /\ ~Readable(indexFile)
          /\ Finish(p, "IndexParse")
    /\ UNCHANGED <<now, disk, req, out>>

(* The API requests and the checks before download_plugin, none of which    *)
(* touches the cache, may end the command.                                  *)
ResolveFails(p) ==
    /\ At(p, "lookup")
    /\ \/ "http" \in Faults /\ Finish(p, "Http")
       \/ "dir" \in Faults /\ Finish(p, "InvalidDirectoryPath")
    /\ UNCHANGED <<now, disk, req, out>>

(* get_cached_file, up to its first access to the data directory.  An       *)
(* outdated entry is removed from the index in memory, and only there.      *)
Lookup(p) ==
    /\ At(p, "lookup")
    /\ LET e == mem[p][KeyOf(p)] IN
       \/ /\ e = NoEntry
          /\ Goto(p, "checkDir")
          /\ mem' = mem
       \/ /\ e # NoEntry /\ IsOutdated(e, now)
          /\ Goto(p, "unlink")
          /\ mem' = [mem EXCEPT ![p] = [@ EXCEPT ![KeyOf(p)] = NoEntry]]
       \/ /\ e # NoEntry /\ ~IsOutdated(e, now)
          /\ Goto(p, "open")
          /\ mem' = mem
    /\ UNCHANGED <<now, disk, req, handle, pos, resp, out>>

(* delete_cached_file: a file that is already gone is an error.  The data    *)
(* of a file goes with its name, unless another process has it open.        *)
Unlink(p) ==
    /\ At(p, "unlink")
    /\ \/ /\ link[KeyOf(p)] # NoInode
          /\ link' = [link EXCEPT ![KeyOf(p)] = NoInode]
          /\ content' = IF link[KeyOf(p)] \in Opened THEN content
                        ELSE [content EXCEPT ![link[KeyOf(p)]] = Nothing]
          /\ Goto(p, "checkDir")
          /\ UNCHANGED local
       \/ /\ link[KeyOf(p)] = NoInode
          /\ Finish(p, "CacheIo")
          /\ UNCHANGED <<link, content>>
    /\ UNCHANGED <<now, indexFile, req, out>>

(* get_cached_file opens the data file of a live entry. *)
OpenCached(p) ==
    /\ At(p, "open")
    /\ \/ /\ link[KeyOf(p)] # NoInode
          /\ handle' = [handle EXCEPT ![p] = link[KeyOf(p)]]
          /\ Goto(p, "checkDir")
          /\ UNCHANGED <<mem, pos, resp>>
       \/ /\ link[KeyOf(p)] = NoInode
          /\ Finish(p, "CacheIo")
    /\ UNCHANGED <<now, disk, req, out>>

(* Faulty: the entry of the open file is not checked again. *)
Choose_Once(p) ==
    /\ At(p, "checkDir")
    /\ IF handle[p] # NoInode
       THEN Goto(p, "copy") /\ handle' = handle
       ELSE Goto(p, "fetch") /\ handle' = handle
    /\ UNCHANGED <<now, disk, req, mem, pos, resp, out>>

(* Faulty: a file on offer is downloaded again, over the one that is there. *)
Choose_Refresh(p) ==
    /\ At(p, "checkDir")
    /\ Goto(p, "fetch")
    /\ handle' = [handle EXCEPT ![p] = NoInode]
    /\ UNCHANGED <<now, disk, req, mem, pos, resp, out>>

(* download_plugin after get_cached_file: the entry of an open file is      *)
(* checked a second time.                                                   *)
Choose(p) ==
    /\ At(p, "checkDir")
    /\ IF handle[p] # NoInode /\ ~IsOutdated(mem[p][KeyOf(p)], now)
       THEN Goto(p, "copy") /\ handle' = handle
       ELSE Goto(p, "fetch") /\ handle' = [handle EXCEPT ![p] = NoInode]
    /\ UNCHANGED <<now, disk, req, mem, pos, resp, out>>

InvalidDirectory(p) ==
    /\ At(p, "checkDir")
    /\ "dir" \in Faults
    /\ Finish(p, "InvalidDirectoryPath")
    /\ UNCHANGED <<now, disk, req, out>>

(* Faulty: a Cache-Control header that cannot be parsed is let through. *)
Fetch_AnyHeader(p) ==
    /\ At(p, "fetch")
    /\ \E c \in Controls :
         resp' = [resp EXCEPT ![p] =
             [resource |-> req[p].resource,
              version  |-> req[p].version,
              control  |-> c]]
    /\ Goto(p, "create")
    /\ UNCHANGED <<now, disk, req, mem, handle, pos, out>>

(* make_download_request, up to the whole response body.  The status of the *)
(* response is not looked at: whatever has the two headers is the file.     *)
Fetch(p) ==
    /\ At(p, "fetch")
    /\ \E c \in Controls :
         \/ /\ ResponseTtl(c) # BadHeader
            /\ resp' = [resp EXCEPT ![p] =
                   [resource |-> req[p].resource,
                    version  |-> req[p].version,
                    control  |-> c]]
            /\ Goto(p, "create")
            /\ UNCHANGED <<mem, handle, pos>>
         \/ /\ ResponseTtl(c) = BadHeader
            /\ Finish(p, "CacheControl")
    /\ UNCHANGED <<now, disk, req, out>>

(* No answer, no body, or an answer whose Content-Disposition names no      *)
(* usable file: all of it is found out before the cache is touched.         *)
FetchFails(p) ==
    /\ At(p, "fetch")
    /\ "http" \in Faults
    /\ Finish(p, "Http")
    /\ UNCHANGED <<now, disk, req, out>>

(* cache_file: File::create empties the data file, or makes one. *)
CreateData(p) ==
    /\ At(p, "create")
    /\ \E i \in IF link[KeyOf(p)] # NoInode THEN {link[KeyOf(p)]} ELSE FreeInodes :
         /\ link' = [link EXCEPT ![KeyOf(p)] = i]
         /\ content' = [content EXCEPT ![i] = Nothing]
         /\ handle' = [handle EXCEPT ![p] = i]
    /\ pos' = [pos EXCEPT ![p] = 1]
    /\ Goto(p, "write")
    /\ UNCHANGED <<now, indexFile, req, mem, resp, out>>

(* cache_file: one block of write_all. *)
WriteData(p) ==
    /\ At(p, "write")
    /\ pos[p] \in Blocks
    /\ content' = [content EXCEPT ![handle[p]] = [@ EXCEPT ![pos[p]] = resp[p]]]
    /\ pos' = [pos EXCEPT ![p] = @ + 1]
    /\ UNCHANGED <<now, indexFile, link, pc, req, mem, handle, resp, out>>

(* Faulty: the entry is recorded before the data is all written. *)
Record_Early(p) ==
    /\ At(p, "write")
    /\ mem' = [mem EXCEPT ![p] = [@ EXCEPT ![KeyOf(p)] =
           [ttl |-> ResponseTtl(resp[p].control), added |-> now]]]
    /\ handle' = [handle EXCEPT ![p] = NoInode]
    /\ Goto(p, "truncate")
    /\ UNCHANGED <<now, disk, req, pos, resp, out>>

(* Faulty: a file without a time to live is stored, but not recorded. *)
Record_WithTtlOnly(p) ==
    /\ At(p, "write")
    /\ pos[p] \notin Blocks
    /\ LET ttl == ResponseTtl(resp[p].control) IN
       mem' = [mem EXCEPT ![p] = [@ EXCEPT ![KeyOf(p)] =
           IF ttl = NoTtl THEN NoEntry ELSE [ttl |-> ttl, added |-> now]]]
    /\ handle' = [handle EXCEPT ![p] = NoInode]
    /\ Goto(p, "truncate")
    /\ UNCHANGED <<now, disk, req, pos, resp, out>>

(* Faulty: a file that has its full length is taken for written. *)
Record_ByLength(p) ==
    /\ At(p, "write")
    /\ pos[p] \notin Blocks \/ content[handle[p]][NBlocks] # NoData
    /\ mem' = [mem EXCEPT ![p] = [@ EXCEPT ![KeyOf(p)] =
           [ttl |-> ResponseTtl(resp[p].control), added |-> now]]]
    /\ handle' = [handle EXCEPT ![p] = NoInode]
    /\ Goto(p, "truncate")
    /\ UNCHANGED <<now, disk, req, pos, resp, out>>

(* cache_file: the entry of the complete file, stamped with the time. *)
Record(p) ==
    /\ At(p, "write")
    /\ pos[p] \notin Blocks
    /\ mem' = [mem EXCEPT ![p] = [@ EXCEPT ![KeyOf(p)] =
           [ttl |-> ResponseTtl(resp[p].control), added |-> now]]]
    /\ handle' = [handle EXCEPT ![p] = NoInode]
    /\ Goto(p, "truncate")
    /\ UNCHANGED <<now, disk, req, pos, resp, out>>

(* Faulty: the file is opened for writing without being emptied. *)
TruncateIndex_InPlace(p) ==
    /\ At(p, "truncate")
    /\ Goto(p, "writeIndex")
    /\ UNCHANGED <<now, disk, req, local, out>>

(* sync_to_disk: File::create. *)
TruncateIndex(p) ==
    /\ At(p, "truncate")
    /\ indexFile' = EmptyFile
    /\ Goto(p, "writeIndex")
    /\ UNCHANGED <<now, link, content, req, local, out>>

(* sync_to_disk: the whole index in memory, in place of what is there. *)
WriteIndex(p) ==
    /\ At(p, "writeIndex")
    /\ indexFile' \in Overwritten(indexFile, mem[p])
    /\ Goto(p, "save")
    /\ UNCHANGED <<now, link, content, req, local, out>>

(* make_download_request writes the body it still has in memory to the      *)
(* download directory and reports it as not cached.                         *)
Save(p) ==
    /\ At(p, "save")
    /\ out' = [out EXCEPT ![p] = Body(resp[p])]
    /\ Finish(p, "fresh")
    /\ UNCHANGED <<now, disk, req>>

(* There is data at or after block b of a file: before the end of the file, *)
(* a block nobody wrote reads as zeros.                                     *)
DataFrom(file, b) == \E c \in Blocks : c >= b /\ file[c] # NoData

(* Faulty: one read, which may return less than the whole file. *)
CopyBlock_Once(p) ==
    /\ At(p, "copy")
    /\ out' = [out EXCEPT ![p] = [@ EXCEPT ![1] = content[handle[p]][1]]]
    /\ Finish(p, "cached")
    /\ UNCHANGED <<now, disk, req>>

(* copy_to_directory: io::copy reads block after block until the file ends, *)
(* and what it read is reported as a success, from the cache.               *)
CopyBlock(p) ==
    /\ At(p, "copy")
    /\ LET file == content[handle[p]] IN
       \/ /\ DataFrom(file, pos[p])
          /\ out' = [out EXCEPT ![p] = [@ EXCEPT ![pos[p]] = file[pos[p]]]]
          /\ pos' = [pos EXCEPT ![p] = @ + 1]
          /\ UNCHANGED <<pc, mem, handle, resp>>
       \/ /\ ~DataFrom(file, pos[p])
          /\ Finish(p, "cached")
          /\ out' = out
    /\ UNCHANGED <<now, disk, req>>

-----------------------------------------------------------------------------
(* What the program does not decide.                                        *)

(* The process is killed, or a call to the file system fails. *)
Abort(p) ==
    /\ pc[p] \in Running
    /\ "abort" \in Faults
    /\ Finish(p, "aborted")
    /\ UNCHANGED <<now, disk, req, out>>

(* MaxInstant bounds the clock. *)
Tick ==
    /\ now < MaxInstant
    /\ now' = now + 1
    /\ UNCHANGED <<disk, pc, req, local, out>>

(* The wall clock is set back. *)
SetClockBack ==
    /\ "clock" \in Faults
    /\ \E t \in Instants : t < now /\ now' = t
    /\ UNCHANGED <<disk, pc, req, local, out>>

-----------------------------------------------------------------------------

(* What the program does by itself once it was started. *)
Step(p) ==
    \/ LoadIndex(p)
    \/ Lookup(p)
    \/ Unlink(p)
    \/ OpenCached(p)
    \/ Choose(p)
    \/ Fetch(p)
    \/ CreateData(p)
    \/ WriteData(p)
    \/ Record(p)
    \/ TruncateIndex(p)
    \/ WriteIndex(p)
    \/ Save(p)
    \/ CopyBlock(p)

Disturbance(p) ==
    \/ ResolveFails(p)
    \/ InvalidDirectory(p)
    \/ FetchFails(p)
    \/ Abort(p)

Next ==
    \/ \E p \in Procs : Start(p) \/ Step(p) \/ Disturbance(p)
    \/ Tick
    \/ SetClockBack

Spec == Init /\ [][Next]_vars

(* A process that was started keeps running, and the server answers. *)
FairSpec == Spec /\ \A p \in Procs : WF_vars(Step(p))
=============================================================================
