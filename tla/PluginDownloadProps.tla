------------------------ MODULE PluginDownloadProps -------------------------
(***************************************************************************)
(* What the download path should guarantee, stated over PluginDownload.    *)
(***************************************************************************)
EXTENDS PluginDownload

(* What TypeOK rests on: p has a response, with a TTL, until it has saved    *)
(* it, and an open file while it writes or copies one.                      *)
Shape(p) ==
    /\ pc[p] \in {"create", "write", "truncate", "writeIndex", "save"} =>
         /\ resp[p] \in Payloads
         /\ ResponseTtl(resp[p].control) \in Ttls
    /\ pc[p] \in {"write", "copy"} => handle[p] # NoInode

TypeInv == TypeOK /\ \A p \in Procs : Shape(p)

(* A body is in the file, whole, and nothing else. *)
Holds(i, d) == content[i] = Body(d)

(* The body of response d is the file that request r asks for. *)
Answers(d, r) == <<d.resource, d.version>> = Source(r)

Complete(file) == \A b \in Blocks : file[b] # NoData

(* The file an entry of the index for key k promises: one whole response to *)
(* a request with that key, kept as long as that response allows.           *)
Describes(e, k, i) ==
    \E d \in Payloads, r \in Requests :
        /\ Key(r) = k
        /\ Answers(d, r)
        /\ ResponseTtl(d.control) = e.ttl
        /\ Holds(i, d)

IndexDescribesFiles(index, t) ==
    \A k \in LiveKeys(index, t) :
        \E i \in Inodes : link[k] = i /\ Describes(index[k], k, i)

(* Whatever happened before, crash or failure, every entry of the index on  *)
(* disk that the next run would serve names a complete data file with the   *)
(* bytes, and the time to live, of one response for that version            *)
(* (get_cached_file, cache_file).                                           *)
LiveEntriesComplete ==
    Readable(indexFile) => IndexDescribesFiles(indexFile.plugins, now)

(* A reported success delivered the whole file that was asked for, all of   *)
(* it from one response (DownloadReport).                                   *)
SuccessIsComplete ==
    \A p \in Procs : pc[p] \in Successes =>
        \E d \in Payloads :
            /\ Answers(d, req[p])
            /\ out[p] = Body(d)

(* No matter how many processes use the cache at once, no block of another  *)
(* plugin's or version's file is ever delivered.                            *)
NoForeignBytes ==
    \A p \in Procs, b \in Blocks : out[p][b] # NoData =>
        Answers(out[p][b], req[p])

(* However many processes empty, write, unlink and make data files at once,  *)
(* a block that is missing from the file of a key is still to be written,   *)
(* by a process that has this very file open: where nobody writes, every    *)
(* data file is whole (cache_file, delete_cached_file).  Killed processes   *)
(* leave their files as they are.                                           *)
MissingBlocksAreComing ==
    \A k \in Keys, b \in Blocks :
        link[k] # NoInode /\ content[link[k]][b] = NoData =>
            \E p \in Procs : pc[p] = "write" /\ handle[p] = link[k] /\ pos[p] <= b

-----------------------------------------------------------------------------
(* The cache as its users see it.                                           *)

(* The versions the next run would serve.  While the index file is being    *)
(* rewritten it counts as written already.                                  *)
Cached ==
    IF \E p \in Procs : pc[p] = "writeIndex"
    THEN LiveKeys(mem[CHOOSE p \in Procs : pc[p] = "writeIndex"], now)
    ELSE IF Readable(indexFile) THEN LiveKeys(indexFile.plugins, now) ELSE {}

PhaseOf(label) ==
    CASE label \in {"load", "lookup", "unlink", "open", "checkDir"} -> "asked"
      [] label \in {"fetch", "create", "write", "truncate"} -> "missed"
      [] label \in {"writeIndex", "save"} -> "stored"
      [] label = "copy" -> "hit"
      [] label \in Failures -> "failed"
      [] OTHER -> label

Phase(p) == PhaseOf(pc[p])

Delivered(p) ==
    IF pc[p] \in Successes /\ Complete(out[p])
    THEN <<out[p][1].resource, out[p][1].version>>
    ELSE NoData

Abstract ==
    INSTANCE AbstractDownload
        WITH NoSource <- NoData,
             cached <- Cached,
             phase <- [p \in Procs |-> Phase(p)],
             asked <- req,
             delivered <- [p \in Procs |-> Delivered(p)]

(* With one user, and whatever fails, the program is an implementation of   *)
(* the abstract cache: it serves from the cache exactly when it should, and *)
(* a version is only lost to time or to a failing download.                 *)
ImplementsAbstract == Abstract!Spec

-----------------------------------------------------------------------------
(* Why NoForeignBytes holds, for any number of users: a file is only ever   *)
(* named by one key, and opened for that key.                               *)

LinksDistinct ==
    \A k, l \in Keys : link[k] = link[l] /\ link[k] # NoInode => k = l

OwnershipInv ==
    /\ LinksDistinct
    /\ \A p \in Procs : handle[p] # NoInode =>
         /\ pc[p] \in {"checkDir", "write", "copy"}
         /\ \A k \in Keys : link[k] = handle[p] => k = KeyOf(p)
         /\ \A q \in Procs : handle[q] = handle[p] => KeyOf(q) = KeyOf(p)

(* What is in file i is what every request with key k asks for. *)
Clean(i, k) ==
    \A b \in Blocks, r \in Requests :
        content[i][b] # NoData /\ Key(r) = k => Answers(content[i][b], r)

CleanInv ==
    /\ \A k \in Keys, i \in Inodes :
         link[k] = i \/ (\E p \in Procs : handle[p] = i /\ KeyOf(p) = k) => Clean(i, k)
    /\ \A p \in Procs :
         pc[p] \in {"create", "write", "truncate", "writeIndex", "save"} =>
             Answers(resp[p], req[p])

SharedInv == TypeInv /\ OwnershipInv /\ CleanInv /\ NoForeignBytes

-----------------------------------------------------------------------------
(* Why LiveEntriesComplete holds for one user at a time.                    *)

Serial == \A p, q \in Procs : p = q

(* The next run would not serve p's key from the index on disk. *)
NotOffered(p) == KeyOf(p) \notin LiveKeys(indexFile.plugins, now)

(* The index in memory is the one on disk, but for p's own key. *)
FollowsDisk(p) ==
    \A k \in Keys : k # KeyOf(p) => mem[p][k] = indexFile.plugins[k]

SameEntry(p) == mem[p][KeyOf(p)] = indexFile.plugins[KeyOf(p)]

BeforeSync == {"lookup", "unlink", "open", "checkDir", "fetch", "create",
               "write", "truncate"}

(* Before the index file is rewritten it is readable, the index in memory   *)
(* follows it, and p's own entry in it is not on offer while p's data file  *)
(* is being replaced.                                                       *)
IndexInv(p) ==
    /\ pc[p] \in BeforeSync => Readable(indexFile) /\ FollowsDisk(p)
    /\ pc[p] \in {"lookup", "open"} => SameEntry(p)
    /\ pc[p] = "open" => mem[p][KeyOf(p)] # NoEntry
    /\ pc[p] = "checkDir" =>
         IF handle[p] = NoInode THEN NotOffered(p)
         ELSE /\ SameEntry(p)
              /\ mem[p][KeyOf(p)] # NoEntry
              /\ handle[p] = link[KeyOf(p)]
    /\ pc[p] \in {"unlink", "fetch", "create", "write", "truncate"} => NotOffered(p)
    /\ pc[p] \in {"truncate", "writeIndex"} => IndexDescribesFiles(mem[p], now)
    /\ pc[p] = "writeIndex" => indexFile.kind = "empty"

(* What p has received, stored and delivered so far. *)
DataInv(p) ==
    /\ pc[p] \in Ended \cup {"load", "lookup", "unlink", "open", "checkDir"} =>
         pos[p] = 1
    /\ pc[p] = "write" =>
         /\ handle[p] = link[KeyOf(p)]
         /\ \A b \in Blocks : b < pos[p] => content[handle[p]][b] = resp[p]
    /\ pc[p] = "copy" =>
         \E d \in Payloads :
            /\ Answers(d, req[p])
            /\ Holds(handle[p], d)
            /\ \A b \in Blocks : b < pos[p] => out[p][b] = d
    /\ pc[p] \in Successes =>
         \E d \in Payloads : Answers(d, req[p]) /\ out[p] = Body(d)

(* The inductive invariant. *)
SerialInv ==
    /\ SharedInv
    /\ LiveEntriesComplete
    /\ \A p \in Procs : IndexInv(p) /\ DataInv(p)

-----------------------------------------------------------------------------
AtRest == \A p \in Procs : pc[p] \in Ended

(* Every version an index records has a data file, and every data file is   *)
(* recorded.                                                                *)
Agrees(index) == RecordedKeys(index) = {k \in Keys : link[k] # NoInode}

(* p may have unlinked or replaced the file of its own key.                 *)
MayDiffer(p) ==
    \/ pc[p] \in {"fetch", "create", "write", "truncate", "writeIndex"}
    \/ pc[p] = "checkDir" /\ handle[p] = NoInode

(* Why IndexMatchesData holds when nothing fails: but for the one file that *)
(* a download is replacing, the index on disk agrees with the data files,   *)
(* and the index that is about to be written agrees with all of them.       *)
TidyInv ==
    /\ SerialInv
    /\ \A p \in Procs :
         /\ pc[p] \notin Failures
         /\ pc[p] # "writeIndex" =>
              /\ Readable(indexFile)
              /\ \A k \in Keys \ {KeyOf(p)} :
                   indexFile.plugins[k] # NoEntry <=> link[k] # NoInode
         /\ ~MayDiffer(p) => Agrees(indexFile.plugins)
         /\ pc[p] = "unlink" => KeyOf(p) \in RecordedKeys(indexFile.plugins)
         /\ pc[p] \in {"truncate", "writeIndex"} => Agrees(mem[p])

(* Between runs the index on disk and the data directory agree: every       *)
(* recorded version has a data file and every data file is recorded         *)
(* (delete_cached_file, cache_file, sync_to_disk).                          *)
IndexMatchesData ==
    AtRest =>
        /\ Readable(indexFile)
        /\ Agrees(indexFile.plugins)

(* A version that was cached is cached until its time to live is over: a    *)
(* download of another plugin, or the rewriting of the index, never loses   *)
(* it (cache_file, sync_to_disk).                                           *)
KeptUntilOutdated ==
    [][\A k \in Cached : k \in Cached' \/ now' # now]_vars

(* A download that was started ends in a success, when nothing fails: no    *)
(* state of the cache makes it fail or hang (download_plugin).              *)
DownloadsSucceed ==
    \A p \in Procs : pc[p] = "load" ~> pc[p] \in Successes

(* A download never fails because of what earlier downloads left in the     *)
(* cache: a deleted file is "claimed never to have existed"                 *)
(* (get_cached_file).                                                       *)
CacheNeverBlocks ==
    \A p \in Procs : pc[p] \notin {"CacheIo", "IndexParse"}

(* When cache_file returned, the version it cached is in the index on disk  *)
(* ("make sure that the index is accurately represented on disk"), except   *)
(* while another process is rewriting the index file, or after two of them  *)
(* left a mixture in it.                                                    *)
IndexIsOnDisk ==
    \A p \in Procs : pc[p] = "save" =>
        \/ indexFile.kind = "index" /\ indexFile.plugins[KeyOf(p)] # NoEntry
        \/ \E q \in Procs : pc[q] = "writeIndex"
        \/ indexFile = GarbageFile

(* A file is only served from the cache if the response it came with let it *)
(* be kept ("ensure that we're allowed to cache this response").            *)
OnlyStorableServed ==
    \A p \in Procs, b \in Blocks :
        pc[p] = "cached" /\ out[p][b] # NoData =>
            \A i \in DOMAIN out[p][b].control :
                ~ForbidsStorage(out[p][b].control[i])
=============================================================================
