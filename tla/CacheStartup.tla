---------------------------- MODULE CacheStartup ----------------------------
(***************************************************************************)
(* How an invocation finds, and if necessary makes, its cache directory:   *)
(* Cli::download_cache (src/cli/mod.rs) and DownloadCache::new             *)
(* (src/caching.rs), up to the point where the index file is read, which   *)
(* is the first step of PluginDownload.  Every test for a directory and    *)
(* every creation of one is an action; other processes run in between.     *)
(***************************************************************************)
EXTENDS Naturals, Sequences, SequencesExt

CONSTANTS
    Procs,          \* users, each runs one process at a time
    ManifestNames,  \* what the manifests call themselves, as paths: a name may hold separators, or nothing
    CachePaths,     \* what may be given with --cache
    ExistingDirs,   \* the directories that exist to begin with
    MaxAborts       \* how many processes may be killed, or find no manifest

(* A path is a sequence of names. *)
DefaultRoot == <<"home", ".pluginstall_cache">>

DefaultPath(m) == DefaultRoot \o m

DataPath(path) == Append(path, "data")

Paths == CachePaths \cup {DefaultPath(m) : m \in ManifestNames}

ASSUME PathsAssumption == \A c \in CachePaths : c \in Seq(STRING) /\ c # <<>>
ASSUME NamesAssumption == ManifestNames \subseteq Seq(STRING)
ASSUME AbortsAssumption == MaxAborts \in Nat

Running == {"manifest", "checkCache", "createCache", "checkData", "createData"}

Ended == {"idle", "ready", "badManifest", "AlreadyExists", "NotFound", "aborted"}

VARIABLES
    dirs,           \* the directories that exist
    pc,
    path,           \* the cache directory a process was told to use
    aborts

vars == <<dirs, pc, path, aborts>>

Init ==
    /\ dirs = ExistingDirs
    /\ pc = [p \in Procs |-> "idle"]
    /\ path \in [Procs -> Paths]
    /\ aborts = 0

Goto(p, label) == pc' = [pc EXCEPT ![p] = label]

(* fs::create_dir makes one directory, not its parents. *)
CreateDir(p, dir, next) ==
    \/ /\ dir \in dirs
       /\ Goto(p, "AlreadyExists")
       /\ dirs' = dirs
    \/ /\ dir \notin dirs /\ Front(dir) \notin dirs
       /\ Goto(p, "NotFound")
       /\ dirs' = dirs
    \/ /\ dir \notin dirs /\ Front(dir) \in dirs
       /\ Goto(p, next)
       /\ dirs' = dirs \cup {dir}

-----------------------------------------------------------------------------

Start(p) ==
    /\ pc[p] \in Ended
    /\ Goto(p, "manifest")
    /\ UNCHANGED <<dirs, path, aborts>>

(* The manifest cannot be opened, read or parsed. *)
ManifestFails(p) ==
    /\ pc[p] = "manifest"
    /\ aborts < MaxAborts
    /\ aborts' = aborts + 1
    /\ Goto(p, "badManifest")
    /\ UNCHANGED <<dirs, path>>

(* download_cache: the path given by the user, or a directory named after   *)
(* the manifest under the default one.                                      *)
ChoosePath(p) ==
    /\ pc[p] = "manifest"
    /\ \/ \E c \in CachePaths : path' = [path EXCEPT ![p] = c]
       \/ \E m \in ManifestNames : path' = [path EXCEPT ![p] = DefaultPath(m)]
    /\ Goto(p, "checkCache")
    /\ UNCHANGED <<dirs, aborts>>

(* Faulty: a cache directory that exists is taken to be complete. *)
CheckCache_Only(p) ==
    /\ pc[p] = "checkCache"
    /\ Goto(p, IF path[p] \in dirs THEN "ready" ELSE "createCache")
    /\ UNCHANGED <<dirs, path, aborts>>

CheckCache(p) ==
    /\ pc[p] = "checkCache"
    /\ Goto(p, IF path[p] \in dirs THEN "checkData" ELSE "createCache")
    /\ UNCHANGED <<dirs, path, aborts>>

CreateCache(p) ==
    /\ pc[p] = "createCache"
    /\ CreateDir(p, path[p], "checkData")
    /\ UNCHANGED <<path, aborts>>

(* Faulty: the data directory is always created. *)
CheckData_Never(p) ==
    /\ pc[p] = "checkData"
    /\ Goto(p, "createData")
    /\ UNCHANGED <<dirs, path, aborts>>

CheckData(p) ==
    /\ pc[p] = "checkData"
    /\ Goto(p, IF DataPath(path[p]) \in dirs THEN "ready" ELSE "createData")
    /\ UNCHANGED <<dirs, path, aborts>>

CreateData(p) ==
    /\ pc[p] = "createData"
    /\ CreateDir(p, DataPath(path[p]), "ready")
    /\ UNCHANGED <<path, aborts>>

(* MaxAborts bounds how many processes are killed or find no manifest. *)
Abort(p) ==
    /\ pc[p] \in Running
    /\ aborts < MaxAborts
    /\ aborts' = aborts + 1
    /\ Goto(p, "aborted")
    /\ UNCHANGED <<dirs, path>>

Step(p) ==
    \/ ChoosePath(p)
    \/ CheckCache(p)
    \/ CreateCache(p)
    \/ CheckData(p)
    \/ CreateData(p)

Next == \E p \in Procs : Start(p) \/ Step(p) \/ ManifestFails(p) \/ Abort(p)

Spec == Init /\ [][Next]_vars

(* A process keeps running, and its user runs the program again and again. *)
FairSpec == Spec /\ \A p \in Procs : WF_vars(Start(p)) /\ WF_vars(Step(p))

-----------------------------------------------------------------------------

(* A process that goes on to read the index has a cache directory with a    *)
(* data directory, whether it made them itself, found them, or found what   *)
(* a killed process left half made (DownloadCache::new).                    *)
ReadyHasData ==
    \A p \in Procs : pc[p] = "ready" =>
        path[p] \in dirs /\ DataPath(path[p]) \in dirs

(* A start that fails because another process was faster, or that was       *)
(* killed half way, is made good by a later one: where the parents of all   *)
(* cache directories exist, everybody's processes keep becoming ready.      *)
EventuallyReady ==
    \A p \in Procs : []<>(pc[p] = "ready")

(* Without --cache, a default cache directory that does not exist is        *)
(* created (the help text of --cache in Cli).                               *)
DefaultCacheCreated ==
    \A p \in Procs : pc[p] = "NotFound" => path[p] \in CachePaths
=============================================================================
