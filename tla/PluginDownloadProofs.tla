------------------------ MODULE PluginDownloadProofs ------------------------
(* Proofs about the download path, for every value of the constants. *)
EXTENDS PluginDownloadProps, TLAPS

USE InstantAssumption, SentinelAssumption

(* The cache key of a request is a key of the index.                        *)
LEMMA KeyType == ASSUME NEW r \in Requests PROVE Key(r) \in Keys
BY DownloadAssumption DEF Key, Keys

LEMMA InstantsInt == Instants \subseteq Int
BY DEF Instants

-----------------------------------------------------------------------------
(* A process changes no other process's memory, handle or download          *)
(* directory.                                                               *)
OthersSame(p) ==
    \A q \in Procs \ {p} :
        /\ pc'[q] = pc[q]
        /\ req'[q] = req[q]
        /\ mem'[q] = mem[q]
        /\ handle'[q] = handle[q]
        /\ pos'[q] = pos[q]
        /\ resp'[q] = resp[q]
        /\ out'[q] = out[q]

LEMMA Frame ==
    ASSUME TypeOK, NEW p \in Procs, Start(p) \/ Step(p) \/ Disturbance(p)
    PROVE  OthersSame(p)
<1> USE DEF TypeOK, OthersSame, Goto, Finish, local
<1>1. CASE Start(p)
  BY <1>1 DEF Start
<1>2. CASE LoadIndex(p)
  BY <1>2 DEF LoadIndex
<1>3. CASE ResolveFails(p)
  BY <1>3 DEF ResolveFails
<1>4. CASE Lookup(p)
  BY <1>4 DEF Lookup
<1>5. CASE Unlink(p)
  BY <1>5 DEF Unlink
<1>6. CASE OpenCached(p)
  BY <1>6 DEF OpenCached
<1>7. CASE Choose(p)
  BY <1>7 DEF Choose
<1>8. CASE InvalidDirectory(p)
  BY <1>8 DEF InvalidDirectory
<1>9. CASE Fetch(p)
  BY <1>9 DEF Fetch
<1>10. CASE FetchFails(p)
  BY <1>10 DEF FetchFails
<1>11. CASE CreateData(p)
  BY <1>11 DEF CreateData
<1>12. CASE WriteData(p)
  BY <1>12 DEF WriteData
<1>13. CASE Record(p)
  BY <1>13 DEF Record
<1>14. CASE TruncateIndex(p)
  BY <1>14 DEF TruncateIndex
<1>15. CASE WriteIndex(p)
  BY <1>15 DEF WriteIndex
<1>16. CASE Save(p)
  BY <1>16 DEF Save
<1>17. CASE CopyBlock(p)
  BY <1>17 DEF CopyBlock
<1>18. CASE Abort(p)
  BY <1>18 DEF Abort
<1> QED
  BY <1>1, <1>2, <1>3, <1>4, <1>5, <1>6, <1>7, <1>8, <1>9, <1>10, <1>11, <1>12,
     <1>13, <1>14, <1>15, <1>16, <1>17, <1>18 DEF Step, Disturbance

-----------------------------------------------------------------------------
(* The types of the state survive every step, one step of the proof for     *)
(* each action.                                                             *)
LEMMA TypeOKStep == TypeInv /\ [Next]_vars => TypeOK'
<1> SUFFICES ASSUME TypeInv, [Next]_vars PROVE TypeOK'
  OBVIOUS
<1> USE DEF TypeOK, TypeInv
<1>e. EmptyIndex \in Index /\ Nothing \in Contents /\ NBlocks \in Nat \ {0}
  BY DownloadAssumption DEF EmptyIndex, Index, Nothing, Contents
<1>f. ASSUME NEW p \in Procs, NEW o \in Ended \cup Running, Finish(p, o)
      PROVE  /\ pc' \in [Procs -> Running \cup Ended]
             /\ mem' \in [Procs -> Index]
             /\ handle' \in [Procs -> Inodes \cup {NoInode}]
             /\ pos' \in [Procs -> 1..NBlocks + 1]
             /\ resp' \in [Procs -> Payloads \cup {NoData}]
  BY <1>e, <1>f DEF Finish, Goto
<1>l. {"load", "lookup", "unlink", "open", "checkDir", "fetch", "create",
       "write", "truncate", "writeIndex", "save", "copy"} \subseteq Running
  BY DEF Running
<1>o. Successes \cup Failures \subseteq Ended
  BY DEF Ended
<1>k. ASSUME NEW p \in Procs PROVE KeyOf(p) \in Keys
  BY KeyType DEF KeyOf
<1>1. ASSUME NEW p \in Procs, Start(p) PROVE TypeOK'
  BY <1>1, <1>e, <1>l DEF Start, Goto, disk, local
<1>2. ASSUME NEW p \in Procs, LoadIndex(p) PROVE TypeOK'
  <2>1. indexFile.plugins \in Index
    BY DEF IndexFiles
  <2>2. "IndexParse" \in Ended
    BY DEF Ended, Failures
  <2> QED
    BY <1>2, <1>f, <1>l, <2>1, <2>2 DEF LoadIndex, Goto, disk
<1>3. ASSUME NEW p \in Procs, ResolveFails(p) PROVE TypeOK'
  <2>1. "Http" \in Ended /\ "InvalidDirectoryPath" \in Ended
    BY DEF Ended, Failures
  <2> QED
    BY <1>3, <1>f, <2>1 DEF ResolveFails, disk
<1>4. ASSUME NEW p \in Procs, Lookup(p) PROVE TypeOK'
  <2>1. [mem[p] EXCEPT ![KeyOf(p)] = NoEntry] \in Index
    BY <1>k DEF Index
  <2>2. mem' \in [Procs -> Index]
    BY <1>4, <2>1 DEF Lookup
  <2>3. pc' \in [Procs -> Running \cup Ended]
    BY <1>4, <1>l DEF Lookup, Goto
  <2> QED
    BY <1>4, <2>2, <2>3 DEF Lookup, disk
<1>5. ASSUME NEW p \in Procs, Unlink(p) PROVE TypeOK'
  <2>1. "CacheIo" \in Ended
    BY DEF Ended, Failures
  <2>2. CASE link[KeyOf(p)] = NoInode
    BY <1>5, <1>f, <2>1, <2>2 DEF Unlink
  <2>3. CASE link[KeyOf(p)] # NoInode
    <3>1. content' \in [Inodes -> Contents]
      BY <1>5, <1>e, <1>k, <2>3 DEF Unlink
    <3>2. link' \in [Keys -> Inodes \cup {NoInode}]
      BY <1>5, <2>3 DEF Unlink
    <3> QED
      BY <1>5, <1>l, <2>3, <3>1, <3>2 DEF Unlink, Goto, local
  <2> QED
    BY <2>2, <2>3
<1>6. ASSUME NEW p \in Procs, OpenCached(p) PROVE TypeOK'
  <2>1. "CacheIo" \in Ended
    BY DEF Ended, Failures
  <2>2. link[KeyOf(p)] \in Inodes \cup {NoInode}
    BY <1>k
  <2> QED
    BY <1>6, <1>f, <1>l, <2>1, <2>2 DEF OpenCached, Goto, disk
<1>7. ASSUME NEW p \in Procs, Choose(p) PROVE TypeOK'
  BY <1>7, <1>l DEF Choose, Goto, disk
<1>8. ASSUME NEW p \in Procs, InvalidDirectory(p) PROVE TypeOK'
  <2>1. "InvalidDirectoryPath" \in Ended
    BY DEF Ended, Failures
  <2> QED
    BY <1>8, <1>f, <2>1 DEF InvalidDirectory, disk
<1>9. ASSUME NEW p \in Procs, Fetch(p) PROVE TypeOK'
  <2>1. "CacheControl" \in Ended
    BY DEF Ended, Failures
  <2>2. ASSUME NEW c \in Controls
        PROVE  [resource |-> req[p].resource, version |-> req[p].version,
                control |-> c] \in Payloads
    BY DownloadAssumption DEF Payloads
  <2> QED
    BY <1>9, <1>f, <1>l, <2>1, <2>2 DEF Fetch, Goto, disk
<1>10. ASSUME NEW p \in Procs, FetchFails(p) PROVE TypeOK'
  <2>1. "Http" \in Ended
    BY DEF Ended, Failures
  <2> QED
    BY <1>10, <1>f, <2>1 DEF FetchFails, disk
<1>11. ASSUME NEW p \in Procs, CreateData(p) PROVE TypeOK'
  <2>1. PICK i \in Inodes :
          /\ link' = [link EXCEPT ![KeyOf(p)] = i]
          /\ content' = [content EXCEPT ![i] = Nothing]
          /\ handle' = [handle EXCEPT ![p] = i]
    BY <1>11, <1>k DEF CreateData, FreeInodes
  <2>2. content' \in [Inodes -> Contents] /\ link' \in [Keys -> Inodes \cup {NoInode}]
    BY <1>e, <2>1
  <2>3. pos' \in [Procs -> 1..NBlocks + 1]
    BY <1>11, <1>e DEF CreateData
  <2> QED
    BY <1>11, <1>l, <2>1, <2>2, <2>3 DEF CreateData, Goto
<1>12. ASSUME NEW p \in Procs, WriteData(p) PROVE TypeOK'
  <2>1. [content[handle[p]] EXCEPT ![pos[p]] = resp[p]] \in Contents
        \/ handle[p] \notin Inodes
    BY <1>12 DEF WriteData, Contents
  <2>2. content' \in [Inodes -> Contents]
    BY <1>12, <2>1 DEF WriteData
  <2>3. pos' \in [Procs -> 1..NBlocks + 1]
    BY <1>12, <1>e DEF WriteData, Blocks
  <2> QED
    BY <1>12, <2>2, <2>3 DEF WriteData
<1>13. ASSUME NEW p \in Procs, Record(p) PROVE TypeOK'
  <2>1. [ttl |-> ResponseTtl(resp[p].control), added |-> now] \in Entries
    BY <1>13 DEF Record, At, Shape, Entries, Ttls
  <2>2. [mem[p] EXCEPT ![KeyOf(p)] =
            [ttl |-> ResponseTtl(resp[p].control), added |-> now]] \in Index
    BY <2>1 DEF Index
  <2>3. mem' \in [Procs -> Index]
    BY <1>13, <2>2 DEF Record
  <2> QED
    BY <1>13, <1>l, <2>3 DEF Record, Goto, disk
<1>14. ASSUME NEW p \in Procs, TruncateIndex(p) PROVE TypeOK'
  <2>1. EmptyFile \in IndexFiles
    BY <1>e DEF EmptyFile, IndexFiles, FileKinds
  <2> QED
    BY <1>14, <1>l, <2>1 DEF TruncateIndex, Goto, local
<1>15. ASSUME NEW p \in Procs, WriteIndex(p) PROVE TypeOK'
  <2>1. indexFile' \in IndexFiles
    BY <1>15, <1>e DEF WriteIndex, Overwritten, FileOf, GarbageFile, IndexFiles, FileKinds
  <2> QED
    BY <1>15, <1>l, <2>1 DEF WriteIndex, Goto, local
<1>16. ASSUME NEW p \in Procs, Save(p) PROVE TypeOK'
  <2>1. "fresh" \in Ended
    BY DEF Ended, Successes
  <2>2. Body(resp[p]) \in Contents
    BY DEF Body, Contents
  <2> QED
    BY <1>16, <1>f, <2>1, <2>2 DEF Save, disk
<1>17. ASSUME NEW p \in Procs, CopyBlock(p) PROVE TypeOK'
  <2>1. "cached" \in Ended
    BY DEF Ended, Successes
  <2>2. CASE ~DataFrom(content[handle[p]], pos[p])
    BY <1>17, <1>f, <2>1, <2>2 DEF CopyBlock, disk
  <2>3. CASE DataFrom(content[handle[p]], pos[p])
    <3>1. content[handle[p]] \in Contents
      BY <1>17 DEF CopyBlock, At, Shape
    <3>2. pos[p] \in Blocks /\ pos[p] + 1 \in 1..NBlocks + 1
      BY <2>3, <1>e DEF DataFrom, Blocks
    <3>3. [out[p] EXCEPT ![pos[p]] = content[handle[p]][pos[p]]] \in Contents
      BY <3>1, <3>2 DEF Contents
    <3>4. out' \in [Procs -> Contents] /\ pos' \in [Procs -> 1..NBlocks + 1]
      BY <1>17, <2>3, <3>2, <3>3 DEF CopyBlock
    <3> QED
      BY <1>17, <2>3, <3>4 DEF CopyBlock, disk
  <2> QED
    BY <2>2, <2>3
<1>18. ASSUME NEW p \in Procs, Abort(p) PROVE TypeOK'
  <2>1. "aborted" \in Ended
    BY DEF Ended, Failures
  <2> QED
    BY <1>18, <1>f, <2>1 DEF Abort, disk
<1>19. CASE Tick
  BY <1>19, InstantsInt DEF Tick, disk, local, Instants
<1>20. CASE SetClockBack
  BY <1>20 DEF SetClockBack, disk, local
<1>21. CASE UNCHANGED vars
  BY <1>21 DEF vars, disk, local
<1> QED
  BY <1>1, <1>2, <1>3, <1>4, <1>5, <1>6, <1>7, <1>8, <1>9, <1>10, <1>11, <1>12,
     <1>13, <1>14, <1>15, <1>16, <1>17, <1>18, <1>19, <1>20, <1>21
     DEF Next, Step, Disturbance

(* A process keeps its response, and its open file, as long as it needs it. *)
LEMMA ShapeStep ==
    ASSUME TypeInv, NEW p \in Procs, Start(p) \/ Step(p) \/ Disturbance(p)
    PROVE  Shape(p)'
<1> USE DEF TypeInv, TypeOK, Shape, At, Goto, local
<1>f. ASSUME NEW o \in Successes \cup Failures, Finish(p, o) PROVE Shape(p)'
  BY <1>f DEF Finish, Successes, Failures
<1>1. CASE Start(p)
  BY <1>1 DEF Start
<1>2. CASE LoadIndex(p)
  BY <1>2, <1>f DEF LoadIndex, Failures
<1>3. CASE ResolveFails(p)
  BY <1>3, <1>f DEF ResolveFails, Failures
<1>4. CASE Lookup(p)
  BY <1>4 DEF Lookup
<1>5. CASE Unlink(p)
  BY <1>5, <1>f DEF Unlink, Failures
<1>6. CASE OpenCached(p)
  BY <1>6, <1>f DEF OpenCached, Failures
<1>7. CASE Choose(p)
  BY <1>7 DEF Choose
<1>8. CASE InvalidDirectory(p)
  BY <1>8, <1>f DEF InvalidDirectory, Failures
<1>9. CASE Fetch(p)
  <2>1. "CacheControl" \in Failures
    BY DEF Failures
  <2>2. ASSUME NEW c \in Controls, ResponseTtl(c) # BadHeader,
               resp' = [resp EXCEPT ![p] = [resource |-> req[p].resource,
                           version |-> req[p].version, control |-> c]],
               Goto(p, "create")
        PROVE  Shape(p)'
    <3>1. resp'[p] \in Payloads /\ resp'[p].control = c
      BY <2>2, DownloadAssumption DEF Payloads
    <3>2. ResponseTtl(c) \in Ttls
      BY <2>2, ControlsAssumption
    <3> QED
      BY <2>2, <3>1, <3>2
  <2> QED
    BY <1>9, <1>f, <2>1, <2>2 DEF Fetch
<1>10. CASE FetchFails(p)
  BY <1>10, <1>f DEF FetchFails, Failures
<1>11. CASE CreateData(p)
  BY <1>11, SentinelsAssumption, KeyType DEF CreateData, FreeInodes
<1>12. CASE WriteData(p)
  BY <1>12 DEF WriteData
<1>13. CASE Record(p)
  BY <1>13 DEF Record
<1>14. CASE TruncateIndex(p)
  BY <1>14 DEF TruncateIndex
<1>15. CASE WriteIndex(p)
  BY <1>15 DEF WriteIndex
<1>16. CASE Save(p)
  BY <1>16, <1>f DEF Save, Successes
<1>17. CASE CopyBlock(p)
  BY <1>17, <1>f DEF CopyBlock, Successes
<1>18. CASE Abort(p)
  BY <1>18, <1>f DEF Abort, Failures
<1> QED
  BY <1>1, <1>2, <1>3, <1>4, <1>5, <1>6, <1>7, <1>8, <1>9, <1>10, <1>11, <1>12,
     <1>13, <1>14, <1>15, <1>16, <1>17, <1>18 DEF Step, Disturbance

LEMMA TypeInvStep == TypeInv /\ [Next]_vars => TypeInv'
<1> SUFFICES ASSUME TypeInv, [Next]_vars, NEW q \in Procs PROVE Shape(q)'
  BY TypeOKStep DEF TypeInv
<1>1. ASSUME NEW p \in Procs, Start(p) \/ Step(p) \/ Disturbance(p)
      PROVE  Shape(q)'
  BY <1>1, Frame, ShapeStep DEF OthersSame, Shape, TypeInv
<1>2. CASE Tick \/ SetClockBack \/ UNCHANGED vars
  BY <1>2 DEF Tick, SetClockBack, vars, local, Shape, TypeInv
<1> QED
  BY <1>1, <1>2 DEF Next

LEMMA TypeInvInit == Init => TypeInv
<1> SUFFICES ASSUME Init PROVE TypeInv
  OBVIOUS
<1>1. EmptyIndex \in Index /\ Nothing \in Contents /\ NBlocks \in Nat \ {0}
  BY DownloadAssumption DEF EmptyIndex, Index, Nothing, Contents
<1>2. TypeOK
  BY <1>1 DEF Init, TypeOK, Instants, MissingFile, IndexFiles, FileKinds, Ended
<1>3. \A p \in Procs : Shape(p)
  BY DEF Init, Shape
<1> QED
  BY <1>2, <1>3 DEF TypeInv

(* The state is well typed in every behaviour, however many users there are *)
(* and whatever fails.                                                      *)
THEOREM TypeCorrect == Spec => []TypeOK
<1>1. TypeInv => TypeOK
  BY DEF TypeInv
<1> QED
  BY <1>1, TypeInvInit, TypeInvStep, PTL DEF Spec

-----------------------------------------------------------------------------
(* Ownership of the data files, for any number of users.                    *)

(* Every action but CreateData and OpenCached links and opens no file.      *)
OpensNothing(p) ==
    /\ \A k \in Keys : link'[k] \in {link[k], NoInode}
    /\ handle'[p] # NoInode =>
         /\ handle'[p] = handle[p]
         /\ req'[p] = req[p]
         /\ pc'[p] \in {"checkDir", "write", "copy"}

LEMMA OpensNothingStep ==
    ASSUME TypeInv, OwnershipInv, NEW p \in Procs,
           Start(p) \/ Step(p) \/ Disturbance(p)
    PROVE  OpenCached(p) \/ CreateData(p) \/ OpensNothing(p)
<1> USE DEF TypeInv, TypeOK, OwnershipInv, OpensNothing, At, Goto, disk, local
<1>f. ASSUME NEW o, Finish(p, o) PROVE handle'[p] = NoInode
  BY <1>f DEF Finish
<1>1. CASE Start(p)
  BY <1>1 DEF Start, Ended, Successes, Failures
<1>2. CASE LoadIndex(p)
  BY <1>2, <1>f DEF LoadIndex
<1>3. CASE ResolveFails(p)
  BY <1>3, <1>f DEF ResolveFails
<1>4. CASE Lookup(p)
  BY <1>4 DEF Lookup
<1>5. CASE Unlink(p)
  BY <1>5, <1>f DEF Unlink
<1>7. CASE Choose(p)
  BY <1>7 DEF Choose
<1>8. CASE InvalidDirectory(p)
  BY <1>8, <1>f DEF InvalidDirectory
<1>9. CASE Fetch(p)
  BY <1>9, <1>f DEF Fetch
<1>10. CASE FetchFails(p)
  BY <1>10, <1>f DEF FetchFails
<1>12. CASE WriteData(p)
  BY <1>12 DEF WriteData
<1>13. CASE Record(p)
  BY <1>13 DEF Record
<1>14. CASE TruncateIndex(p)
  BY <1>14 DEF TruncateIndex
<1>15. CASE WriteIndex(p)
  BY <1>15 DEF WriteIndex
<1>16. CASE Save(p)
  BY <1>16, <1>f DEF Save
<1>17. CASE CopyBlock(p)
  BY <1>17, <1>f DEF CopyBlock
<1>18. CASE Abort(p)
  BY <1>18, <1>f DEF Abort
<1> QED
  BY <1>1, <1>2, <1>3, <1>4, <1>5, <1>7, <1>8, <1>9, <1>10,
     <1>12, <1>13, <1>14, <1>15, <1>16, <1>17, <1>18 DEF Step, Disturbance

(* What the two actions that open a file do: the file is the one their key  *)
(* is linked to, or one nobody has.                                         *)
Opens(p) ==
    \E i \in Inodes :
        /\ link[KeyOf(p)] = i \/ i \in FreeInodes
        /\ link' = [link EXCEPT ![KeyOf(p)] = i]
        /\ handle' = [handle EXCEPT ![p] = i]
        /\ req' = req
        /\ pc'[p] \in {"checkDir", "write"}

LEMMA OpensStep ==
    ASSUME TypeInv, NEW p \in Procs, OpenCached(p) \/ CreateData(p)
    PROVE  Opens(p) \/ OpensNothing(p)
<1> USE DEF TypeInv, TypeOK
<1>k. KeyOf(p) \in Keys
  BY KeyType DEF KeyOf
<1>1. CASE OpenCached(p)
  <2>1. CASE link[KeyOf(p)] = NoInode
    BY <1>1, <2>1 DEF OpenCached, OpensNothing, Finish, disk
  <2>2. CASE link[KeyOf(p)] # NoInode
    <3>1. link[KeyOf(p)] \in Inodes
      BY <1>k, <2>2
    <3>2. link' = [link EXCEPT ![KeyOf(p)] = link[KeyOf(p)]]
      BY <1>1, <1>k DEF OpenCached, disk
    <3> QED
      BY <1>1, <2>2, <3>1, <3>2 DEF OpenCached, Opens, Goto
  <2> QED
    BY <2>1, <2>2
<1>2. CASE CreateData(p)
  BY <1>2, <1>k DEF CreateData, Opens, FreeInodes, Goto
<1> QED
  BY <1>1, <1>2

LEMMA OwnershipStep == TypeInv /\ OwnershipInv /\ [Next]_vars => OwnershipInv'
<1> SUFFICES ASSUME TypeInv, OwnershipInv, [Next]_vars PROVE OwnershipInv'
  OBVIOUS
<1> USE DEF TypeInv, TypeOK, OwnershipInv, LinksDistinct
<1>1. ASSUME NEW p \in Procs, OthersSame(p), OpensNothing(p)
      PROVE  OwnershipInv'
  <2>1. \A q \in Procs : handle'[q] # NoInode =>
          /\ handle'[q] = handle[q]
          /\ req'[q] = req[q]
          /\ pc'[q] \in {"checkDir", "write", "copy"}
    BY <1>1 DEF OthersSame, OpensNothing
  <2>2. LinksDistinct'
    BY <1>1 DEF OpensNothing
  <2>3. ASSUME NEW q \in Procs, handle'[q] # NoInode
        PROVE  /\ \A k \in Keys : link'[k] = handle'[q] => k = KeyOf(q)'
               /\ \A r \in Procs : handle'[r] = handle'[q] => KeyOf(r)' = KeyOf(q)'
    BY <1>1, <2>1, <2>3 DEF OpensNothing, KeyOf
  <2> QED
    BY <2>1, <2>2, <2>3
<1>2. ASSUME NEW p \in Procs, OthersSame(p), Opens(p)
      PROVE  OwnershipInv'
  <2>k. \A q \in Procs : KeyOf(q) \in Keys /\ KeyOf(q)' = KeyOf(q)
    BY <1>2, KeyType DEF KeyOf, Opens
  <2>1. PICK i \in Inodes :
          /\ link[KeyOf(p)] = i \/ i \in FreeInodes
          /\ link' = [link EXCEPT ![KeyOf(p)] = i]
          /\ handle' = [handle EXCEPT ![p] = i]
          /\ pc'[p] \in {"checkDir", "write"}
    BY <1>2 DEF Opens
  <2>2. i # NoInode
    BY SentinelsAssumption
  <2>3. /\ \A k \in Keys : link[k] = i => k = KeyOf(p)
        /\ \A q \in Procs : handle[q] = i => KeyOf(q) = KeyOf(p)
    BY <2>1, <2>2, <2>k DEF FreeInodes, Opened
  <2>4. LinksDistinct'
    BY <2>1, <2>3, <2>k
  <2>5. ASSUME NEW q \in Procs, handle'[q] # NoInode
        PROVE  /\ pc'[q] \in {"checkDir", "write", "copy"}
               /\ \A k \in Keys : link'[k] = handle'[q] => k = KeyOf(q)'
               /\ \A r \in Procs : handle'[r] = handle'[q] => KeyOf(r)' = KeyOf(q)'
    <3>1. CASE q = p
      BY <2>1, <2>3, <2>k, <3>1
    <3>2. CASE q # p
      BY <1>2, <2>1, <2>3, <2>5, <2>k, <3>2 DEF OthersSame
    <3> QED
      BY <3>1, <3>2
  <2> QED
    BY <2>4, <2>5
<1>3. ASSUME NEW p \in Procs, Start(p) \/ Step(p) \/ Disturbance(p)
      PROVE  OwnershipInv'
  BY <1>1, <1>2, <1>3, Frame, OpensNothingStep, OpensStep
<1>4. CASE Tick \/ SetClockBack \/ UNCHANGED vars
  BY <1>4 DEF Tick, SetClockBack, vars, disk, local, KeyOf
<1> QED
  BY <1>3, <1>4 DEF Next

-----------------------------------------------------------------------------
(* What is in the files, for any number of users of one manifest.           *)

(* The data files are left alone, or one is emptied, or p writes a block.   *)
LEMMA ContentStep ==
    ASSUME TypeInv, NEW p \in Procs, Start(p) \/ Step(p) \/ Disturbance(p)
    PROVE  \/ content' = content
           \/ \E i \in Inodes : content' = [content EXCEPT ![i] = Nothing]
           \/ WriteData(p)
<1> USE DEF TypeInv, TypeOK
<1>k. KeyOf(p) \in Keys
  BY KeyType DEF KeyOf
<1>1. CASE Unlink(p)
  BY <1>1, <1>k DEF Unlink
<1>2. CASE CreateData(p)
  BY <1>2, <1>k DEF CreateData, FreeInodes
<1>3. CASE ~Unlink(p) /\ ~CreateData(p) /\ ~WriteData(p)
  BY <1>3 DEF Step, Disturbance, Start, LoadIndex, ResolveFails, Lookup,
     OpenCached, Choose, InvalidDirectory, Fetch, FetchFails, Record,
     TruncateIndex, WriteIndex, Save, CopyBlock, Abort, disk
<1> QED
  BY <1>1, <1>2, <1>3

(* Only Fetch, Save and CopyBlock bring in blocks from elsewhere.           *)
LEMMA ResponseStep ==
    ASSUME SharedInv, NEW p \in Procs, Start(p) \/ Step(p) \/ Disturbance(p)
    PROVE  pc'[p] \in {"create", "write", "truncate", "writeIndex", "save"} =>
             Answers(resp'[p], req'[p])
<1> USE DEF SharedInv, TypeInv, TypeOK, CleanInv, At, Goto, local
<1>f. ASSUME NEW o \in Successes \cup Failures, Finish(p, o)
      PROVE  pc'[p] \notin {"create", "write", "truncate", "writeIndex", "save"}
  BY <1>f DEF Finish, Successes, Failures
<1>1. CASE Fetch(p)
  <2>1. ASSUME NEW c \in Controls,
               resp' = [resp EXCEPT ![p] = [resource |-> req[p].resource,
                           version |-> req[p].version, control |-> c]],
               req' = req
        PROVE  Answers(resp'[p], req'[p])
    BY <2>1 DEF Answers, Source
  <2> QED
    BY <1>1, <1>f, <2>1 DEF Fetch, Failures
<1>2. CASE CreateData(p) \/ WriteData(p) \/ Record(p) \/ TruncateIndex(p) \/ WriteIndex(p)
  BY <1>2 DEF CreateData, WriteData, Record, TruncateIndex, WriteIndex
<1>3. CASE Start(p) \/ Lookup(p) \/ Choose(p)
  BY <1>3 DEF Start, Lookup, Choose
<1>4. CASE LoadIndex(p) \/ Unlink(p) \/ OpenCached(p)
  BY <1>4, <1>f DEF LoadIndex, Unlink, OpenCached, Failures
<1>5. CASE Save(p) \/ CopyBlock(p)
  BY <1>5, <1>f DEF Save, CopyBlock, Successes
<1>6. CASE Disturbance(p)
  BY <1>6, <1>f DEF Disturbance, ResolveFails, InvalidDirectory, FetchFails,
     Abort, Failures
<1> QED
  BY <1>1, <1>2, <1>3, <1>4, <1>5, <1>6 DEF Step

LEMMA CleanStep ==
    ASSUME OneManifest, SharedInv, NEW p \in Procs,
           Start(p) \/ Step(p) \/ Disturbance(p)
    PROVE  CleanInv'
<1> USE DEF SharedInv, TypeInv, TypeOK
<1>o. OthersSame(p)
  BY Frame
<1>k. \A q \in Procs : KeyOf(q) \in Keys
  BY KeyType DEF KeyOf
<1>1. \A i \in Inodes, k \in Keys : Clean(i, k) =>
        Clean(i, k)' \/ (WriteData(p) /\ i = handle[p] /\ k # KeyOf(p))
  <2>1. CASE content' = content
    BY <2>1 DEF Clean
  <2>2. CASE \E i \in Inodes : content' = [content EXCEPT ![i] = Nothing]
    BY <2>2 DEF Clean, Nothing
  <2>3. CASE WriteData(p)
    <3>1. /\ pc[p] = "write" /\ pos[p] \in Blocks
          /\ content' = [content EXCEPT ![handle[p]] =
                            [content[handle[p]] EXCEPT ![pos[p]] = resp[p]]]
      BY <2>3 DEF WriteData, At
    <3>2. handle[p] \in Inodes
      BY <3>1 DEF Shape
    <3>3. content[handle[p]] \in Contents
      BY <3>2
    <3>4. \A r \in Requests : Key(r) = KeyOf(p) => Answers(resp[p], r)
      BY <3>1 DEF CleanInv, OneManifest, KeyOf, Answers
    <3>5. ASSUME NEW i \in Inodes, NEW k \in Keys, Clean(i, k),
                 i # handle[p] \/ k = KeyOf(p)
          PROVE  Clean(i, k)'
      BY <3>1, <3>2, <3>3, <3>4, <3>5 DEF Clean, Contents
    <3> QED
      BY <2>3, <3>5
  <2> QED
    BY <2>1, <2>2, <2>3, ContentStep
<1>2. \A k \in Keys, i \in Inodes :
        link[k] = i \/ (\E q \in Procs : handle[q] = i /\ KeyOf(q) = k) => Clean(i, k)'
  BY <1>1, SentinelsAssumption DEF CleanInv, OwnershipInv, LinksDistinct, WriteData, At, Shape
<1>3. ASSUME NEW k \in Keys, NEW i \in Inodes,
             link'[k] = i \/ \E q \in Procs : handle'[q] = i /\ KeyOf(q)' = k
      PROVE  Clean(i, k)'
  <2>1. CASE OpensNothing(p)
    <3>1. link[k] = i \/ \E q \in Procs : handle[q] = i /\ KeyOf(q) = k
      BY <1>3, <1>o, <2>1, SentinelsAssumption DEF OpensNothing, OthersSame, KeyOf
    <3> QED
      BY <1>2, <3>1
  <2>2. CASE OpenCached(p) /\ ~OpensNothing(p)
    <3>1. link' = link /\ handle' = [handle EXCEPT ![p] = link[KeyOf(p)]] /\ req' = req
      BY <2>2 DEF OpenCached, disk, OpensNothing, Finish
    <3>2. link[k] = i \/ \E q \in Procs : handle[q] = i /\ KeyOf(q) = k
      BY <1>3, <3>1 DEF KeyOf
    <3> QED
      BY <1>2, <3>2
  <2>3. CASE CreateData(p)
    <3>1. PICK j \in Inodes :
            /\ link' = [link EXCEPT ![KeyOf(p)] = j]
            /\ content' = [content EXCEPT ![j] = Nothing]
            /\ handle' = [handle EXCEPT ![p] = j]
            /\ req' = req
      BY <1>k, <2>3 DEF CreateData, FreeInodes
    <3>2. CASE i = j
      BY <3>1, <3>2 DEF Clean, Nothing
    <3>3. CASE i # j
      <4>1. link[k] = i \/ \E q \in Procs : handle[q] = i /\ KeyOf(q) = k
        BY <1>3, <1>k, <3>1, <3>3 DEF KeyOf
      <4> QED
        BY <1>2, <4>1
    <3> QED
      BY <3>2, <3>3
  <2> QED
    BY <2>1, <2>2, <2>3, OpensNothingStep
<1>4. ASSUME NEW q \in Procs,
             pc'[q] \in {"create", "write", "truncate", "writeIndex", "save"}
      PROVE  Answers(resp'[q], req'[q])
  BY <1>o, <1>4, ResponseStep DEF OthersSame, CleanInv
<1> QED
  BY <1>3, <1>4 DEF CleanInv

(* Every block that reaches a download directory was asked for.             *)
LEMMA ForeignStep ==
    ASSUME SharedInv, NEW p \in Procs, Start(p) \/ Step(p) \/ Disturbance(p)
    PROVE  NoForeignBytes'
<1> SUFFICES ASSUME NEW q \in Procs, NEW b \in Blocks, out'[q][b] # NoData
             PROVE  Answers(out'[q][b], req'[q])
  BY DEF NoForeignBytes
<1> USE DEF SharedInv, TypeInv, TypeOK, At
<1>1. CASE q # p
  BY <1>1, Frame DEF OthersSame, NoForeignBytes
<1>2. CASE q = p /\ out' = out /\ req' = req
  BY <1>2 DEF NoForeignBytes
<1>3. CASE q = p /\ Start(p)
  BY <1>3 DEF Start, Nothing
<1>4. CASE q = p /\ Save(p)
  BY <1>4 DEF Save, Body, CleanInv
<1>5. CASE q = p /\ CopyBlock(p)
  <2>1. CASE out' = out
    BY <1>2, <1>5, <2>1 DEF CopyBlock
  <2>2. CASE out' # out
    <3>1. /\ pc[p] = "copy" /\ req' = req
          /\ out' = [out EXCEPT ![p] =
                        [out[p] EXCEPT ![pos[p]] = content[handle[p]][pos[p]]]]
      BY <1>5, <2>2 DEF CopyBlock
    <3>2. handle[p] \in Inodes /\ KeyOf(p) \in Keys
      BY <3>1, KeyType DEF Shape, KeyOf
    <3>3. Clean(handle[p], KeyOf(p))
      BY <3>2 DEF CleanInv
    <3>4. content[handle[p]][b] # NoData => Answers(content[handle[p]][b], req[p])
      BY <3>3 DEF Clean, KeyOf
    <3> QED
      BY <1>5, <3>1, <3>4 DEF NoForeignBytes, Contents
  <2> QED
    BY <2>1, <2>2
<1>6. CASE q = p /\ ~Start(p) /\ ~Save(p) /\ ~CopyBlock(p)
  <2>1. out' = out /\ req' = req
    BY <1>6 DEF Step, Disturbance, LoadIndex, ResolveFails, Lookup, Unlink,
       OpenCached, Choose, InvalidDirectory, Fetch, FetchFails, CreateData,
       WriteData, Record, TruncateIndex, WriteIndex, Abort
  <2> QED
    BY <1>2, <1>6, <2>1
<1> QED
  BY <1>1, <1>3, <1>4, <1>5, <1>6

LEMMA SharedInvStep ==
    ASSUME OneManifest
    PROVE  SharedInv /\ [Next]_vars => SharedInv'
<1> SUFFICES ASSUME SharedInv, [Next]_vars PROVE SharedInv'
  OBVIOUS
<1>1. TypeInv' /\ OwnershipInv'
  BY TypeInvStep, OwnershipStep DEF SharedInv
<1>2. ASSUME NEW p \in Procs, Start(p) \/ Step(p) \/ Disturbance(p)
      PROVE  CleanInv' /\ NoForeignBytes'
  BY <1>2, CleanStep, ForeignStep
<1>3. CASE Tick \/ SetClockBack \/ UNCHANGED vars
  <2>1. UNCHANGED <<link, content, pc, req, handle, resp, out>>
    BY <1>3 DEF Tick, SetClockBack, vars, disk, local
  <2>2. CleanInv' /\ NoForeignBytes'
    BY <2>1 DEF SharedInv, CleanInv, Clean, KeyOf, NoForeignBytes
  <2> QED
    BY <1>1, <2>2 DEF SharedInv
<1> QED
  BY <1>1, <1>2, <1>3 DEF Next, SharedInv

LEMMA SharedInvInit == Init => SharedInv
<1> SUFFICES ASSUME Init PROVE SharedInv
  OBVIOUS
<1>1. TypeInv
  BY TypeInvInit
<1>2. OwnershipInv
  BY DEF Init, OwnershipInv, LinksDistinct
<1>3. CleanInv
  BY DEF Init, CleanInv, Clean, Nothing
<1>4. NoForeignBytes
  BY DEF Init, NoForeignBytes, Nothing
<1> QED
  BY <1>1, <1>2, <1>3, <1>4 DEF SharedInv

(* Users of one manifest never get a block of another plugin or version,    *)
(* whatever their processes do to each other's files, and whatever fails.   *)
THEOREM SharedCacheIsClean ==
    ASSUME OneManifest
    PROVE  Spec => []NoForeignBytes
<1>1. SharedInv => NoForeignBytes
  BY DEF SharedInv
<1> QED
  BY <1>1, SharedInvInit, SharedInvStep, PTL DEF Spec

-----------------------------------------------------------------------------
(* A block that is missing stays to be written: who empties a file writes   *)
(* it from the start, and who has written a block cannot miss it later.     *)
LEMMA MissingStep ==
    ASSUME TypeInv, OwnershipInv, MissingBlocksAreComing, "abort" \notin Faults,
           NEW p \in Procs, Start(p) \/ Step(p) \/ Disturbance(p)
    PROVE  MissingBlocksAreComing'
<1> USE DEF TypeInv, TypeOK, At, Goto, disk, local
<1>k. KeyOf(p) \in Keys
  BY KeyType DEF KeyOf
<1>n. NBlocks \in Nat \ {0} /\ Blocks = 1..NBlocks
  BY DownloadAssumption DEF Blocks
<1>o. OthersSame(p)
  BY Frame
<1> SUFFICES ASSUME NEW k \in Keys, NEW b \in Blocks, link'[k] # NoInode,
                    content'[link'[k]][b] = NoData
             PROVE  \E q \in Procs :
                      pc'[q] = "write" /\ handle'[q] = link'[k] /\ pos'[q] <= b
  BY DEF MissingBlocksAreComing
<1>1. CASE CreateData(p)
  <2>1. PICK i \in Inodes :
          /\ link[KeyOf(p)] = i \/ i \in FreeInodes
          /\ link' = [link EXCEPT ![KeyOf(p)] = i]
          /\ content' = [content EXCEPT ![i] = Nothing]
          /\ handle' = [handle EXCEPT ![p] = i]
    BY <1>1, <1>k DEF CreateData, FreeInodes
  <2>2. pc'[p] = "write" /\ pos'[p] = 1 /\ handle'[p] = i
    BY <1>1, <2>1 DEF CreateData
  <2>3. CASE link'[k] = i
    BY <1>n, <2>2, <2>3
  <2>4. CASE link'[k] # i
    <3>1. link'[k] = link[k] /\ link[k] \in Inodes /\ content'[link[k]] = content[link[k]]
      BY <1>k, <2>1, <2>4
    <3>2. PICK q \in Procs : pc[q] = "write" /\ handle[q] = link[k] /\ pos[q] <= b
      BY <3>1 DEF MissingBlocksAreComing
    <3>3. q # p
      BY <1>1, <3>2 DEF CreateData
    <3> QED
      BY <1>o, <3>1, <3>2, <3>3 DEF OthersSame
  <2> QED
    BY <2>3, <2>4
<1>2. CASE WriteData(p)
  <2>1. /\ pc[p] = "write" /\ pos[p] \in Blocks /\ handle[p] \in Inodes
        /\ UNCHANGED <<link, pc, handle>>
        /\ content' = [content EXCEPT ![handle[p]] = [content[handle[p]] EXCEPT ![pos[p]] = resp[p]]]
        /\ pos' = [pos EXCEPT ![p] = pos[p] + 1]
        /\ resp[p] # NoData
    BY <1>2, SentinelsAssumption DEF WriteData, Shape
  <2>2. content[link[k]][b] = NoData /\ ~(link[k] = handle[p] /\ pos[p] = b)
    BY <2>1 DEF Contents
  <2>3. PICK q \in Procs : pc[q] = "write" /\ handle[q] = link[k] /\ pos[q] <= b
    BY <2>1, <2>2 DEF MissingBlocksAreComing
  <2>4. pos'[q] <= b
    BY <1>n, <2>1, <2>2, <2>3
  <2> QED
    BY <2>1, <2>3, <2>4
<1>3. CASE Unlink(p)
  <2>1. /\ pc[p] = "unlink" /\ link'[k] = link[k] /\ link[k] # NoInode
        /\ content'[link[k]] = content[link[k]]
    BY <1>3, <1>k DEF Unlink, OwnershipInv, LinksDistinct
  <2>2. PICK q \in Procs : pc[q] = "write" /\ handle[q] = link[k] /\ pos[q] <= b
    BY <2>1 DEF MissingBlocksAreComing
  <2> QED
    BY <1>o, <2>1, <2>2 DEF OthersSame
<1>4. CASE ~CreateData(p) /\ ~WriteData(p) /\ ~Unlink(p)
  <2>1. link' = link /\ content' = content
    BY <1>4 DEF Step, Disturbance, Start, LoadIndex, ResolveFails, Lookup,
       OpenCached, Choose, InvalidDirectory, Fetch, FetchFails, Record,
       TruncateIndex, WriteIndex, Save, CopyBlock, Abort
  <2>2. PICK q \in Procs : pc[q] = "write" /\ handle[q] = link[k] /\ pos[q] <= b
    BY <2>1 DEF MissingBlocksAreComing
  <2>3. q # p
    <3>1. SUFFICES ASSUME q = p PROVE FALSE
      OBVIOUS
    <3>2. Record(p)
      BY <1>4, <2>2, <3>1 DEF Step, Disturbance, Start, LoadIndex, ResolveFails, Lookup,
         OpenCached, Choose, InvalidDirectory, Fetch, FetchFails, TruncateIndex,
         WriteIndex, Save, CopyBlock, Abort, Ended, Successes, Failures
    <3> QED
      BY <1>n, <2>2, <3>1, <3>2 DEF Record
  <2> QED
    BY <1>o, <2>1, <2>2, <2>3 DEF OthersSame
<1> QED
  BY <1>1, <1>2, <1>3, <1>4

(* Any number of users may replace, delete and recreate each other's data   *)
(* files at once, with any clock and any failing request: as long as none   *)
(* of their processes is killed, a file that nobody is writing has no hole  *)
(* and no missing end (cache_file, delete_cached_file).                     *)
THEOREM FilesAreCompleted ==
    ASSUME "abort" \notin Faults
    PROVE  Spec => []MissingBlocksAreComing
<1> DEFINE Inv == TypeInv /\ OwnershipInv /\ MissingBlocksAreComing
<1>1. Init => Inv
  BY TypeInvInit DEF Init, OwnershipInv, LinksDistinct, MissingBlocksAreComing
<1>2. Inv /\ [Next]_vars => Inv'
  <2> SUFFICES ASSUME Inv, [Next]_vars PROVE MissingBlocksAreComing'
    BY TypeInvStep, OwnershipStep
  <2>1. CASE Tick \/ SetClockBack \/ UNCHANGED vars
    <3>1. UNCHANGED <<link, content, pc, handle, pos>>
      BY <2>1 DEF Tick, SetClockBack, vars, disk, local
    <3> QED
      BY <3>1 DEF MissingBlocksAreComing
  <2>2. ASSUME NEW p \in Procs, Start(p) \/ Step(p) \/ Disturbance(p)
        PROVE  MissingBlocksAreComing'
    BY <2>2, MissingStep
  <2> QED
    BY <2>1, <2>2 DEF Next
<1> QED
  BY <1>1, <1>2, PTL DEF Spec

-----------------------------------------------------------------------------
(* One user.  An outdated entry stays outdated while the clock runs on.     *)
LEMMA OutdatedForGood ==
    ASSUME NEW e \in Entries, NEW t \in Instants, NEW u \in Instants, t <= u,
           IsOutdated(e, t)
    PROVE  IsOutdated(e, u)
<1>1. e.ttl \in Nat /\ e.added \in Int
  BY DEF IsOutdated, Entries, Instants
<1> QED
  BY <1>1 DEF IsOutdated, Instants

(* What is on offer later was on offer before.                              *)
LEMMA LiveShrinks ==
    ASSUME NEW index \in Index, NEW t \in Instants, NEW u \in Instants, t <= u
    PROVE  LiveKeys(index, u) \subseteq LiveKeys(index, t)
BY OutdatedForGood DEF LiveKeys, Index

(* An index describes the files as long as the files it has on offer, and   *)
(* their names, stay as they are.                                           *)
LEMMA DescribedStep ==
    ASSUME NEW index, NEW t, NEW u,
           IndexDescribesFiles(index, t),
           LiveKeys(index, u) \subseteq LiveKeys(index, t),
           \A k \in LiveKeys(index, u) :
               link'[k] = link[k] /\ content'[link[k]] = content[link[k]]
    PROVE  IndexDescribesFiles(index, u)'
<1> SUFFICES ASSUME NEW k \in LiveKeys(index, u)
             PROVE  \E i \in Inodes : link'[k] = i /\ Describes(index[k], k, i)'
  BY DEF IndexDescribesFiles
<1>1. PICK i \in Inodes : link[k] = i /\ Describes(index[k], k, i)
  BY DEF IndexDescribesFiles
<1>2. Describes(index[k], k, i)'
  BY <1>1 DEF Describes, Holds
<1> QED
  BY <1>1, <1>2

(* p touches no file but its own key's.                                     *)
LEMMA OtherFilesSame ==
    ASSUME SerialInv, NEW p \in Procs, Unlink(p) \/ CreateData(p) \/ WriteData(p),
           NEW k \in Keys, k # KeyOf(p), link[k] # NoInode
    PROVE  link'[k] = link[k] /\ content'[link[k]] = content[link[k]]
<1> USE DEF SerialInv, SharedInv, TypeInv, TypeOK, OwnershipInv, LinksDistinct
<1>k. KeyOf(p) \in Keys
  BY KeyType DEF KeyOf
<1>1. CASE Unlink(p)
  BY <1>1, <1>k DEF Unlink
<1>2. CASE CreateData(p)
  BY <1>2, <1>k DEF CreateData, FreeInodes
<1>3. CASE WriteData(p)
  BY <1>3, <1>k DEF WriteData, DataInv, At
<1> QED
  BY <1>1, <1>2, <1>3

(* While p replaces its data file, nothing on offer is touched.             *)
LEMMA OfferedSame ==
    ASSUME SerialInv, NEW p \in Procs, Unlink(p) \/ CreateData(p) \/ WriteData(p)
    PROVE  LiveEntriesComplete'
<1> USE DEF SerialInv, SharedInv, TypeInv, TypeOK
<1>1. indexFile' = indexFile /\ now' = now
  BY DEF Unlink, CreateData, WriteData
<1>2. NotOffered(p) /\ Readable(indexFile)
  BY DEF Unlink, CreateData, WriteData, At, IndexInv, BeforeSync
<1>3. PICK index, t : index = indexFile.plugins /\ t = now
  OBVIOUS
<1>4. IndexDescribesFiles(index, t)
  BY <1>2, <1>3 DEF LiveEntriesComplete
<1>5. ASSUME NEW k \in LiveKeys(index, t)
      PROVE  link'[k] = link[k] /\ content'[link[k]] = content[link[k]]
  <2>1. k # KeyOf(p) /\ k \in Keys /\ link[k] # NoInode
    BY <1>2, <1>3, <1>4, <1>5, SentinelsAssumption
       DEF NotOffered, IndexDescribesFiles, LiveKeys
  <2> QED
    BY <2>1, OtherFilesSame
<1>6. IndexDescribesFiles(index, t)'
  BY <1>4, <1>5, DescribedStep
<1> QED
  BY <1>1, <1>3, <1>6 DEF LiveEntriesComplete, IndexDescribesFiles

LEMMA LiveStep ==
    ASSUME SerialInv, NEW p \in Procs, Start(p) \/ Step(p) \/ Disturbance(p)
    PROVE  LiveEntriesComplete'
<1> USE DEF SerialInv, SharedInv, TypeInv, TypeOK
<1>1. CASE Unlink(p) \/ CreateData(p) \/ WriteData(p)
  BY <1>1, OfferedSame
<1>2. CASE TruncateIndex(p)
  BY <1>2 DEF TruncateIndex, LiveEntriesComplete, Readable, EmptyFile
<1>3. CASE WriteIndex(p)
  <2>1. /\ indexFile' = FileOf(mem[p])
        /\ UNCHANGED <<now, link, content, mem>>
    BY <1>3 DEF WriteIndex, Overwritten, IndexInv, At, local
  <2>2. PICK index, t : index = mem[p] /\ t = now
    OBVIOUS
  <2>3. IndexDescribesFiles(index, t)
    BY <1>3, <2>2 DEF WriteIndex, IndexInv, At
  <2>4. IndexDescribesFiles(index, t)'
    BY <2>1, <2>3 DEF IndexDescribesFiles, Describes, Holds
  <2> QED
    BY <2>1, <2>2, <2>4 DEF LiveEntriesComplete, FileOf, IndexDescribesFiles
<1>4. CASE /\ ~Unlink(p) /\ ~CreateData(p) /\ ~WriteData(p)
           /\ ~TruncateIndex(p) /\ ~WriteIndex(p)
  <2>1. UNCHANGED <<now, indexFile, link, content>>
    BY <1>4 DEF Step, Disturbance, Start, LoadIndex, ResolveFails, Lookup,
       OpenCached, Choose, InvalidDirectory, Fetch, FetchFails, Record, Save,
       CopyBlock, Abort, disk
  <2> QED
    BY <2>1 DEF LiveEntriesComplete, IndexDescribesFiles, Describes, Holds
<1> QED
  BY <1>1, <1>2, <1>3, <1>4

(* The entry p records describes the data file p has just written.          *)
LEMMA RecordStep ==
    ASSUME SerialInv, NEW p \in Procs, Record(p)
    PROVE  IndexDescribesFiles(mem[p], now)'
<1> USE DEF SerialInv, SharedInv, TypeInv, TypeOK
<1>1. /\ pc[p] = "write" /\ pos[p] \notin Blocks
      /\ mem'[p] = [mem[p] EXCEPT ![KeyOf(p)] =
                       [ttl |-> ResponseTtl(resp[p].control), added |-> now]]
      /\ UNCHANGED <<now, indexFile, link, content, resp>>
  BY DEF Record, At, disk
<1>2. KeyOf(p) \in Keys /\ req[p] \in Requests /\ Key(req[p]) = KeyOf(p)
  BY KeyType DEF KeyOf
<1>3. PICK index, t, i : /\ index = mem'[p] /\ t = now
                         /\ i = handle[p]
  OBVIOUS
<1>4. i \in Inodes /\ link[KeyOf(p)] = i
  BY <1>1, <1>3 DEF Shape, DataInv
<1>5. content[i] = Body(resp[p])
  <2>1. \A b \in Blocks : b < pos[p]
    BY <1>1, DownloadAssumption DEF Blocks
  <2>2. content[i] \in Contents
    BY <1>4
  <2> QED
    BY <1>1, <1>3, <2>1, <2>2 DEF DataInv, Body, Contents
<1>6. resp[p] \in Payloads /\ Answers(resp[p], req[p])
  BY <1>1 DEF Shape, CleanInv
<1>7. Describes(index[KeyOf(p)], KeyOf(p), i)
  <2>1. index[KeyOf(p)].ttl = ResponseTtl(resp[p].control)
    BY <1>1, <1>2, <1>3 DEF Index
  <2> QED
    BY <1>2, <1>5, <1>6, <2>1 DEF Describes, Holds
<1>8. ASSUME NEW k \in LiveKeys(index, t)
      PROVE  \E j \in Inodes : link[k] = j /\ Describes(index[k], k, j)
  <2>1. CASE k = KeyOf(p)
    BY <1>4, <1>7, <2>1
  <2>2. CASE k # KeyOf(p)
    <3>1. index[k] = indexFile.plugins[k]
      BY <1>1, <1>3, <2>2, <1>8 DEF IndexInv, FollowsDisk, BeforeSync, Index, LiveKeys
    <3>2. k \in LiveKeys(indexFile.plugins, now)
      BY <1>3, <1>8, <3>1 DEF LiveKeys
    <3> QED
      BY <1>1, <3>1, <3>2
         DEF LiveEntriesComplete, IndexDescribesFiles, IndexInv, BeforeSync
  <2> QED
    BY <2>1, <2>2
<1>9. IndexDescribesFiles(index, t)'
  BY <1>1, <1>8 DEF IndexDescribesFiles, Describes, Holds
<1> QED
  BY <1>1, <1>3, <1>9 DEF IndexDescribesFiles

LEMMA IndexStep ==
    ASSUME SerialInv, NEW p \in Procs, Start(p) \/ Step(p) \/ Disturbance(p)
    PROVE  IndexInv(p)'
<1> USE DEF SerialInv, SharedInv, TypeInv, TypeOK, At, Goto, disk, local
<1>k. KeyOf(p) \in Keys
  BY KeyType DEF KeyOf
<1>f. ASSUME NEW o \in Successes \cup Failures, Finish(p, o) PROVE IndexInv(p)'
  <2>1. pc'[p] = o
    BY <1>f DEF Finish
  <2> QED
    BY <2>1 DEF IndexInv, BeforeSync, Successes, Failures
<1>1. CASE Start(p)
  BY <1>1 DEF Start, IndexInv, BeforeSync
<1>2. CASE LoadIndex(p)
  <2>1. CASE Readable(indexFile)
    BY <1>2, <2>1 DEF LoadIndex, IndexInv, BeforeSync, Readable, FollowsDisk, SameEntry, KeyOf
  <2> QED
    BY <1>2, <1>f, <2>1 DEF LoadIndex, Failures
<1>3. CASE ResolveFails(p)
  BY <1>3, <1>f DEF ResolveFails, Failures
<1>4. CASE Lookup(p)
  <2>1. handle[p] = NoInode
    BY <1>4 DEF Lookup, OwnershipInv
  <2>2. /\ Readable(indexFile) /\ FollowsDisk(p) /\ SameEntry(p)
        /\ UNCHANGED <<now, indexFile, req, handle>>
    BY <1>4 DEF Lookup, IndexInv, BeforeSync
  <2>3. CASE mem[p][KeyOf(p)] = NoEntry
    BY <1>4, <2>1, <2>2, <2>3 DEF Lookup, IndexInv, BeforeSync, Readable,
       FollowsDisk, SameEntry, NotOffered, LiveKeys, KeyOf
  <2>4. CASE mem[p][KeyOf(p)] # NoEntry /\ IsOutdated(mem[p][KeyOf(p)], now)
    <3>1. /\ pc'[p] = "unlink"
          /\ \A k \in Keys : k # KeyOf(p) => mem'[p][k] = mem[p][k]
      BY <1>4, <2>4 DEF Lookup, Index
    <3>2. NotOffered(p)
      BY <2>2, <2>4 DEF NotOffered, SameEntry, LiveKeys
    <3> QED
      BY <2>2, <3>1, <3>2 DEF IndexInv, BeforeSync, Readable, FollowsDisk,
         NotOffered, LiveKeys, KeyOf
  <2>5. CASE mem[p][KeyOf(p)] # NoEntry /\ ~IsOutdated(mem[p][KeyOf(p)], now)
    BY <1>4, <2>2, <2>5 DEF Lookup, IndexInv, BeforeSync, Readable,
       FollowsDisk, SameEntry, KeyOf
  <2> QED
    BY <2>3, <2>4, <2>5
<1>5. CASE Unlink(p)
  <2>1. CASE link[KeyOf(p)] = NoInode
    BY <1>5, <1>f, <2>1 DEF Unlink, Failures
  <2>2. CASE link[KeyOf(p)] # NoInode
    <3>1. handle[p] = NoInode
      BY <1>5 DEF Unlink, OwnershipInv
    <3> QED
      BY <1>5, <2>2, <3>1 DEF Unlink, IndexInv, BeforeSync, Readable,
         FollowsDisk, NotOffered, LiveKeys, KeyOf
  <2> QED
    BY <2>1, <2>2
<1>6. CASE OpenCached(p)
  <2>1. CASE link[KeyOf(p)] = NoInode
    BY <1>6, <1>f, <2>1 DEF OpenCached, Failures
  <2>2. CASE link[KeyOf(p)] # NoInode
    BY <1>6, <2>2 DEF OpenCached, IndexInv, BeforeSync, Readable, FollowsDisk,
       SameEntry, KeyOf
  <2> QED
    BY <2>1, <2>2
<1>7. CASE Choose(p)
  <2>1. CASE handle[p] # NoInode /\ ~IsOutdated(mem[p][KeyOf(p)], now)
    BY <1>7, <2>1 DEF Choose, IndexInv, BeforeSync
  <2>2. CASE ~(handle[p] # NoInode /\ ~IsOutdated(mem[p][KeyOf(p)], now))
    <3>1. NotOffered(p)
      BY <1>7, <2>2 DEF Choose, IndexInv, NotOffered, SameEntry, LiveKeys
    <3> QED
      BY <1>7, <2>2, <3>1 DEF Choose, IndexInv, BeforeSync, Readable,
         FollowsDisk, NotOffered, LiveKeys, KeyOf
  <2> QED
    BY <2>1, <2>2
<1>8. CASE Disturbance(p)
  BY <1>8, <1>f DEF Disturbance, ResolveFails, InvalidDirectory, FetchFails,
     Abort, Failures
<1>9. CASE Fetch(p)
  BY <1>9, <1>f DEF Fetch, Failures, IndexInv, BeforeSync, Readable,
     FollowsDisk, NotOffered, LiveKeys, KeyOf
<1>11. CASE CreateData(p)
  BY <1>11 DEF CreateData, IndexInv, BeforeSync, Readable, FollowsDisk,
     NotOffered, LiveKeys, KeyOf
<1>12. CASE WriteData(p)
  BY <1>12 DEF WriteData, IndexInv, BeforeSync, Readable, FollowsDisk,
     NotOffered, LiveKeys, KeyOf
<1>13. CASE Record(p)
  <2>1. /\ pc'[p] = "truncate"
        /\ \A k \in Keys : k # KeyOf(p) => mem'[p][k] = mem[p][k]
        /\ UNCHANGED <<now, indexFile, req>>
    BY <1>13 DEF Record, Index
  <2>2. Readable(indexFile) /\ FollowsDisk(p) /\ NotOffered(p)
    BY <1>13 DEF Record, IndexInv, BeforeSync
  <2>3. IndexDescribesFiles(mem[p], now)'
    BY <1>13, RecordStep
  <2> QED
    BY <2>1, <2>2, <2>3 DEF IndexInv, BeforeSync, Readable, FollowsDisk,
       NotOffered, LiveKeys, KeyOf
<1>14. CASE TruncateIndex(p)
  <2>1. IndexDescribesFiles(mem[p], now)
    BY <1>14 DEF TruncateIndex, IndexInv
  <2>2. IndexDescribesFiles(mem[p], now)'
    BY <1>14, <2>1 DEF TruncateIndex, IndexDescribesFiles, Describes, Holds
  <2> QED
    BY <1>14, <2>2 DEF TruncateIndex, IndexInv, BeforeSync, EmptyFile
<1>15. CASE WriteIndex(p)
  BY <1>15 DEF WriteIndex, IndexInv, BeforeSync
<1>16. CASE Save(p)
  BY <1>16, <1>f DEF Save, Successes
<1>17. CASE CopyBlock(p)
  BY <1>17, <1>f DEF CopyBlock, Successes, IndexInv, BeforeSync
<1> QED
  BY <1>1, <1>2, <1>4, <1>5, <1>6, <1>7, <1>8, <1>9, <1>11, <1>12,
     <1>13, <1>14, <1>15, <1>16, <1>17 DEF Step

(* A file that is copied from the cache is the one the entry describes.     *)
LEMMA ChosenFile ==
    ASSUME OneManifest, SerialInv, NEW p \in Procs, Choose(p), pc'[p] = "copy"
    PROVE  \E d \in Payloads : Answers(d, req[p]) /\ Holds(handle[p], d)
<1> USE DEF SerialInv, SharedInv, TypeInv, TypeOK
<1>1. /\ pc[p] = "checkDir"
      /\ handle[p] # NoInode
      /\ ~IsOutdated(mem[p][KeyOf(p)], now)
  BY DEF Choose, At, Goto
<1>2. /\ Readable(indexFile)
      /\ SameEntry(p)
      /\ mem[p][KeyOf(p)] # NoEntry
      /\ handle[p] = link[KeyOf(p)]
  BY <1>1 DEF IndexInv, BeforeSync
<1>3. KeyOf(p) \in LiveKeys(indexFile.plugins, now)
  BY <1>1, <1>2, KeyType DEF KeyOf, SameEntry, LiveKeys
<1>4. PICK i \in Inodes : /\ link[KeyOf(p)] = i
                          /\ Describes(indexFile.plugins[KeyOf(p)], KeyOf(p), i)
  BY <1>2, <1>3 DEF LiveEntriesComplete, IndexDescribesFiles
<1>5. PICK d \in Payloads, r \in Requests :
          Key(r) = KeyOf(p) /\ Answers(d, r) /\ Holds(i, d)
  BY <1>4 DEF Describes
<1>6. Answers(d, req[p])
  BY <1>5 DEF OneManifest, KeyOf, Answers
<1> QED
  BY <1>2, <1>4, <1>5, <1>6

(* Copying reads one block of that file after the other, to the end.        *)
LEMMA CopyData ==
    ASSUME SerialInv, NEW p \in Procs, CopyBlock(p)
    PROVE  DataInv(p)'
<1> USE DEF SerialInv, SharedInv, TypeInv, TypeOK, At, Goto, disk
<1>1. /\ pc[p] = "copy" /\ handle[p] \in Inodes
      /\ UNCHANGED <<content, req>>
  BY DEF CopyBlock, Shape
<1>2. PICK d \in Payloads :
          /\ Answers(d, req[p])
          /\ Holds(handle[p], d)
          /\ \A b \in Blocks : b < pos[p] => out[p][b] = d
  BY <1>1 DEF DataInv
<1>3. content[handle[p]] = Body(d) /\ d # NoData
  BY <1>2, SentinelsAssumption DEF Holds
<1>b. NBlocks \in Nat \ {0} /\ pos[p] \in 1..NBlocks + 1 /\ out[p] \in Contents
  BY DownloadAssumption
<1>4. CASE DataFrom(content[handle[p]], pos[p])
  <2>1. /\ out'[p] = [out[p] EXCEPT ![pos[p]] = content[handle[p]][pos[p]]]
        /\ pos'[p] = pos[p] + 1
        /\ UNCHANGED <<pc, handle>>
    BY <1>4 DEF CopyBlock
  <2>2. \A b \in Blocks : b < pos'[p] => out'[p][b] = d
    BY <1>2, <1>3, <1>b, <2>1 DEF Body, Blocks, Contents
  <2> QED
    BY <1>1, <1>2, <2>1, <2>2
       DEF DataInv, Holds, Answers, Ended, Successes, Failures
<1>5. CASE ~DataFrom(content[handle[p]], pos[p])
  <2>1. pos[p] \notin Blocks
    BY <1>3, <1>5 DEF DataFrom, Body, Blocks
  <2>2. out[p] = Body(d)
    BY <1>2, <1>b, <2>1 DEF Body, Blocks, Contents
  <2>3. out' = out /\ pc'[p] = "cached" /\ pos'[p] = 1
    BY <1>5 DEF CopyBlock, Finish
  <2> QED
    BY <1>1, <1>2, <2>2, <2>3 DEF DataInv, Answers
<1> QED
  BY <1>4, <1>5

(* What is received, stored and delivered is one whole response.            *)
LEMMA DataStep ==
    ASSUME OneManifest, SerialInv, NEW p \in Procs,
           Start(p) \/ Step(p) \/ Disturbance(p)
    PROVE  DataInv(p)'
<1> USE DEF SerialInv, SharedInv, TypeInv, TypeOK, At, Goto, disk, local
<1>e. Ended = {"idle"} \cup Successes \cup Failures
  BY DEF Ended
<1>f. ASSUME NEW o \in Failures, Finish(p, o) PROVE DataInv(p)'
  <2>1. pc'[p] = o /\ pos'[p] = 1
    BY <1>f DEF Finish
  <2> QED
    BY <2>1 DEF DataInv, Successes, Failures
<1>1. CASE Start(p)
  BY <1>1 DEF Start, DataInv, Successes
<1>2. CASE LoadIndex(p)
  BY <1>2, <1>f DEF LoadIndex, DataInv, Successes, Failures
<1>3. CASE Disturbance(p)
  BY <1>3, <1>f DEF Disturbance, ResolveFails, InvalidDirectory, FetchFails,
     Abort, Failures
<1>4. CASE Lookup(p)
  BY <1>4 DEF Lookup, DataInv, Successes
<1>5. CASE Unlink(p)
  BY <1>5, <1>f DEF Unlink, DataInv, Successes, Failures
<1>6. CASE OpenCached(p)
  BY <1>6, <1>f DEF OpenCached, DataInv, Successes, Failures
<1>7. CASE Choose(p)
  <2>1. CASE pc'[p] = "copy"
    <3>1. PICK d \in Payloads : Answers(d, req[p]) /\ Holds(handle[p], d)
      BY <1>7, <2>1, ChosenFile
    <3>2. /\ UNCHANGED <<content, req, pos, out>> /\ handle'[p] = handle[p]
          /\ pos[p] = 1
      BY <1>7, <2>1 DEF Choose, DataInv
    <3>3. \A b \in Blocks : ~(b < pos[p])
      BY <3>2, DownloadAssumption DEF Blocks
    <3> QED
      BY <2>1, <3>1, <3>2, <3>3
         DEF DataInv, Holds, Answers, Ended, Successes, Failures
  <2>2. CASE pc'[p] # "copy"
    BY <1>7, <2>2, <1>e DEF Choose, DataInv, Successes, Failures
  <2> QED
    BY <2>1, <2>2
<1>8. CASE Fetch(p)
  BY <1>8, <1>f, <1>e DEF Fetch, DataInv, Successes, Failures
<1>9. CASE CreateData(p)
  <2>1. PICK i \in Inodes : /\ link' = [link EXCEPT ![KeyOf(p)] = i]
                            /\ handle' = [handle EXCEPT ![p] = i]
    BY <1>9, KeyType DEF CreateData, FreeInodes, KeyOf
  <2>2. /\ pc'[p] = "write" /\ pos'[p] = 1 /\ req' = req
        /\ handle'[p] = link'[KeyOf(p)]
    BY <1>9, <2>1, KeyType DEF CreateData, KeyOf
  <2>3. \A b \in Blocks : ~(b < pos'[p])
    BY <2>2, DownloadAssumption DEF Blocks
  <2> QED
    BY <1>e, <2>2, <2>3 DEF DataInv, KeyOf, Successes, Failures
<1>10. CASE WriteData(p)
  <2>1. /\ handle[p] \in Inodes /\ content[handle[p]] \in Contents
        /\ pc[p] = "write" /\ pos[p] \in Blocks
        /\ handle[p] = link[KeyOf(p)]
        /\ \A b \in Blocks : b < pos[p] => content[handle[p]][b] = resp[p]
    BY <1>10 DEF WriteData, Shape, DataInv
  <2>2. /\ content'[handle[p]] = [content[handle[p]] EXCEPT ![pos[p]] = resp[p]]
        /\ pos'[p] = pos[p] + 1
        /\ UNCHANGED <<pc, req, link, handle, resp>>
    BY <1>10, <2>1 DEF WriteData
  <2>3. \A b \in Blocks : b < pos'[p] => content'[handle[p]][b] = resp[p]
    <3> SUFFICES ASSUME NEW b \in Blocks, b < pos'[p]
                 PROVE  content'[handle[p]][b] = resp[p]
      OBVIOUS
    <3>0. b \in Int /\ pos[p] \in Int
      BY <2>1, DownloadAssumption DEF Blocks
    <3>1. b < pos[p] \/ b = pos[p]
      BY <2>2, <3>0
    <3>2. DOMAIN content[handle[p]] = Blocks
      BY <2>1 DEF Contents
    <3>3. content'[handle[p]][b] = IF b = pos[p] THEN resp[p]
                                   ELSE content[handle[p]][b]
      BY <2>2, <3>2
    <3> QED
      BY <2>1, <3>1, <3>3
  <2> QED
    BY <1>e, <2>1, <2>2, <2>3 DEF DataInv, KeyOf, Successes, Failures
<1>11. CASE Record(p)
  BY <1>11, <1>e DEF Record, DataInv, Successes, Failures
<1>12. CASE TruncateIndex(p)
  BY <1>12, <1>e DEF TruncateIndex, DataInv, Successes, Failures
<1>13. CASE WriteIndex(p)
  BY <1>13, <1>e DEF WriteIndex, DataInv, Successes, Failures
<1>14. CASE Save(p)
  <2>1. resp[p] \in Payloads /\ Answers(resp[p], req[p])
    BY <1>14 DEF Save, Shape, CleanInv
  <2>2. /\ out'[p] = Body(resp[p]) /\ req' = req
        /\ pc'[p] = "fresh" /\ pos'[p] = 1
    BY <1>14 DEF Save, Finish
  <2> QED
    BY <2>1, <2>2 DEF DataInv, Answers
<1>15. CASE CopyBlock(p)
  BY <1>15, CopyData
<1> QED
  BY <1>1, <1>2, <1>3, <1>4, <1>5, <1>6, <1>7, <1>8, <1>9, <1>10, <1>11, <1>12,
     <1>13, <1>14, <1>15 DEF Step

(* Time only takes versions off the offer.                                  *)
LEMMA TickStep ==
    ASSUME SerialInv, Tick
    PROVE  LiveEntriesComplete' /\ \A p \in Procs : IndexInv(p)' /\ DataInv(p)'
<1> USE DEF SerialInv, SharedInv, TypeInv, TypeOK, disk, local
<1>1. /\ now' \in Instants /\ now <= now'
      /\ UNCHANGED <<indexFile, link, content, pc, req, mem, handle, pos, resp, out>>
  BY InstantsInt DEF Tick, Instants
<1>2. ASSUME NEW index \in Index, IndexDescribesFiles(index, now)
      PROVE  IndexDescribesFiles(index, now)'
  <2>1. LiveKeys(index, now') \subseteq LiveKeys(index, now)
    BY <1>1, LiveShrinks
  <2>2. PICK t \in Instants : t = now'
    BY <1>1
  <2>3. IndexDescribesFiles(index, t)'
    BY <1>1, <1>2, <2>1, <2>2, DescribedStep
  <2> QED
    BY <2>2, <2>3 DEF IndexDescribesFiles, Describes, Holds
<1>3. LiveEntriesComplete'
  <2>1. PICK index \in Index : index = indexFile.plugins
    BY DEF IndexFiles
  <2>2. Readable(indexFile) => IndexDescribesFiles(index, now)'
    BY <1>2, <2>1 DEF LiveEntriesComplete
  <2> QED
    BY <1>1, <2>1, <2>2 DEF LiveEntriesComplete, IndexDescribesFiles
<1>4. ASSUME NEW p \in Procs PROVE IndexInv(p)'
  <2>1. NotOffered(p) => NotOffered(p)'
    <3>1. indexFile.plugins \in Index
      BY DEF IndexFiles
    <3> QED
      BY <1>1, <3>1, LiveShrinks DEF NotOffered, KeyOf
  <2>2. IndexDescribesFiles(mem[p], now) => IndexDescribesFiles(mem[p], now)'
    <3>1. PICK index \in Index : index = mem[p]
      OBVIOUS
    <3>2. IndexDescribesFiles(mem[p], now) => IndexDescribesFiles(index, now)'
      BY <1>2, <3>1
    <3> QED
      BY <1>1, <3>1, <3>2 DEF IndexDescribesFiles
  <2> QED
    BY <1>1, <2>1, <2>2 DEF IndexInv, FollowsDisk, SameEntry, KeyOf
<1>5. ASSUME NEW p \in Procs PROVE DataInv(p)'
  BY <1>1 DEF DataInv, Holds, KeyOf
<1> QED
  BY <1>3, <1>4, <1>5

LEMMA SerialInvStep ==
    ASSUME Serial, OneManifest, "clock" \notin Faults
    PROVE  SerialInv /\ [Next]_vars => SerialInv'
<1> SUFFICES ASSUME SerialInv, [Next]_vars PROVE SerialInv'
  OBVIOUS
<1>1. SharedInv'
  BY SharedInvStep DEF SerialInv
<1>2. ASSUME NEW p \in Procs, Start(p) \/ Step(p) \/ Disturbance(p)
      PROVE  SerialInv'
  <2>1. LiveEntriesComplete' /\ IndexInv(p)' /\ DataInv(p)'
    BY <1>2, LiveStep, IndexStep, DataStep
  <2>2. \A q \in Procs : q = p
    BY DEF Serial
  <2> QED
    BY <1>1, <2>1, <2>2 DEF SerialInv
<1>3. CASE Tick
  BY <1>1, <1>3, TickStep DEF SerialInv
<1>4. CASE UNCHANGED vars
  BY <1>1, <1>4 DEF SerialInv, LiveEntriesComplete, IndexDescribesFiles,
     Describes, Holds, IndexInv, DataInv, FollowsDisk, SameEntry, NotOffered,
     KeyOf, vars, disk, local
<1> QED
  BY <1>2, <1>3, <1>4 DEF Next, SetClockBack

LEMMA SerialInvInit == Init => SerialInv
<1> SUFFICES ASSUME Init PROVE SerialInv
  OBVIOUS
<1>1. SharedInv
  BY SharedInvInit
<1>2. LiveEntriesComplete
  BY DEF Init, LiveEntriesComplete, IndexDescribesFiles, LiveKeys, MissingFile,
     EmptyIndex
<1>3. \A p \in Procs : IndexInv(p)
  BY DEF Init, IndexInv, BeforeSync
<1>4. \A p \in Procs : DataInv(p)
  BY DEF Init, DataInv, Successes
<1> QED
  BY <1>1, <1>2, <1>3, <1>4 DEF SerialInv

(* The inductive invariant that the two theorems below follow from.         *)
THEOREM SerialInvariant ==
    ASSUME Serial, OneManifest, "clock" \notin Faults
    PROVE  Spec => []SerialInv
BY SerialInvInit, SerialInvStep, PTL DEF Spec

(* One user whose clock is never set back: after any crash or failure, at   *)
(* any point of any number of downloads, what the index on disk has on      *)
(* offer is complete and is what was downloaded.                            *)
THEOREM CrashConsistency ==
    ASSUME Serial, OneManifest, "clock" \notin Faults
    PROVE  Spec => []LiveEntriesComplete
<1>1. SerialInv => LiveEntriesComplete
  BY DEF SerialInv
<1> QED
  BY <1>1, SerialInvariant, PTL

(* One user whose clock is never set back: a reported success delivered     *)
(* exactly the file that was asked for.                                     *)
THEOREM SuccessDelivers ==
    ASSUME Serial, OneManifest, "clock" \notin Faults
    PROVE  Spec => []SuccessIsComplete
<1>1. SerialInv => SuccessIsComplete
  BY DEF SerialInv, DataInv, SuccessIsComplete
<1> QED
  BY <1>1, SerialInvariant, PTL
=============================================================================
