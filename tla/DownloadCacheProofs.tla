------------------------ MODULE DownloadCacheProofs ------------------------
(* Proofs about the cache as one user sees it, for every value of the       *)
(* constants: it implements AbstractDownload, it keeps what it has, and its *)
(* index and its data files agree.                                          *)
EXTENDS PluginDownloadProofs

USE InstantAssumption, SentinelAssumption

-----------------------------------------------------------------------------
(* The abstract state.                                                      *)

(* How far a download is, by what its process does next.                    *)
LEMMA PhaseIs ==
    ASSUME NEW l \in Running \cup Ended
    PROVE  /\ l \in {"load", "lookup", "unlink", "open", "checkDir"} => PhaseOf(l) = "asked"
           /\ l \in {"fetch", "create", "write", "truncate"} => PhaseOf(l) = "missed"
           /\ l \in {"writeIndex", "save"} => PhaseOf(l) = "stored"
           /\ l = "copy" => PhaseOf(l) = "hit"
           /\ l \in Failures => PhaseOf(l) = "failed"
           /\ l \in {"idle", "cached", "fresh"} => PhaseOf(l) = l
BY DEF PhaseOf, Failures

(* What the next run of one user would serve.                               *)
LEMMA CachedIs ==
    ASSUME Serial, NEW p \in Procs
    PROVE  /\ pc[p] = "writeIndex" => Cached = LiveKeys(mem[p], now)
           /\ pc[p] # "writeIndex" =>
                 Cached = IF Readable(indexFile) THEN LiveKeys(indexFile.plugins, now) ELSE {}
           /\ pc'[p] = "writeIndex" => Cached' = LiveKeys(mem'[p], now')
           /\ pc'[p] # "writeIndex" =>
                 Cached' = IF Readable(indexFile') THEN LiveKeys(indexFile'.plugins, now') ELSE {}
<1>1. \A q \in Procs : q = p
  BY DEF Serial
<1>2. pc[p] = "writeIndex" => (CHOOSE q \in Procs : pc[q] = "writeIndex") = p
  BY <1>1
<1>3. pc'[p] = "writeIndex" => (CHOOSE q \in Procs : pc'[q] = "writeIndex") = p
  BY <1>1
<1>4. /\ (\E q \in Procs : pc[q] = "writeIndex") <=> pc[p] = "writeIndex"
      /\ (\E q \in Procs : pc'[q] = "writeIndex") <=> pc'[p] = "writeIndex"
  BY <1>1
<1> QED
  BY <1>2, <1>3, <1>4 DEF Cached

(* Rewriting the index offers p's version and keeps all others; a crash     *)
(* takes versions off the offer; no other step of p changes it.             *)
LEMMA OfferStep ==
    ASSUME Serial, SerialInv, NEW p \in Procs, Start(p) \/ Step(p) \/ Disturbance(p)
    PROVE  /\ TruncateIndex(p) => Cached \subseteq Cached' /\ Cached' \subseteq Cached \cup {KeyOf(p)}
           /\ Abort(p) => Cached' \subseteq Cached
           /\ ~TruncateIndex(p) /\ ~Abort(p) => Cached' = Cached
<1> USE DEF SerialInv, SharedInv, TypeInv, TypeOK, At, Goto, disk, local
<1>1. IndexInv(p)
  OBVIOUS
<1>2. ASSUME TruncateIndex(p)
      PROVE  Cached \subseteq Cached' /\ Cached' \subseteq Cached \cup {KeyOf(p)}
  <2>1. /\ pc[p] = "truncate" /\ pc'[p] = "writeIndex"
        /\ UNCHANGED <<now, mem>>
    BY <1>2 DEF TruncateIndex
  <2>2. Readable(indexFile) /\ FollowsDisk(p) /\ NotOffered(p)
    BY <1>1, <2>1 DEF IndexInv, BeforeSync
  <2>3. Cached = LiveKeys(indexFile.plugins, now) /\ Cached' = LiveKeys(mem[p], now)
    BY <2>1, <2>2, CachedIs
  <2> QED
    BY <2>2, <2>3 DEF FollowsDisk, NotOffered, LiveKeys
<1>3. CASE pc[p] = "writeIndex"
  <2>1. WriteIndex(p) \/ Abort(p)
    BY <1>3 DEF Start, Ended, Successes, Failures, Step, Disturbance, LoadIndex, ResolveFails,
       Lookup, Unlink, OpenCached, Choose, InvalidDirectory, Fetch, FetchFails, CreateData,
       WriteData, Record, TruncateIndex, Save, CopyBlock
  <2>2. ~TruncateIndex(p) /\ indexFile.kind = "empty"
    BY <1>1, <1>3 DEF TruncateIndex, IndexInv
  <2>3. CASE WriteIndex(p)
    <3>1. /\ indexFile' = FileOf(mem[p]) /\ pc'[p] = "save" /\ now' = now
      BY <2>2, <2>3 DEF WriteIndex, Overwritten
    <3>2. Cached' = Cached
      BY <1>3, <3>1, CachedIs DEF FileOf, Readable
    <3> QED
      BY <2>2, <3>2
  <2>4. CASE Abort(p)
    <3>1. /\ indexFile' = indexFile /\ pc'[p] = "aborted"
      BY <2>4 DEF Abort, Finish
    <3>2. Cached' = {}
      BY <2>2, <3>1, CachedIs DEF Readable
    <3> QED
      BY <2>2, <2>4, <3>2
  <2> QED
    BY <2>1, <2>3, <2>4
<1>4. CASE pc[p] # "writeIndex" /\ ~TruncateIndex(p)
  <2>1. indexFile' = indexFile /\ now' = now /\ pc'[p] # "writeIndex"
    BY <1>4 DEF Start, Step, Disturbance, LoadIndex, ResolveFails,
       Lookup, Unlink, OpenCached, Choose, InvalidDirectory, Fetch, FetchFails, CreateData,
       WriteData, Record, WriteIndex, Save, CopyBlock, Abort, Finish
  <2>2. Cached' = Cached
    BY <1>4, <2>1, CachedIs
  <2> QED
    BY <1>4, <2>2
<1>5. CASE TruncateIndex(p)
  <2>1. ~Abort(p)
    BY <1>5 DEF TruncateIndex, Abort, Finish
  <2> QED
    BY <1>2, <1>5, <2>1
<1> QED
  BY <1>3, <1>4, <1>5

(* As time passes, versions only go off the offer.                          *)
LEMMA OfferShrinks ==
    ASSUME Serial, SerialInv, Tick
    PROVE  Cached' \subseteq Cached
<1> USE DEF SerialInv, SharedInv, TypeInv, TypeOK, disk, local
<1>1. /\ now' \in Instants /\ now <= now'
      /\ UNCHANGED <<indexFile, pc, mem>>
  BY InstantsInt DEF Tick, Instants
<1>2. CASE Procs = {}
  BY <1>1, <1>2, LiveShrinks DEF Cached, IndexFiles
<1>3. ASSUME NEW p \in Procs PROVE Cached' \subseteq Cached
  <2>1. mem[p] \in Index /\ indexFile.plugins \in Index
    BY DEF IndexFiles
  <2>2. /\ LiveKeys(mem[p], now') \subseteq LiveKeys(mem[p], now)
        /\ LiveKeys(indexFile.plugins, now') \subseteq LiveKeys(indexFile.plugins, now)
    BY <1>1, <2>1, LiveShrinks
  <2> QED
    BY <1>1, <2>2, CachedIs
<1> QED
  BY <1>2, <1>3

(* A version that is on offer stays on offer until time passes, whatever is *)
(* downloaded meanwhile: for one user, a clock that is not set back and     *)
(* commands that are not interrupted (cache_file, sync_to_disk).            *)
THEOREM OfferIsKept ==
    ASSUME Serial, OneManifest, "clock" \notin Faults, "abort" \notin Faults
    PROVE  Spec => KeptUntilOutdated
<1>1. SerialInv /\ [Next]_vars => [\A k \in Cached : k \in Cached' \/ now' # now]_vars
  <2> SUFFICES ASSUME SerialInv, Next, NEW k \in Cached, now' = now PROVE k \in Cached'
    OBVIOUS
  <2>1. now \in Int
    BY InstantsInt DEF SerialInv, SharedInv, TypeInv, TypeOK
  <2>2. ~Tick /\ ~SetClockBack
    BY <2>1 DEF Tick, SetClockBack
  <2>3. PICK p \in Procs : Start(p) \/ Step(p) \/ Disturbance(p)
    BY <2>2 DEF Next
  <2> QED
    BY <2>3, OfferStep DEF Abort
<1> QED
  BY <1>1, SerialInvariant, PTL DEF Spec, KeptUntilOutdated

-----------------------------------------------------------------------------
(* The refinement of AbstractDownload.                                      *)

LEMMA AbstractInit == Serial /\ Init => Abstract!Init
<1> SUFFICES ASSUME Serial, Init PROVE Abstract!Init
  OBVIOUS
<1>1. Cached = {}
  BY DEF Init, Cached, MissingFile, EmptyIndex, LiveKeys, Readable
<1>2. \A p \in Procs : pc[p] = "idle" /\ "idle" \in Ended
  BY DEF Init, Ended
<1>3. \A p \in Procs : Phase(p) = "idle"
  BY <1>2, PhaseIs DEF Phase
<1>4. \A p \in Procs : Delivered(p) = NoData
  BY <1>2 DEF Delivered, Successes
<1>5. req \in [Procs -> Requests]
  BY DEF Init
<1> QED
  BY <1>1, <1>3, <1>4, <1>5 DEF Abstract!Init

(* How a step of the one process p looks from outside, from its effect on   *)
(* the three variables of p and on the offer.                               *)
LEMMA ViewStep ==
    ASSUME Serial, NEW p \in Procs,
           NEW from, NEW to, Phase(p) = from, PhaseOf(pc'[p]) = to,
           req' = req, pc[p] \notin Successes
    PROVE  /\ (from = to /\ pc'[p] \notin Successes /\ Cached' = Cached)
                 => UNCHANGED Abstract!vars
           /\ (from \in Abstract!Pending /\ to = "failed" /\ pc'[p] \notin Successes /\ Cached' \subseteq Cached)
                 => Abstract!Fail(p)
           /\ (from = "asked" /\ to = "hit" /\ pc'[p] \notin Successes /\ Cached' = Cached /\ KeyOf(p) \in Cached)
                 => Abstract!Hit(p)
           /\ (from = "asked" /\ to = "missed" /\ pc'[p] \notin Successes /\ Cached' = Cached /\ KeyOf(p) \notin Cached)
                 => Abstract!Miss(p)
           /\ (from = "missed" /\ to = "stored" /\ pc'[p] \notin Successes /\ Cached' \in {Cached, Cached \cup {KeyOf(p)}})
                 => Abstract!Store(p)
           /\ (<<from, to>> \in {<<"hit", "cached">>, <<"stored", "fresh">>}
                 /\ Delivered(p)' = Source(req[p]) /\ Cached' = Cached)
                 => Abstract!Deliver(p)
<1> DEFINE phase == [q \in Procs |-> Phase(q)]
           delivered == [q \in Procs |-> Delivered(q)]
<1>1. \A q \in Procs : q = p
  BY DEF Serial
<1>2. phase[p] = from /\ phase' = [phase EXCEPT ![p] = to]
  BY <1>1 DEF Phase
<1>3. delivered[p] = NoData /\ delivered' = [delivered EXCEPT ![p] = Delivered(p)']
  BY <1>1 DEF Delivered
<1>4. pc'[p] \notin Successes => delivered' = delivered
  BY <1>1, <1>3 DEF Delivered
<1>5. from = to => phase' = phase
  BY <1>1, <1>2
<1> HIDE DEF phase, delivered
<1> QED
  BY <1>2, <1>3, <1>4, <1>5
     DEF Abstract!vars, Abstract!Fail, Abstract!Hit, Abstract!Miss, Abstract!Store,
         Abstract!Deliver, Abstract!Move, KeyOf, phase, delivered

(* What a success has delivered is the file that was asked for.             *)
LEMMA DeliveredIs ==
    ASSUME NEW p \in Procs, DataInv(p)', pc'[p] \in Successes, req' = req
    PROVE  Delivered(p)' = Source(req[p])
<1>1. PICK d \in Payloads : Answers(d, req[p]) /\ out'[p] = Body(d)
  BY DEF DataInv, Answers
<1>2. 1 \in Blocks /\ d # NoData
  BY DownloadAssumption, SentinelsAssumption DEF Blocks
<1>3. out'[p][1] = d /\ Complete(out'[p])
  BY <1>1, <1>2 DEF Body, Complete
<1> QED
  BY <1>1, <1>3 DEF Delivered, Answers

(* Every step of p is a step of the abstract cache, or is not seen.         *)
LEMMA ProcessStep ==
    ASSUME Serial, OneManifest, SerialInv, NEW p \in Procs,
           Start(p) \/ Step(p) \/ Disturbance(p)
    PROVE  [Abstract!Next]_(Abstract!vars)
<1> USE DEF At, Goto
<1>1. TypeOK /\ IndexInv(p)
  BY DEF SerialInv, SharedInv, TypeInv
<1>2. pc \in [Procs -> Running \cup Ended] /\ KeyOf(p) \in Keys
  BY <1>1, KeyType DEF TypeOK, KeyOf
<1>3. \A q \in Procs : q = p
  BY DEF Serial
<1>4. ASSUME NEW to \in Running, pc'[p] = to, pc[p] \in Running, req' = req, Cached' = Cached,
             PhaseOf(to) = PhaseOf(pc[p])
      PROVE  UNCHANGED Abstract!vars
  <2>1. pc[p] \notin Successes /\ pc'[p] \notin Successes
    BY <1>4 DEF Running, Successes
  <2> QED
    BY <1>4, <2>1, ViewStep DEF Phase
<1>5. ASSUME NEW o \in Failures, Finish(p, o), pc[p] \in Running, req' = req, Cached' \subseteq Cached
      PROVE  Abstract!Fail(p)
  <2>1. pc'[p] = o /\ o \in Running \cup Ended
    BY <1>2, <1>5 DEF Finish, Ended
  <2>2. /\ PhaseOf(pc'[p]) = "failed" /\ PhaseOf(pc[p]) \in Abstract!Pending
        /\ pc[p] \notin Successes /\ pc'[p] \notin Successes
    BY <1>5, <2>1, PhaseIs DEF Running, Successes, Failures, Abstract!Pending
  <2> QED
    BY <1>5, <2>2, ViewStep DEF Phase
<1>6. /\ TruncateIndex(p) => Cached \subseteq Cached' /\ Cached' \subseteq Cached \cup {KeyOf(p)}
      /\ Abort(p) => Cached' \subseteq Cached
      /\ ~TruncateIndex(p) /\ ~Abort(p) => Cached' = Cached
  BY OfferStep
<1>7. ASSUME Abstract!Next \/ UNCHANGED Abstract!vars PROVE [Abstract!Next]_(Abstract!vars)
  BY <1>7
<1>8. ASSUME \/ Abstract!Ask(p) \/ Abstract!Hit(p) \/ Abstract!Miss(p)
             \/ Abstract!Store(p) \/ Abstract!Deliver(p) \/ Abstract!Fail(p)
      PROVE  Abstract!Next
  BY <1>8 DEF Abstract!Next
<1>l. \A l \in Running : l \in Running \cup Ended
  OBVIOUS
<1>r. {"load", "lookup", "unlink", "open", "checkDir", "fetch", "create",
       "write", "truncate", "writeIndex", "save", "copy"} \subseteq Running
  BY DEF Running
<1>a. \A l \in Running :
        /\ l \in {"load", "lookup", "unlink", "open", "checkDir"} => PhaseOf(l) = "asked"
        /\ l \in {"fetch", "create", "write", "truncate"} => PhaseOf(l) = "missed"
        /\ l \in {"writeIndex", "save"} => PhaseOf(l) = "stored"
        /\ l = "copy" => PhaseOf(l) = "hit"
  BY <1>l, PhaseIs
<1>b. "IndexParse" \in Failures /\ "CacheIo" \in Failures /\ "CacheControl" \in Failures
      /\ "Http" \in Failures /\ "InvalidDirectoryPath" \in Failures /\ "aborted" \in Failures
  BY DEF Failures
<1>c. pc[p] \in Running => pc[p] \notin Ended /\ ~Start(p)
  BY DEF Running, Ended, Successes, Failures, Start
<1>10. CASE Start(p)
  <2>1. pc[p] \in Ended /\ pc'[p] = "load" /\ ~TruncateIndex(p) /\ ~Abort(p)
    BY <1>2, <1>10 DEF Start, TruncateIndex, Abort, Running, Ended, Successes, Failures
  <2>2. PICK r \in Requests : req' = [req EXCEPT ![p] = r]
    BY <1>10 DEF Start
  <2>3. Phase(p) \in Abstract!Over /\ PhaseOf(pc'[p]) = "asked"
    BY <1>2, <1>a, <1>r, <2>1, PhaseIs DEF Phase, Abstract!Over, Ended, Successes
  <2>4. Delivered(p)' = NoData
    BY <2>1 DEF Delivered, Successes
  <2>5. Cached' = Cached
    BY <1>6, <2>1
  <2> DEFINE phase == [q \in Procs |-> Phase(q)]
             delivered == [q \in Procs |-> Delivered(q)]
  <2>6. /\ phase[p] = Phase(p) /\ phase' = [phase EXCEPT ![p] = "asked"]
        /\ delivered' = [delivered EXCEPT ![p] = NoData]
    BY <1>3, <2>3, <2>4 DEF Phase
  <2> HIDE DEF phase, delivered
  <2>7. Abstract!Ask(p)
    BY <2>2, <2>3, <2>5, <2>6 DEF Abstract!Ask, phase, delivered
  <2> QED
    BY <1>7, <1>8, <2>7
<1>11. CASE Disturbance(p)
  <2>1. \E o \in Failures : Finish(p, o) /\ pc[p] \in Running /\ req' = req
    BY <1>11, <1>b, <1>r DEF Disturbance, ResolveFails, InvalidDirectory, FetchFails, Abort
  <2>2. Cached' \subseteq Cached
    <3>1. ~TruncateIndex(p)
      BY <1>2, <2>1 DEF Finish, TruncateIndex, Failures
    <3> QED
      BY <1>6, <3>1
  <2> QED
    BY <1>5, <1>7, <1>8, <2>1, <2>2
<1>12. CASE LoadIndex(p) \/ Unlink(p) \/ OpenCached(p) \/ Fetch(p)
  <2>1. ~TruncateIndex(p) /\ ~Abort(p) /\ pc[p] \in Running /\ req' = req
    BY <1>2, <1>12, <1>r DEF LoadIndex, Unlink, OpenCached, Fetch, TruncateIndex, Abort, Finish, Failures
  <2>2. Cached' = Cached
    BY <1>6, <2>1
  <2>3. \/ \E o \in Failures : Finish(p, o)
        \/ \E to \in Running : pc'[p] = to /\ PhaseOf(to) = PhaseOf(pc[p])
    BY <1>2, <1>12, <1>a, <1>b, <1>r DEF LoadIndex, Unlink, OpenCached, Fetch
  <2> QED
    BY <1>4, <1>5, <1>7, <1>8, <2>1, <2>2, <2>3
<1>13. CASE Lookup(p) \/ CreateData(p) \/ WriteData(p) \/ Record(p) \/ WriteIndex(p)
  <2>1. ~TruncateIndex(p) /\ ~Abort(p) /\ pc[p] \in Running /\ req' = req
    BY <1>2, <1>13, <1>r
       DEF Lookup, CreateData, WriteData, Record, WriteIndex, TruncateIndex, Abort, Finish
  <2>2. Cached' = Cached
    BY <1>6, <2>1
  <2>3. \E to \in Running : pc'[p] = to /\ PhaseOf(to) = PhaseOf(pc[p])
    BY <1>2, <1>13, <1>a, <1>r DEF Lookup, CreateData, WriteData, Record, WriteIndex
  <2> QED
    BY <1>4, <1>7, <2>1, <2>2, <2>3
<1>14. CASE Choose(p)
  <2>1. /\ ~TruncateIndex(p) /\ ~Abort(p) /\ pc[p] = "checkDir" /\ req' = req
        /\ pc'[p] \in {"copy", "fetch"}
    BY <1>2, <1>14 DEF Choose, TruncateIndex, Abort, Finish
  <2>2. /\ Cached' = Cached /\ Cached = LiveKeys(indexFile.plugins, now)
    BY <1>1, <1>6, <2>1, CachedIs DEF IndexInv, BeforeSync
  <2>3. /\ Phase(p) = "asked" /\ pc[p] \notin Successes /\ pc'[p] \notin Successes
        /\ PhaseOf("copy") = "hit" /\ PhaseOf("fetch") = "missed"
    BY <1>a, <1>r, <2>1 DEF Phase, Successes
  <2>4. CASE handle[p] # NoInode /\ ~IsOutdated(mem[p][KeyOf(p)], now)
    <3>1. KeyOf(p) \in Cached
      BY <1>1, <1>2, <2>1, <2>2, <2>4 DEF IndexInv, SameEntry, LiveKeys
    <3>2. pc'[p] = "copy"
      BY <1>2, <1>14, <2>4 DEF Choose
    <3> QED
      BY <1>7, <1>8, <2>1, <2>2, <2>3, <3>1, <3>2, ViewStep
  <2>5. CASE ~(handle[p] # NoInode /\ ~IsOutdated(mem[p][KeyOf(p)], now))
    <3>1. KeyOf(p) \notin Cached
      BY <1>1, <1>2, <2>1, <2>2, <2>5 DEF IndexInv, SameEntry, NotOffered, LiveKeys
    <3>2. pc'[p] = "fetch"
      BY <1>2, <1>14, <2>5 DEF Choose
    <3> QED
      BY <1>7, <1>8, <2>1, <2>2, <2>3, <3>1, <3>2, ViewStep
  <2> QED
    BY <2>4, <2>5
<1>15. CASE TruncateIndex(p)
  <2>1. pc[p] = "truncate" /\ pc'[p] = "writeIndex" /\ req' = req
    BY <1>2, <1>15 DEF TruncateIndex
  <2>2. Cached' \in {Cached, Cached \cup {KeyOf(p)}}
    BY <1>6, <1>15
  <2>3. /\ Phase(p) = "missed" /\ PhaseOf(pc'[p]) = "stored"
        /\ pc[p] \notin Successes /\ pc'[p] \notin Successes
    BY <1>a, <1>r, <2>1 DEF Phase, Successes
  <2> QED
    BY <1>7, <1>8, <2>1, <2>2, <2>3, ViewStep
<1>16. CASE Save(p) \/ CopyBlock(p)
  <2>1. /\ ~TruncateIndex(p) /\ ~Abort(p) /\ pc[p] \in {"save", "copy"} /\ req' = req
    BY <1>2, <1>16 DEF Save, CopyBlock, TruncateIndex, Abort, Finish
  <2>2. Cached' = Cached
    BY <1>6, <2>1
  <2>3. CASE pc' = pc
    BY <1>2, <1>4, <1>7, <1>r, <2>1, <2>2, <2>3
  <2>4. CASE <<pc[p], pc'[p]>> \in {<<"save", "fresh">>, <<"copy", "cached">>}
    <3>1. pc[p] \notin Successes /\ pc'[p] \in Successes
      BY <2>4 DEF Successes
    <3>2. Delivered(p)' = Source(req[p])
      BY <2>1, <3>1, DataStep, DeliveredIs
    <3>3. <<Phase(p), PhaseOf(pc'[p])>> \in {<<"hit", "cached">>, <<"stored", "fresh">>}
      BY <1>a, <1>r, <2>4, PhaseIs DEF Phase, Ended, Successes
    <3> QED
      BY <1>7, <1>8, <2>1, <2>2, <3>1, <3>2, <3>3, ViewStep
  <2> QED
    BY <1>2, <1>16, <2>3, <2>4 DEF Save, CopyBlock, Finish
<1> QED
  BY <1>10, <1>11, <1>12, <1>13, <1>14, <1>15, <1>16 DEF Step

LEMMA AbstractStep ==
    ASSUME Serial, OneManifest, "clock" \notin Faults
    PROVE  SerialInv /\ [Next]_vars => [Abstract!Next]_(Abstract!vars)
<1> SUFFICES ASSUME SerialInv, [Next]_vars PROVE [Abstract!Next]_(Abstract!vars)
  OBVIOUS
<1>1. CASE \E p \in Procs : Start(p) \/ Step(p) \/ Disturbance(p)
  BY <1>1, ProcessStep
<1>2. CASE Tick
  <2>1. /\ Cached' \subseteq Cached
        /\ UNCHANGED <<[p \in Procs |-> Phase(p)], req, [p \in Procs |-> Delivered(p)]>>
    BY <1>2, OfferShrinks DEF Tick, local, Phase, Delivered
  <2> QED
    BY <2>1 DEF Abstract!Next, Abstract!Expire
<1>3. CASE UNCHANGED vars
  <2>1. /\ Cached' = Cached
        /\ UNCHANGED <<[p \in Procs |-> Phase(p)], req, [p \in Procs |-> Delivered(p)]>>
    BY <1>3 DEF vars, disk, local, Cached, Phase, Delivered
  <2> QED
    BY <2>1 DEF Abstract!vars
<1> QED
  BY <1>1, <1>2, <1>3 DEF Next, SetClockBack

(* For one user whose clock is never set back, the download path is an      *)
(* implementation of the abstract cache, whatever is downloaded and         *)
(* whatever fails: a download is served from the cache exactly when its     *)
(* version is on offer, and a version is lost to time or to a failing       *)
(* download only (download_plugin over DownloadCache).                      *)
THEOREM DownloadImplementsCache ==
    ASSUME Serial, OneManifest, "clock" \notin Faults
    PROVE  Spec => ImplementsAbstract
<1>1. Init => Abstract!Init
  BY AbstractInit
<1>2. SerialInv /\ [Next]_vars => [Abstract!Next]_(Abstract!vars)
  BY AbstractStep
<1> QED
  BY <1>1, <1>2, SerialInvariant, PTL DEF Spec, ImplementsAbstract, Abstract!Spec

-----------------------------------------------------------------------------
(* When nothing fails, the index on disk and the data files agree.          *)

NothingFails ==
    /\ Faults = {}
    /\ \A c \in Controls : ResponseTtl(c) # BadHeader

(* TidyInv without SerialInv, for one process.                              *)
Tidy(p) ==
    /\ pc[p] \notin Failures
    /\ pc[p] # "writeIndex" =>
         /\ Readable(indexFile)
         /\ \A k \in Keys \ {KeyOf(p)} : indexFile.plugins[k] # NoEntry <=> link[k] # NoInode
    /\ ~MayDiffer(p) => Agrees(indexFile.plugins)
    /\ pc[p] = "unlink" => KeyOf(p) \in RecordedKeys(indexFile.plugins)
    /\ pc[p] \in {"truncate", "writeIndex"} => Agrees(mem[p])

LEMMA TidyStep ==
    ASSUME NothingFails, SerialInv, NEW p \in Procs, Tidy(p),
           Start(p) \/ Step(p) \/ Disturbance(p)
    PROVE  Tidy(p)'
<1> USE DEF SerialInv, SharedInv, TypeInv, TypeOK, At, Goto, disk, local
<1>i. IndexInv(p) /\ KeyOf(p) \in Keys
  BY KeyType DEF KeyOf
<1>s. ASSUME ~MayDiffer(p), pc[p] # "writeIndex"
      PROVE  \A k \in Keys : indexFile.plugins[k] # NoEntry <=> link[k] # NoInode
  BY <1>s DEF Tidy, Agrees, RecordedKeys
<1>1. CASE Start(p)
  <2>1. pc'[p] = "load" /\ pc[p] \in Ended /\ UNCHANGED <<indexFile, link>>
    BY <1>1 DEF Start
  <2>2. ~MayDiffer(p) /\ pc[p] # "writeIndex"
    BY <2>1 DEF MayDiffer, Ended, Successes, Failures
  <2> QED
    BY <1>s, <2>1, <2>2 DEF Tidy, Agrees, RecordedKeys, Failures
<1>2. CASE LoadIndex(p)
  <2>1. Readable(indexFile) /\ pc[p] = "load"
    BY <1>2 DEF LoadIndex, Tidy
  <2>2. pc'[p] = "lookup" /\ UNCHANGED <<indexFile, link, req>>
    BY <1>2, <2>1 DEF LoadIndex
  <2> QED
    BY <2>1, <2>2 DEF Tidy, MayDiffer, Agrees, Failures, KeyOf
<1>3. CASE Disturbance(p)
  BY <1>3 DEF Disturbance, NothingFails, ResolveFails, InvalidDirectory, FetchFails, Abort
<1>4. CASE Lookup(p)
  <2>1. /\ pc[p] = "lookup" /\ pc'[p] \in {"checkDir", "unlink", "open"}
        /\ UNCHANGED <<indexFile, link, req>>
    BY <1>4 DEF Lookup
  <2>2. pc'[p] = "unlink" => mem[p][KeyOf(p)] # NoEntry
    BY <1>4 DEF Lookup
  <2>3. Agrees(indexFile.plugins) /\ SameEntry(p) /\ Readable(indexFile)
    BY <1>i, <2>1 DEF Tidy, MayDiffer, IndexInv
  <2> QED
    BY <1>i, <2>1, <2>2, <2>3 DEF Tidy, Agrees, RecordedKeys, SameEntry, Failures, KeyOf
<1>5. CASE Unlink(p)
  <2>1. pc[p] = "unlink" /\ link[KeyOf(p)] # NoInode
    BY <1>5 DEF Unlink, Tidy, MayDiffer, Agrees
  <2>2. /\ link' = [link EXCEPT ![KeyOf(p)] = NoInode]
        /\ pc'[p] = "checkDir" /\ UNCHANGED <<indexFile, req, handle>>
    BY <1>5, <2>1 DEF Unlink
  <2>3. handle[p] = NoInode
    BY <2>1 DEF OwnershipInv
  <2> QED
    BY <1>i, <2>1, <2>2, <2>3 DEF Tidy, MayDiffer, Failures, KeyOf
<1>6. CASE OpenCached(p)
  <2>1. pc[p] = "open" /\ Agrees(indexFile.plugins) /\ Readable(indexFile)
    BY <1>6 DEF OpenCached, Tidy, MayDiffer
  <2>2. link[KeyOf(p)] # NoInode
    BY <1>i, <2>1 DEF IndexInv, SameEntry, Agrees, RecordedKeys
  <2>3. pc'[p] = "checkDir" /\ UNCHANGED <<indexFile, link, req>>
    BY <1>6, <2>2 DEF OpenCached
  <2> QED
    BY <2>1, <2>3 DEF Tidy, Agrees, RecordedKeys, Failures, KeyOf
<1>7. CASE Choose(p)
  <2>1. /\ pc[p] = "checkDir" /\ pc'[p] \in {"copy", "fetch"}
        /\ pc'[p] = "copy" => handle[p] # NoInode
        /\ UNCHANGED <<indexFile, link, req>>
    BY <1>7 DEF Choose
  <2> QED
    BY <2>1 DEF Tidy, MayDiffer, Agrees, Failures, KeyOf
<1>8. CASE Fetch(p) \/ WriteData(p)
  <2>1. /\ pc[p] \in {"fetch", "write"} /\ pc'[p] \in {"create", "write"}
        /\ UNCHANGED <<indexFile, link, req>>
    BY <1>8 DEF Fetch, WriteData, NothingFails
  <2> QED
    BY <2>1 DEF Tidy, MayDiffer, Failures, KeyOf
<1>9. CASE CreateData(p)
  <2>1. /\ pc[p] = "create" /\ pc'[p] = "write" /\ UNCHANGED <<indexFile, req>>
        /\ \A k \in Keys \ {KeyOf(p)} : link'[k] = link[k]
    BY <1>9, <1>i DEF CreateData
  <2> QED
    BY <2>1 DEF Tidy, MayDiffer, Failures, KeyOf
<1>10. CASE Record(p)
  <2>1. /\ pc[p] = "write" /\ pc'[p] = "truncate" /\ UNCHANGED <<indexFile, link, req>>
        /\ mem'[p] = [mem[p] EXCEPT ![KeyOf(p)] =
                         [ttl |-> ResponseTtl(resp[p].control), added |-> now]]
    BY <1>10 DEF Record
  <2>2. mem'[p][KeyOf(p)] # NoEntry
    <3>1. [ttl |-> ResponseTtl(resp[p].control), added |-> now] \in Entries
      BY <2>1 DEF Shape, Entries, Ttls
    <3> QED
      BY <1>i, <2>1, <3>1 DEF Index
  <2>3. link[KeyOf(p)] # NoInode
    BY <2>1 DEF Shape, DataInv
  <2>4. \A k \in Keys \ {KeyOf(p)} : mem'[p][k] # NoEntry <=> link[k] # NoInode
    BY <1>i, <2>1 DEF IndexInv, BeforeSync, FollowsDisk, Tidy, Index
  <2>5. Agrees(mem[p])'
    BY <2>1, <2>2, <2>3, <2>4 DEF Agrees, RecordedKeys
  <2> QED
    BY <2>1, <2>5 DEF Tidy, MayDiffer, Failures, KeyOf
<1>11. CASE TruncateIndex(p)
  <2>1. /\ pc[p] = "truncate" /\ pc'[p] = "writeIndex" /\ UNCHANGED <<link, mem, req>>
    BY <1>11 DEF TruncateIndex
  <2> QED
    BY <2>1 DEF Tidy, MayDiffer, Agrees, Failures
<1>12. CASE WriteIndex(p)
  <2>1. /\ pc[p] = "writeIndex" /\ pc'[p] = "save" /\ UNCHANGED <<link, mem, req>>
        /\ indexFile' = FileOf(mem[p])
    BY <1>12, <1>i DEF WriteIndex, Overwritten, IndexInv
  <2>2. Agrees(mem[p])
    BY <2>1 DEF Tidy
  <2>3. indexFile'.plugins = mem[p] /\ Readable(indexFile)'
    BY <2>1 DEF FileOf, Readable
  <2> QED
    BY <2>1, <2>2, <2>3 DEF Tidy, Agrees, RecordedKeys, Failures, KeyOf
<1>13. CASE Save(p) \/ CopyBlock(p)
  <2>1. /\ pc[p] \in {"save", "copy"} /\ pc'[p] \in {"fresh", "cached", "copy"}
        /\ UNCHANGED <<indexFile, link, req>>
    BY <1>13 DEF Save, CopyBlock, Finish
  <2> QED
    BY <2>1 DEF Tidy, MayDiffer, Agrees, Failures, KeyOf
<1> QED
  BY <1>1, <1>2, <1>3, <1>4, <1>5, <1>6, <1>7, <1>8, <1>9, <1>10, <1>11, <1>12, <1>13 DEF Step

(* The inductive invariant.                                                 *)
THEOREM TidyInvariant ==
    ASSUME Serial, OneManifest, NothingFails
    PROVE  Spec => []TidyInv
<1>1. TidyInv <=> SerialInv /\ \A p \in Procs : Tidy(p)
  BY DEF TidyInv, Tidy
<1>2. Init => \A p \in Procs : Tidy(p)
  BY DEF Init, Tidy, MayDiffer, Agrees, RecordedKeys, MissingFile, EmptyIndex, Readable, Failures
<1>3. SerialInv /\ (\A p \in Procs : Tidy(p)) /\ [Next]_vars => (\A p \in Procs : Tidy(p))'
  <2> SUFFICES ASSUME SerialInv, \A p \in Procs : Tidy(p), [Next]_vars PROVE (\A p \in Procs : Tidy(p))'
    OBVIOUS
  <2>1. ASSUME NEW p \in Procs, Start(p) \/ Step(p) \/ Disturbance(p)
        PROVE  (\A q \in Procs : Tidy(q))'
    <3>1. \A q \in Procs : q = p
      BY DEF Serial
    <3>2. Tidy(p)'
      BY <2>1, TidyStep
    <3> QED
      BY <3>1, <3>2
  <2>2. CASE Tick \/ SetClockBack \/ UNCHANGED vars
    <3>1. UNCHANGED <<indexFile, link, pc, req, mem, handle>>
      BY <2>2 DEF Tick, SetClockBack, vars, disk, local
    <3> QED
      BY <3>1 DEF Tidy, MayDiffer, Agrees, KeyOf
  <2> QED
    BY <2>1, <2>2 DEF Next
<1>4. Serial /\ OneManifest /\ "clock" \notin Faults
  BY DEF NothingFails
<1>5. Spec => []SerialInv
  BY <1>4, SerialInvariant
<1>6. Spec => [](\A p \in Procs : Tidy(p))
  BY <1>2, <1>3, <1>5, PTL DEF Spec
<1> QED
  BY <1>1, <1>5, <1>6, PTL

(* For one user, when nothing fails: between runs exactly the versions that *)
(* have a data file are recorded in the index on disk                       *)
(* (delete_cached_file, cache_file, sync_to_disk).                          *)
THEOREM IndexIsTidy ==
    ASSUME Procs # {}, Serial, OneManifest, NothingFails
    PROVE  Spec => []IndexMatchesData
<1>1. TidyInv => IndexMatchesData
  <2> SUFFICES ASSUME TidyInv, AtRest PROVE Readable(indexFile) /\ Agrees(indexFile.plugins)
    BY DEF IndexMatchesData
  <2>1. PICK p \in Procs : pc[p] \in Ended
    BY DEF AtRest
  <2>2. pc[p] # "writeIndex" /\ ~MayDiffer(p)
    BY <2>1 DEF MayDiffer, Ended, Successes, Failures
  <2> QED
    BY <2>2 DEF TidyInv
<1> QED
  BY <1>1, TidyInvariant, PTL

(* For one user, when nothing fails, no download fails for what earlier     *)
(* ones left in the cache: the errors that LoadIndex, Unlink and OpenCached *)
(* may end in are never reached (get_cached_file).                          *)
THEOREM TidyCacheNeverBlocks ==
    ASSUME Serial, OneManifest, NothingFails
    PROVE  Spec => []CacheNeverBlocks
<1>1. TidyInv => CacheNeverBlocks
  BY DEF TidyInv, CacheNeverBlocks, Failures
<1> QED
  BY <1>1, TidyInvariant, PTL

-----------------------------------------------------------------------------
(* One user's index is on disk, whatever fails.                             *)

\* What p is about to write has p's own entry, and after it was written it is what is on disk.
Synced(p) ==
    /\ pc[p] \in {"truncate", "writeIndex"} => mem[p][KeyOf(p)] # NoEntry
    /\ pc[p] = "writeIndex" => indexFile.kind = "empty"
    /\ pc[p] = "save" => indexFile.kind = "index" /\ indexFile.plugins[KeyOf(p)] # NoEntry

LEMMA SyncedStep ==
    ASSUME TypeInv, NEW p \in Procs, Synced(p), Start(p) \/ Step(p) \/ Disturbance(p)
    PROVE  Synced(p)'
<1> USE DEF TypeInv, TypeOK, At, Goto, disk, local
<1>i. KeyOf(p) \in Keys
  BY KeyType DEF KeyOf
<1>1. CASE Record(p)
  <2>1. /\ pc[p] = "write" /\ pc'[p] = "truncate" /\ UNCHANGED <<indexFile, req>>
        /\ mem'[p] = [mem[p] EXCEPT ![KeyOf(p)] =
                         [ttl |-> ResponseTtl(resp[p].control), added |-> now]]
    BY <1>1 DEF Record
  <2>2. [ttl |-> ResponseTtl(resp[p].control), added |-> now] \in Entries
    BY <2>1 DEF Shape, Entries, Ttls
  <2>3. mem'[p][KeyOf(p)] # NoEntry
    BY <1>i, <2>1, <2>2 DEF Index
  <2> QED
    BY <2>1, <2>3 DEF Synced, KeyOf
<1>2. CASE TruncateIndex(p)
  BY <1>2 DEF TruncateIndex, Synced, EmptyFile, KeyOf
<1>3. CASE WriteIndex(p)
  <2>1. /\ pc[p] = "writeIndex" /\ pc'[p] = "save" /\ UNCHANGED <<mem, req>>
        /\ indexFile' = FileOf(mem[p])
    BY <1>3 DEF WriteIndex, Overwritten, Synced
  <2>2. indexFile'.plugins = mem[p] /\ indexFile'.kind = "index"
    BY <2>1 DEF FileOf
  <2> QED
    BY <2>1, <2>2 DEF Synced, KeyOf
<1>4. CASE pc'[p] \notin {"truncate", "writeIndex", "save"}
  BY <1>4 DEF Synced
<1>5. ASSUME ~Record(p), ~TruncateIndex(p), ~WriteIndex(p)
      PROVE  pc'[p] \notin {"truncate", "writeIndex", "save"}
  BY <1>5 DEF Start, Step, Disturbance, LoadIndex, ResolveFails, Lookup, Unlink, OpenCached, Choose,
              InvalidDirectory, Fetch, FetchFails, CreateData, WriteData, Save, CopyBlock, Abort, Finish
<1> QED
  BY <1>1, <1>2, <1>3, <1>4, <1>5

(* With one user, after any crash or failure of earlier runs and whatever   *)
(* the clock does, a version whose caching succeeded is in the index on     *)
(* disk (cache_file, sync_to_disk): it takes a second user to lose it.      *)
THEOREM SyncReachesDisk ==
    ASSUME Serial
    PROVE  Spec => []IndexIsOnDisk
<1> DEFINE Inv == TypeInv /\ \A p \in Procs : Synced(p)
<1>1. Init => Inv
  BY TypeInvInit DEF Init, Synced
<1>2. Inv /\ [Next]_vars => Inv'
  <2> SUFFICES ASSUME Inv, [Next]_vars PROVE (\A p \in Procs : Synced(p))'
    BY TypeInvStep
  <2>1. ASSUME NEW p \in Procs, Start(p) \/ Step(p) \/ Disturbance(p)
        PROVE  (\A q \in Procs : Synced(q))'
    <3>1. \A q \in Procs : q = p
      BY DEF Serial
    <3>2. Synced(p)'
      BY <2>1, SyncedStep
    <3> QED
      BY <3>1, <3>2
  <2>2. CASE Tick \/ SetClockBack \/ UNCHANGED vars
    <3>1. UNCHANGED <<indexFile, pc, req, mem>>
      BY <2>2 DEF Tick, SetClockBack, vars, disk, local
    <3> QED
      BY <3>1 DEF Synced, KeyOf
  <2> QED
    BY <2>1, <2>2 DEF Next
<1>3. Inv => IndexIsOnDisk
  BY DEF Synced, IndexIsOnDisk
<1> HIDE DEF Inv
<1> QED
  BY <1>1, <1>2, <1>3, PTL DEF Spec
=============================================================================
