------------------------- MODULE CacheStartupProofs -------------------------
(* Proofs about CacheStartup, for every value of the constants. *)
EXTENDS CacheStartup, TLAPS

(* What ReadyHasData rests on: directories are never removed, so what a     *)
(* process has seen or made is still there.                                 *)
Domains == pc \in [Procs -> Running \cup Ended] /\ path \in [Procs -> Paths]

CacheSeen ==
    \A p \in Procs : pc[p] \in {"checkData", "createData"} => path[p] \in dirs

StartupInv == Domains /\ CacheSeen /\ ReadyHasData

LEMMA StartupInvInit == Init => StartupInv
BY DEF Init, StartupInv, Domains, CacheSeen, ReadyHasData, Running, Ended

LEMMA StartupInvStep == StartupInv /\ [Next]_vars => StartupInv'
<1> SUFFICES ASSUME StartupInv, [Next]_vars PROVE StartupInv'
  OBVIOUS
<1> USE DEF StartupInv, Domains, CacheSeen, ReadyHasData, Goto, Running, Ended
<1>1. ASSUME NEW p \in Procs, Start(p) PROVE StartupInv'
  BY <1>1 DEF Start
<1>2. ASSUME NEW p \in Procs, ChoosePath(p) PROVE StartupInv'
  BY <1>2 DEF ChoosePath, Paths
<1>3. ASSUME NEW p \in Procs, CheckCache(p) PROVE StartupInv'
  BY <1>3 DEF CheckCache
<1>4. ASSUME NEW p \in Procs, CreateCache(p) PROVE StartupInv'
  BY <1>4 DEF CreateCache, CreateDir
<1>5. ASSUME NEW p \in Procs, CheckData(p) PROVE StartupInv'
  BY <1>5 DEF CheckData
<1>6. ASSUME NEW p \in Procs, CreateData(p) PROVE StartupInv'
  BY <1>6 DEF CreateData, CreateDir
<1>7. ASSUME NEW p \in Procs, Abort(p) PROVE StartupInv'
  BY <1>7 DEF Abort
<1>8. ASSUME NEW p \in Procs, ManifestFails(p) PROVE StartupInv'
  BY <1>8 DEF ManifestFails
<1>9. CASE UNCHANGED vars
  BY <1>9 DEF vars
<1> QED
  BY <1>1, <1>2, <1>3, <1>4, <1>5, <1>6, <1>7, <1>8, <1>9 DEF Next, Step

(* However many processes start at once, on however many cache directories, *)
(* and wherever some of them are killed, a process that goes on to read the *)
(* index has a whole cache directory.                                       *)
THEOREM StartupCompletes == Spec => []ReadyHasData
<1>1. StartupInv => ReadyHasData
  BY DEF StartupInv
<1> QED
  BY <1>1, StartupInvInit, StartupInvStep, PTL DEF Spec
=============================================================================
