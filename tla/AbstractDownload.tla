-------------------------- MODULE AbstractDownload --------------------------
(***************************************************************************)
(* What the download command promises its users, without files, indexes or *)
(* blocks.  There is a set of cached versions.  A download is served from  *)
(* it when its version is in it, and only then; otherwise the version is   *)
(* fetched and offered to later downloads before it is delivered.  A       *)
(* version leaves the cache by itself only when time passes or a download  *)
(* fails.  A success delivers the whole file that was asked for.           *)
(***************************************************************************)
CONSTANTS
    Procs,          \* users
    Requests,       \* the downloads they may ask for
    Key(_),         \* what the cache knows a request by
    Source(_),      \* the file a request asks for
    NoSource        \* nothing was delivered

VARIABLES
    cached,         \* the keys a download can be served for without a fetch
    phase,          \* how far each user's download is
    asked,          \* each user's request
    delivered       \* the file each user was given

vars == <<cached, phase, asked, delivered>>

Pending == {"asked", "hit", "missed", "stored"}

Over == {"idle", "cached", "fresh", "failed"}

Init ==
    /\ cached = {}
    /\ phase = [p \in Procs |-> "idle"]
    /\ asked \in [Procs -> Requests]
    /\ delivered = [p \in Procs |-> NoSource]

Move(p, from, to) ==
    /\ phase[p] = from
    /\ phase' = [phase EXCEPT ![p] = to]

Ask(p) ==
    /\ phase[p] \in Over
    /\ phase' = [phase EXCEPT ![p] = "asked"]
    /\ \E r \in Requests : asked' = [asked EXCEPT ![p] = r]
    /\ delivered' = [delivered EXCEPT ![p] = NoSource]
    /\ cached' = cached

Hit(p) ==
    /\ Key(asked[p]) \in cached
    /\ Move(p, "asked", "hit")
    /\ UNCHANGED <<cached, asked, delivered>>

Miss(p) ==
    /\ Key(asked[p]) \notin cached
    /\ Move(p, "asked", "missed")
    /\ UNCHANGED <<cached, asked, delivered>>

(* A version whose time has passed when it is stored is not offered. *)
Store(p) ==
    /\ Move(p, "missed", "stored")
    /\ cached' \in {cached, cached \cup {Key(asked[p])}}
    /\ UNCHANGED <<asked, delivered>>

Deliver(p) ==
    /\ Move(p, "hit", "cached") \/ Move(p, "stored", "fresh")
    /\ delivered' = [delivered EXCEPT ![p] = Source(asked[p])]
    /\ UNCHANGED <<cached, asked>>

Fail(p) ==
    /\ phase[p] \in Pending
    /\ phase' = [phase EXCEPT ![p] = "failed"]
    /\ cached' \subseteq cached
    /\ UNCHANGED <<asked, delivered>>

Expire ==
    /\ cached' \subseteq cached
    /\ UNCHANGED <<phase, asked, delivered>>

Next ==
    \/ \E p \in Procs :
         Ask(p) \/ Hit(p) \/ Miss(p) \/ Store(p) \/ Deliver(p) \/ Fail(p)
    \/ Expire

Spec == Init /\ [][Next]_vars
=============================================================================
