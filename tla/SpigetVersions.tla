--------------------------- MODULE SpigetVersions ---------------------------
(***************************************************************************)
(* How a command finds the version it is asked for: SpigetPlugin of        *)
(* src/adapter/spiget.rs.  It asks the Spiget API for the details of the   *)
(* resource, counts the versions in them, then asks for that many versions *)
(* and looks for the wanted one among these.  Versions are published and   *)
(* withdrawn meanwhile, and the HTTP cache in front of the API             *)
(* (IoSession::new) may answer either request with an earlier response.    *)
(***************************************************************************)
EXTENDS Sequences, FiniteSets, SequencesExt, CliTable

CONSTANTS
    MaxVersions,    \* versions ever published
    NameOf,         \* the name of each version
    TextOf,         \* the length of what a listing prints for each version
    Specs,          \* what a command may ask for
    NoResponse

(* Identifiers are given out in the order of publication. *)
VersionIds == 1..MaxVersions

(* Stands for the text of an identifier that is not a number. *)
NotANumber == 0

SpecKinds == {"latest", "name", "identifier", "list"}

ASSUME VersionsAssumption == MaxVersions \in Nat
ASSUME NamesAssumption == DOMAIN NameOf = VersionIds
ASSUME TextAssumption ==
    TextOf \in [VersionIds -> [name : Nat, date : Nat, identifier : Nat, url : Nat]]
(* The limit of the `versions` command is a u64. *)
ASSUME SpecsAssumption ==
    \A spec \in Specs : spec.kind \in SpecKinds /\ (spec.kind = "list" => spec.limit \in Nat)

Running == {"details", "versions", "resolve"}

Ended == {"idle", "failed", "done"}

VARIABLES
    published,      \* the resource's versions at the API, newest first
    issued,         \* how many there ever were
    kept,           \* responses in the HTTP cache: what was published then
    pc,
    spec,           \* the VersionSpec of the command, or how many to list
    count,          \* the number of versions in the details
    versions,       \* SpigetPlugin::cached_versions
    answer,         \* the versions found
    moments         \* history: what was published when a response the
                    \* command has used was made, and while it ran

server == <<published, issued>>
vars == <<server, kept, pc, spec, count, versions, answer, moments>>

Init ==
    /\ published = <<>>
    /\ issued = 0
    /\ kept = [details |-> NoResponse, list |-> [n \in 0..MaxVersions |-> NoResponse]]
    /\ pc = "idle"
    /\ spec \in Specs
    /\ count = 0
    /\ versions = <<>>
    /\ answer = <<>>
    /\ moments = {published}

Least(m, n) == IF m < n THEN m ELSE n

-----------------------------------------------------------------------------
(* The API, as the code uses it. *)

(* What is published changes under a running command. *)
Witness(all) == moments' = IF pc \in Running THEN moments \cup {all} ELSE moments

Publish ==
    /\ issued < MaxVersions
    /\ issued' = issued + 1
    /\ published' = <<issued + 1>> \o published
    /\ Witness(published')
    /\ UNCHANGED <<kept, pc, spec, count, versions, answer>>

Withdraw ==
    /\ \E i \in DOMAIN published : published' = RemoveAt(published, i)
    /\ Witness(published')
    /\ UNCHANGED <<issued, kept, pc, spec, count, versions, answer>>

(* Faulty: the list is asked for without sort=-releaseDate. *)
Newest_Unsorted(n, all) == SubSeq(Reverse(all), 1, Least(n, Len(all)))

(* size=n&sort=-releaseDate *)
Newest(n, all) == SubSeq(all, 1, Least(n, Len(all)))

-----------------------------------------------------------------------------
(* The command. *)

End(outcome, found) ==
    /\ pc' = outcome
    /\ answer' = found
    /\ count' = 0
    /\ versions' = <<>>

Start ==
    /\ pc \in Ended
    /\ pc' = "details"
    /\ spec' \in Specs
    /\ answer' = <<>>
    /\ moments' = {published}
    /\ UNCHANGED <<server, kept, count, versions>>

(* Faulty: the default page size instead of the number of versions. *)
FetchDetails_OnePage ==
    /\ pc = "details"
    /\ count' = 1
    /\ pc' = "versions"
    /\ UNCHANGED <<server, kept, spec, versions, answer, moments>>

(* resource_details: the number of versions, now or when the HTTP cache     *)
(* kept its response.                                                       *)
FetchDetails ==
    /\ pc = "details"
    /\ \/ /\ count' = Len(published)
          /\ kept' \in {kept, [kept EXCEPT !.details = published]}
          /\ moments' = moments
       \/ /\ kept.details # NoResponse
          /\ count' = Len(kept.details)
          /\ moments' = moments \cup {kept.details}
          /\ kept' = kept
    /\ pc' = "versions"
    /\ UNCHANGED <<server, spec, versions, answer>>

(* versions_map: a response is kept for each size.                          *)
FetchVersions ==
    /\ pc = "versions"
    /\ \/ /\ versions' = Newest(count, published)
          /\ kept' \in {kept, [kept EXCEPT !.list[count] = published]}
          /\ moments' = moments
       \/ /\ kept.list[count] # NoResponse
          /\ versions' = Newest(count, kept.list[count])
          /\ moments' = moments \cup {kept.list[count]}
          /\ kept' = kept
    /\ pc' = "resolve"
    /\ UNCHANGED <<server, spec, count, answer>>

(* An answer other than 200, one that does not parse, or none. *)
RequestFails ==
    /\ pc \in {"details", "versions"}
    /\ End("failed", <<>>)
    /\ UNCHANGED <<server, kept, spec, moments>>

Fits(v) ==
    CASE spec.kind = "latest" -> TRUE
      [] spec.kind = "name" -> NameOf[v] = spec.name
      [] spec.kind = "identifier" -> v = spec.identifier

(* latest_version, search_version and version: the first that fits. *)
FirstFitting ==
    LET i == SelectInSeq(versions, Fits)
    IN  IF i = 0 THEN <<>> ELSE <<versions[i]>>

Malformed == spec.kind = "identifier" /\ spec.identifier = NotANumber

(* version_from_spec, as the `info` and `download` commands use it. *)
Resolve ==
    /\ pc = "resolve"
    /\ spec.kind # "list"
    /\ IF Malformed THEN End("failed", <<>>) ELSE End("done", FirstFitting)
    /\ UNCHANGED <<server, kept, spec, moments>>

(* What the `versions` command lists. *)
ListVersions ==
    /\ pc = "resolve"
    /\ spec.kind = "list"
    /\ End("done", Newest(spec.limit, versions))
    /\ UNCHANGED <<server, kept, spec, moments>>

Next ==
    \/ Publish
    \/ Withdraw
    \/ Start
    \/ FetchDetails
    \/ FetchVersions
    \/ RequestFails
    \/ Resolve
    \/ ListVersions

Spec == Init /\ [][Next]_vars

-----------------------------------------------------------------------------

(* What a command should answer when `all` is published: the newest version *)
(* there is that fits, or the newest ones.                                  *)
Right(found, all) ==
    IF spec.kind = "list"
    THEN /\ IsPrefix(found, all)
         /\ Len(found) = Least(spec.limit, Len(all))
    ELSE LET fitting == {v \in ToSet(all) : Fits(v)} IN
         \/ fitting = {} /\ found = <<>>
         \/ \E v \in fitting : found = <<v>> /\ \A w \in fitting : w <= v

(* A version that is found is the newest one that fits, as of some moment   *)
(* the command has seen, whatever was published and withdrawn between its   *)
(* two requests; versions listed are the newest ones, without gaps          *)
(* ("Will return the most recent version with this name").                  *)
FoundIsNewest ==
    pc = "done" /\ answer # <<>> =>
        \E all \in moments :
            IF spec.kind = "list" THEN IsPrefix(answer, all) /\ Len(answer) <= spec.limit
            ELSE Right(answer, all)

(* If nothing changed at the API since the responses that were used, the    *)
(* answer is exactly right; in particular no version is missed that is      *)
(* there (versions_map asks for as many versions as there are).             *)
QuietIsExact ==
    pc = "done" => \A all \in moments : moments = {all} => Right(answer, all)

(* A listing never panics for a row that does not fit its columns, and its  *)
(* lines, in bytes, are all as long as the rule under the column names      *)
(* (CliTableRow::write, "a cell in this row is wider than the width of its  *)
(* column"), whatever versions were found.                                  *)
ListingIsAligned ==
    pc = "done" /\ spec.kind = "list" =>
        \A withUrl \in BOOLEAN :
            LET table == VersionsTable([i \in DOMAIN answer |-> TextOf[answer[i]]], withUrl)
                lines == Lines(table)
            IN  /\ RowsFit(table)
                /\ Len(lines) = Len(answer) + 2
                /\ \A i \in DOMAIN lines : lines[i] # Underflow /\ lines[i] = lines[1]
=============================================================================
