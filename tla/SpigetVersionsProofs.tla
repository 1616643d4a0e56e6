------------------------ MODULE SpigetVersionsProofs ------------------------
(* Proofs about finding a version, for every value of the constants. *)
EXTENDS SpigetVersions, CliTableProofs

USE VersionsAssumption

-----------------------------------------------------------------------------
(* Listings: what the API may have published, newest first.                *)

Descending(s) == \A i, j \in DOMAIN s : i < j => s[i] > s[j]
Listings == {s \in Seq(VersionIds) : Descending(s)}

(* There are no more versions in a listing than were ever published.        *)
LEMMA ListingLength ==
    ASSUME NEW s \in Listings
    PROVE  Len(s) \in 0..MaxVersions /\ DOMAIN s = 1..Len(s) /\ s \in Seq(VersionIds)
<1>1. s \in [1..Len(s) -> VersionIds] /\ Len(s) \in Nat /\ DOMAIN s = 1..Len(s)
  BY DEF Listings
<1>2. s \in Injection(1..Len(s), VersionIds)
  <2>1. ASSUME NEW i \in 1..Len(s), NEW j \in 1..Len(s), s[i] = s[j] PROVE i = j
    <3>1. ~(s[i] > s[j]) /\ ~(s[j] > s[i])
      BY <1>1, <2>1 DEF VersionIds
    <3> QED
      BY <1>1, <3>1 DEF Listings, Descending
  <2> QED
    BY <1>1, <2>1 DEF Injection, IsInjective
<1>3. IsFiniteSet(VersionIds) /\ Cardinality(VersionIds) = MaxVersions
  BY FS_Interval DEF VersionIds
<1>4. Cardinality(1..Len(s)) = Len(s)
  <2>1. Cardinality(1..Len(s)) = IF 1 > Len(s) THEN 0 ELSE Len(s) - 1 + 1
    BY <1>1, FS_Interval
  <2> QED
    BY <1>1, <2>1
<1> QED
  BY <1>1, <1>2, <1>3, <1>4, FS_Injection DEF Listings

(* A listing of some size is the newest part of what there is.              *)
LEMMA NewestIs ==
    ASSUME NEW n \in Nat, NEW s \in Listings
    PROVE  /\ Len(Newest(n, s)) = Least(n, Len(s))
           /\ Least(n, Len(s)) \in 0..Len(s) /\ Least(n, Len(s)) <= n
           /\ \A i \in 1..Least(n, Len(s)) : Newest(n, s)[i] = s[i]
           /\ Newest(n, s) \in Listings
<1>1. s \in Seq(VersionIds) /\ Len(s) \in Nat /\ DOMAIN s = 1..Len(s)
  BY ListingLength
<1> DEFINE m == Least(n, Len(s))
<1>2. m \in 0..Len(s) /\ m <= n
  BY <1>1 DEF Least
<1> HIDE DEF m
<1>3. /\ SubSeq(s, 1, m) \in Seq(VersionIds) /\ Len(SubSeq(s, 1, m)) = m
      /\ \A i \in 1..m : SubSeq(s, 1, m)[i] = s[i]
  <2>1. \A i \in 1..m : s[i] \in VersionIds
    BY <1>1, <1>2
  <2> QED
    BY <1>1, <1>2, <2>1, SubSeqProperties
<1>4. Descending(SubSeq(s, 1, m))
  BY <1>1, <1>2, <1>3 DEF Listings, Descending
<1> QED
  BY <1>2, <1>3, <1>4 DEF Newest, Listings, m

(* What stays when a version is withdrawn.                                  *)
LEMMA RemoveAtIs ==
    ASSUME NEW s \in Listings, NEW i \in DOMAIN s
    PROVE  /\ RemoveAt(s, i) \in Listings
           /\ \A j \in DOMAIN RemoveAt(s, i) : \E k \in DOMAIN s : RemoveAt(s, i)[j] = s[k]
<1>1. s \in Seq(VersionIds) /\ Len(s) \in Nat /\ DOMAIN s = 1..Len(s) /\ i \in 1..Len(s)
  BY ListingLength
<1> DEFINE a == SubSeq(s, 1, i - 1)
           b == SubSeq(s, i + 1, Len(s))
           new == RemoveAt(s, i)
           Old(j) == IF j < i THEN j ELSE j + 1
<1>2. /\ a \in Seq(VersionIds) /\ Len(a) = i - 1
      /\ \A j \in 1..(i - 1) : a[j] = s[j]
  <2>1. \A j \in 1..(i - 1) : s[j] \in VersionIds
    BY <1>1
  <2>2. /\ a \in Seq(VersionIds) /\ Len(a) = (IF 1 <= i - 1 THEN (i - 1) - 1 + 1 ELSE 0)
        /\ \A j \in 1..((i - 1) - 1 + 1) : a[j] = s[1 + j - 1]
    BY <1>1, <2>1, SubSeqProperties
  <2> QED
    BY <1>1, <2>2
<1>3. /\ b \in Seq(VersionIds) /\ Len(b) = Len(s) - i
      /\ \A j \in 1..(Len(s) - i) : b[j] = s[i + j]
  <2>1. \A j \in (i + 1)..Len(s) : s[j] \in VersionIds
    BY <1>1
  <2>2. /\ b \in Seq(VersionIds) /\ Len(b) = (IF i + 1 <= Len(s) THEN Len(s) - (i + 1) + 1 ELSE 0)
        /\ \A j \in 1..(Len(s) - (i + 1) + 1) : b[j] = s[(i + 1) + j - 1]
    BY <1>1, <2>1, SubSeqProperties
  <2> QED
    BY <1>1, <2>2
<1>4. new = a \o b
  BY DEF RemoveAt
<1> HIDE DEF a, b, new
<1>5. /\ new \in Seq(VersionIds) /\ Len(new) = Len(s) - 1
      /\ \A j \in 1..(Len(s) - 1) : new[j] = IF j < i THEN a[j] ELSE b[j - (i - 1)]
  <2>1. /\ new \in Seq(VersionIds) /\ Len(new) = Len(a) + Len(b)
        /\ \A j \in 1..(Len(a) + Len(b)) : new[j] = IF j <= Len(a) THEN a[j] ELSE b[j - Len(a)]
    BY <1>2, <1>3, <1>4, ConcatProperties
  <2> QED
    BY <1>1, <1>2, <1>3, <2>1
<1>6. ASSUME NEW j \in 1..(Len(s) - 1) PROVE new[j] = s[Old(j)] /\ Old(j) \in DOMAIN s
  <2>1. CASE j < i
    <3>1. j \in 1..(i - 1) /\ j \in DOMAIN s /\ new[j] = a[j]
      BY <1>1, <1>5, <2>1
    <3> QED
      BY <1>2, <2>1, <3>1
  <2>2. CASE ~(j < i)
    <3>1. new[j] = b[j - (i - 1)] /\ j - (i - 1) \in 1..(Len(s) - i)
      BY <1>1, <1>5, <2>2
    <3>2. b[j - (i - 1)] = s[i + (j - (i - 1))] /\ i + (j - (i - 1)) = j + 1
      BY <1>1, <1>3, <3>1
    <3> QED
      BY <1>1, <2>2, <3>1, <3>2
  <2> QED
    BY <2>1, <2>2
<1>7. DOMAIN new = 1..(Len(s) - 1)
  BY <1>5
<1>8. Descending(new)
  <2> SUFFICES ASSUME NEW j \in DOMAIN new, NEW k \in DOMAIN new, j < k PROVE new[j] > new[k]
    BY DEF Descending
  <2>1. Old(j) < Old(k)
    BY <1>1, <1>7
  <2>2. Old(j) \in DOMAIN s /\ Old(k) \in DOMAIN s /\ new[j] = s[Old(j)] /\ new[k] = s[Old(k)]
    BY <1>6, <1>7
  <2> HIDE DEF Old
  <2> QED
    BY <2>1, <2>2 DEF Listings, Descending
<1> QED
  BY <1>5, <1>6, <1>7, <1>8 DEF Listings, new

(* A version that is published is newer than all before it.                 *)
LEMMA PrependIs ==
    ASSUME NEW s \in Listings, NEW n \in 0..MaxVersions, n < MaxVersions, \A i \in DOMAIN s : s[i] <= n
    PROVE  /\ <<n + 1>> \o s \in Listings
           /\ \A i \in DOMAIN (<<n + 1>> \o s) : (<<n + 1>> \o s)[i] <= n + 1
<1>1. s \in Seq(VersionIds) /\ Len(s) \in Nat /\ DOMAIN s = 1..Len(s)
  BY ListingLength
<1>2. <<n + 1>> \in Seq(VersionIds) /\ Len(<<n + 1>>) = 1 /\ <<n + 1>>[1] = n + 1
  BY DEF VersionIds
<1> DEFINE new == <<n + 1>> \o s
<1>3. /\ new \in Seq(VersionIds) /\ Len(new) = 1 + Len(s)
      /\ \A i \in 1..(1 + Len(s)) : new[i] = IF i <= 1 THEN <<n + 1>>[i] ELSE s[i - 1]
  BY <1>1, <1>2, ConcatProperties
<1> HIDE DEF new
<1>4. DOMAIN new = 1..(1 + Len(s)) /\ new[1] = n + 1
  BY <1>1, <1>2, <1>3
<1>5. \A i \in 2..(1 + Len(s)) : new[i] = s[i - 1] /\ i - 1 \in DOMAIN s /\ s[i - 1] \in VersionIds
  BY <1>1, <1>3
<1>6. Descending(new)
  <2> SUFFICES ASSUME NEW j \in DOMAIN new, NEW k \in DOMAIN new, j < k PROVE new[j] > new[k]
    BY DEF Descending
  <2>1. k \in 2..(1 + Len(s)) /\ j \in 1..(1 + Len(s))
    BY <1>1, <1>4
  <2>2. CASE j = 1
    BY <1>4, <1>5, <2>1, <2>2 DEF VersionIds
  <2>3. CASE j # 1
    <3>1. j \in 2..(1 + Len(s)) /\ j - 1 < k - 1
      BY <1>1, <2>1, <2>3
    <3> QED
      BY <1>5, <2>1, <3>1 DEF Listings, Descending
  <2> QED
    BY <2>2, <2>3
<1>7. \A i \in DOMAIN new : new[i] <= n + 1
  <2> SUFFICES ASSUME NEW i \in DOMAIN new PROVE new[i] <= n + 1
    OBVIOUS
  <2>1. CASE i = 1
    BY <1>4, <2>1
  <2>2. CASE i # 1
    <3>1. i \in 2..(1 + Len(s))
      BY <1>1, <1>4, <2>2
    <3> QED
      BY <1>5, <3>1 DEF VersionIds
  <2> QED
    BY <2>1, <2>2
<1> QED
  BY <1>3, <1>6, <1>7 DEF Listings, new

-----------------------------------------------------------------------------
(* The inductive invariant.                                                *)

Responses == Listings \cup {NoResponse}

ServerOK ==
    /\ issued \in 0..MaxVersions
    /\ published \in Listings
    /\ \A i \in DOMAIN published : published[i] <= issued
    /\ kept \in [details : Responses, list : [0..MaxVersions -> Responses]]

(* A running command has seen what is published now.                        *)
MomentsOK ==
    /\ moments \subseteq Listings
    /\ pc \in Running => published \in moments

(* The number of versions and the list of them may be of different moments. *)
Counted == \E all \in moments : count = Len(all)
Fetched == \E all \in moments : versions = Newest(count, all)

SpigetInv ==
    /\ ServerOK
    /\ MomentsOK
    /\ pc \in Running \cup Ended
    /\ spec \in Specs
    /\ answer \in Seq(VersionIds)
    /\ pc = "versions" => Counted
    /\ pc = "resolve" => Counted /\ Fetched
    /\ FoundIsNewest
    /\ QuietIsExact

LEMMA SpigetInit == Init => SpigetInv
<1> SUFFICES ASSUME Init PROVE SpigetInv
  OBVIOUS
<1>1. <<>> \in Listings
  BY DEF Listings, Descending
<1>2. ServerOK
  BY <1>1 DEF Init, ServerOK, Responses
<1> QED
  BY <1>1, <1>2 DEF Init, SpigetInv, MomentsOK, Running, Ended, FoundIsNewest, QuietIsExact

(* A number that was counted is one a response may be kept for.             *)
LEMMA CountedType == MomentsOK /\ Counted => count \in 0..MaxVersions
BY ListingLength DEF MomentsOK, Counted

-----------------------------------------------------------------------------
(* What a command answers.                                                 *)

(* search_version and version find the first version that fits.             *)
LEMMA FirstFits ==
    ASSUME versions \in Seq(VersionIds)
    PROVE  \/ FirstFitting = <<>> /\ \A j \in DOMAIN versions : ~Fits(versions[j])
           \/ \E i \in DOMAIN versions :
                 /\ FirstFitting = <<versions[i]>>
                 /\ Fits(versions[i])
                 /\ \A j \in DOMAIN versions : Fits(versions[j]) => i <= j
<1> DEFINE I == {i \in 1..Len(versions) : Fits(versions[i])}
           i == SelectInSeq(versions, Fits)
<1>1. DOMAIN versions = 1..Len(versions) /\ Len(versions) \in Nat
  OBVIOUS
<1>2. i = IF I # {} THEN Min(I) ELSE 0
  BY DEF SelectInSeq
<1>3. I \in SUBSET Nat
  OBVIOUS
<1>4. CASE I = {}
  BY <1>1, <1>2, <1>4 DEF FirstFitting
<1>5. CASE I # {}
  <2>1. Min(I) \in I /\ \A y \in I : Min(I) <= y
    BY <1>3, <1>5, LeastMember
  <2>2. i \in I /\ i # 0 /\ \A y \in I : i <= y
    BY <1>2, <1>5, <2>1
  <2>3. FirstFitting = <<versions[i]>>
    BY <2>2 DEF FirstFitting
  <2> HIDE DEF i
  <2> QED
    BY <1>1, <2>2, <2>3
<1> QED
  BY <1>4, <1>5

(* A version found is the newest that fits, and none is missed in a list of *)
(* everything.                                                              *)
LEMMA FoundRight ==
    ASSUME NEW n \in Nat, NEW all \in Listings, versions = Newest(n, all), spec.kind # "list"
    PROVE  /\ FirstFitting # <<>> => Right(FirstFitting, all)
           /\ n = Len(all) => Right(FirstFitting, all)
<1> DEFINE m == Least(n, Len(all))
           fitting == {v \in ToSet(all) : Fits(v)}
<1>1. /\ all \in Seq(VersionIds) /\ DOMAIN all = 1..Len(all) /\ Len(all) \in Nat
      /\ \A j \in DOMAIN all : all[j] \in VersionIds
  BY ListingLength
<1>2. /\ versions \in Seq(VersionIds) /\ DOMAIN versions = 1..m /\ m \in 0..Len(all)
      /\ \A j \in 1..m : versions[j] = all[j]
  BY NewestIs, ListingLength
<1>3. n = Len(all) => m = Len(all)
  BY <1>1 DEF Least
<1> HIDE DEF m
<1>4. ASSUME NEW i \in DOMAIN versions, FirstFitting = <<versions[i]>>, Fits(versions[i]),
             \A j \in DOMAIN versions : Fits(versions[j]) => i <= j
      PROVE  Right(FirstFitting, all)
  <2>1. i \in DOMAIN all /\ versions[i] = all[i] /\ all[i] \in fitting
    BY <1>1, <1>2, <1>4 DEF ToSet
  <2>2. ASSUME NEW w \in fitting PROVE w <= all[i]
    <3>1. PICK j \in DOMAIN all : w = all[j] /\ Fits(all[j])
      BY DEF ToSet
    <3>2. i <= j
      <4>1. CASE j \in DOMAIN versions
        BY <1>2, <1>4, <3>1, <4>1
      <4>2. CASE j \notin DOMAIN versions
        BY <1>1, <1>2, <1>4, <4>2
      <4> QED
        BY <4>1, <4>2
    <3>3. i = j \/ all[i] > all[j]
      BY <1>1, <2>1, <3>2 DEF Listings, Descending
    <3> QED
      BY <1>1, <2>1, <3>1, <3>3 DEF VersionIds
  <2> QED
    BY <1>4, <2>1, <2>2 DEF Right
<1>5. ASSUME FirstFitting = <<>>, \A j \in DOMAIN versions : ~Fits(versions[j]), n = Len(all)
      PROVE  Right(FirstFitting, all)
  <2>1. fitting = {}
    BY <1>1, <1>2, <1>3, <1>5 DEF ToSet
  <2> QED
    BY <1>5, <2>1 DEF Right
<1> QED
  BY <1>2, <1>4, <1>5, FirstFits

(* Listings that agree as far as the first goes.                            *)
LEMMA PrefixWhen ==
    ASSUME NEW s \in Seq(VersionIds), NEW t \in Seq(VersionIds), Len(s) <= Len(t),
           \A i \in 1..Len(s) : s[i] = t[i]
    PROVE  IsPrefix(s, t)
<1> DEFINE k == Len(s)
<1>1. k \in Nat /\ Len(t) \in Nat /\ DOMAIN s = 1..k /\ DOMAIN t = 1..Len(t)
  OBVIOUS
<1>2. /\ \A i \in 1..k : s[i] \in VersionIds
      /\ \A i \in 1..k : t[i] \in VersionIds
  BY <1>1
<1>3. /\ SubSeq(s, 1, k) \in Seq(VersionIds) /\ Len(SubSeq(s, 1, k)) = k
      /\ \A i \in 1..k : SubSeq(s, 1, k)[i] = s[i]
  BY <1>1, <1>2, SubSeqProperties
<1>4. /\ SubSeq(t, 1, k) \in Seq(VersionIds) /\ Len(SubSeq(t, 1, k)) = k
      /\ \A i \in 1..k : SubSeq(t, 1, k)[i] = t[i]
  BY <1>1, <1>2, SubSeqProperties
<1>5. SubSeq(s, 1, k) = SubSeq(t, 1, k)
  BY <1>3, <1>4, SeqEqual
<1> QED
  BY <1>5 DEF IsPrefix

(* A list is the newest part of what there is, all of it when it was        *)
(* fetched whole and is not limited.                                        *)
LEMMA ListRight ==
    ASSUME NEW n \in Nat, NEW all \in Listings, versions = Newest(n, all),
           spec.kind = "list", spec.limit \in Nat
    PROVE  /\ IsPrefix(Newest(spec.limit, versions), all)
           /\ Len(Newest(spec.limit, versions)) <= spec.limit
           /\ n = Len(all) => Right(Newest(spec.limit, versions), all)
<1> DEFINE m == Least(n, Len(all))
           k == Least(spec.limit, Len(versions))
           found == Newest(spec.limit, versions)
<1>1. all \in Seq(VersionIds) /\ Len(all) \in Nat
  BY ListingLength
<1>2. /\ versions \in Listings /\ Len(versions) = m /\ m \in 0..Len(all)
      /\ \A j \in 1..m : versions[j] = all[j]
  BY NewestIs
<1>3. /\ found \in Listings /\ Len(found) = k /\ k \in 0..m /\ k <= spec.limit
      /\ \A j \in 1..k : found[j] = versions[j]
  BY <1>2, NewestIs
<1>4. found \in Seq(VersionIds)
  BY <1>3, ListingLength
<1>5. n = Len(all) => k = Least(spec.limit, Len(all))
  BY <1>1, <1>2 DEF Least
<1> HIDE DEF m, k, found
<1>6. Len(found) <= Len(all) /\ \A i \in 1..Len(found) : found[i] = all[i]
  BY <1>1, <1>2, <1>3
<1>7. IsPrefix(found, all)
  BY <1>1, <1>4, <1>6, PrefixWhen
<1>8. n = Len(all) => Right(found, all)
  BY <1>3, <1>5, <1>7 DEF Right
<1> QED
  BY <1>3, <1>7, <1>8 DEF found

-----------------------------------------------------------------------------
(* Every step keeps the invariant, one step of the proof for each.          *)

(* A command that has ended keeps its answer and what it has seen.          *)
LEMMA EndedStays ==
    ASSUME FoundIsNewest, QuietIsExact, UNCHANGED <<spec, answer, moments>>, pc' = "done" => pc = "done"
    PROVE  FoundIsNewest' /\ QuietIsExact'
BY DEF FoundIsNewest, QuietIsExact, Right, Fits

(* The server publishes or withdraws, whatever a command is doing.          *)
LEMMA ServerStep ==
    ASSUME SpigetInv, published' \in Listings, issued' \in 0..MaxVersions,
           \A i \in DOMAIN published' : published'[i] <= issued',
           Witness(published'), UNCHANGED <<kept, pc, spec, count, versions, answer>>
    PROVE  SpigetInv'
<1>1. moments \subseteq moments' /\ moments' \subseteq moments \cup {published'}
  BY DEF Witness
<1>2. ServerOK'
  BY DEF SpigetInv, ServerOK
<1>3. MomentsOK'
  BY <1>1 DEF SpigetInv, MomentsOK, Witness
<1>4. /\ Counted => Counted'
      /\ Fetched => Fetched'
  BY <1>1 DEF Counted, Fetched
<1>5. FoundIsNewest' /\ QuietIsExact'
  <2>1. CASE pc \in Running
    BY <2>1 DEF Running, FoundIsNewest, QuietIsExact
  <2>2. CASE pc \notin Running
    BY <2>2, EndedStays DEF SpigetInv, Witness
  <2> QED
    BY <2>1, <2>2
<1> QED
  BY <1>2, <1>3, <1>4, <1>5 DEF SpigetInv

LEMMA SpigetStep == SpigetInv /\ [Next]_vars => SpigetInv'
<1> SUFFICES ASSUME SpigetInv, [Next]_vars PROVE SpigetInv'
  OBVIOUS
<1>0. ServerOK /\ MomentsOK
  BY DEF SpigetInv
<1>1. CASE Publish
  <2>1. issued < MaxVersions /\ issued \in 0..MaxVersions
    BY <1>0, <1>1 DEF Publish, ServerOK
  <2>2. /\ <<issued + 1>> \o published \in Listings
        /\ \A i \in DOMAIN (<<issued + 1>> \o published) : (<<issued + 1>> \o published)[i] <= issued + 1
    BY <1>0, <2>1, PrependIs DEF ServerOK
  <2> QED
    BY <1>1, <2>1, <2>2, ServerStep DEF Publish
<1>2. CASE Withdraw
  <2>1. PICK i \in DOMAIN published : published' = RemoveAt(published, i)
    BY <1>2 DEF Withdraw
  <2>2. /\ RemoveAt(published, i) \in Listings
        /\ \A j \in DOMAIN RemoveAt(published, i) : RemoveAt(published, i)[j] <= issued
    BY <1>0, RemoveAtIs DEF ServerOK
  <2> QED
    BY <1>0, <1>2, <2>1, <2>2, ServerStep DEF Withdraw, ServerOK
<1>3. CASE Start
  <2>1. ServerOK' /\ MomentsOK'
    BY <1>0, <1>3 DEF Start, server, ServerOK, MomentsOK
  <2> QED
    BY <1>3, <2>1 DEF Start, SpigetInv, FoundIsNewest, QuietIsExact, Running
<1>4. CASE FetchDetails
  <2>1. PICK all \in Listings :
           /\ count' = Len(all) /\ moments' = moments \cup {all}
           /\ kept' \in {kept, [kept EXCEPT !.details = all]}
    <3>1. CASE /\ count' = Len(published)
               /\ kept' \in {kept, [kept EXCEPT !.details = published]}
               /\ moments' = moments
      <4>1. published \in moments /\ published \in Listings
        BY <1>0, <1>4 DEF FetchDetails, MomentsOK, Running, ServerOK
      <4> QED
        BY <3>1, <4>1
    <3>2. CASE /\ kept.details # NoResponse
               /\ count' = Len(kept.details)
               /\ moments' = moments \cup {kept.details}
               /\ kept' = kept
      <4>1. kept.details \in Listings
        BY <1>0, <3>2 DEF ServerOK, Responses
      <4> QED
        BY <3>2, <4>1
    <3> QED
      BY <1>4, <3>1, <3>2 DEF FetchDetails
  <2>2. ServerOK' /\ MomentsOK'
    BY <1>0, <1>4, <2>1 DEF FetchDetails, server, ServerOK, MomentsOK, Responses, Running
  <2>3. Counted'
    BY <2>1 DEF Counted
  <2> QED
    BY <1>4, <2>2, <2>3 DEF FetchDetails, SpigetInv, FoundIsNewest, QuietIsExact, Running
<1>5. CASE FetchVersions
  <2>1. Counted /\ count \in 0..MaxVersions
    BY <1>0, <1>5, CountedType DEF FetchVersions, SpigetInv
  <2>2. PICK all \in Listings :
           /\ versions' = Newest(count, all) /\ moments' = moments \cup {all}
           /\ kept' \in {kept, [kept EXCEPT !.list[count] = all]}
    <3>1. CASE /\ versions' = Newest(count, published)
               /\ kept' \in {kept, [kept EXCEPT !.list[count] = published]}
               /\ moments' = moments
      <4>1. published \in moments /\ published \in Listings
        BY <1>0, <1>5 DEF FetchVersions, MomentsOK, Running, ServerOK
      <4> QED
        BY <3>1, <4>1
    <3>2. CASE /\ kept.list[count] # NoResponse
               /\ versions' = Newest(count, kept.list[count])
               /\ moments' = moments \cup {kept.list[count]}
               /\ kept' = kept
      <4>1. kept.list[count] \in Listings
        BY <1>0, <2>1, <3>2 DEF ServerOK, Responses
      <4> QED
        BY <3>2, <4>1
    <3> QED
      BY <1>5, <3>1, <3>2 DEF FetchVersions
  <2>3. ServerOK' /\ MomentsOK'
    BY <1>0, <1>5, <2>1, <2>2 DEF FetchVersions, server, ServerOK, MomentsOK, Responses, Running
  <2>4. Counted' /\ Fetched'
    BY <1>5, <2>1, <2>2 DEF FetchVersions, Counted, Fetched
  <2> QED
    BY <1>5, <2>3, <2>4 DEF FetchVersions, SpigetInv, FoundIsNewest, QuietIsExact, Running
<1>e. ASSUME NEW outcome \in {"failed", "done"}, NEW found \in Seq(VersionIds), End(outcome, found), pc \in Running,
             UNCHANGED <<server, kept, spec, moments>>
      PROVE  /\ ServerOK' /\ MomentsOK' /\ pc' = outcome /\ answer' = found /\ spec' = spec
             /\ pc' \in Running \cup Ended /\ answer' \in Seq(VersionIds)
  BY <1>0, <1>e DEF End, server, ServerOK, MomentsOK, Running, Ended
<1>f. ASSUME NEW found \in Seq(VersionIds), End("failed", found), pc \in Running, UNCHANGED <<server, kept, spec, moments>>
      PROVE  SpigetInv'
  BY <1>e, <1>f DEF SpigetInv, FoundIsNewest, QuietIsExact
<1>6. CASE RequestFails
  <2>1. <<>> \in Seq(VersionIds)
    OBVIOUS
  <2>2. End("failed", <<>>) /\ pc \in Running /\ UNCHANGED <<server, kept, spec, moments>>
    BY <1>6 DEF RequestFails, Running
  <2> QED
    BY <1>f, <2>1, <2>2
<1>7. CASE Resolve
  <2>1. CASE Malformed
    <3>1. <<>> \in Seq(VersionIds)
      OBVIOUS
    <3>2. End("failed", <<>>) /\ pc \in Running /\ UNCHANGED <<server, kept, spec, moments>>
      BY <1>7, <2>1 DEF Resolve, Running
    <3> QED
      BY <1>f, <3>1, <3>2
  <2>2. CASE ~Malformed
    <3>1. /\ End("done", FirstFitting) /\ spec.kind # "list" /\ Fetched /\ Counted
          /\ UNCHANGED <<server, kept, spec, moments>>
      BY <1>7, <2>2 DEF Resolve, SpigetInv
    <3>2. PICK all \in moments : versions = Newest(count, all)
      BY <3>1 DEF Fetched
    <3>3. all \in Listings /\ count \in Nat
      BY <1>0, <3>1, CountedType DEF MomentsOK
    <3>4. FirstFitting # <<>> => Right(FirstFitting, all)
      BY <3>1, <3>2, <3>3, FoundRight
    <3>5. ASSUME NEW a \in moments, moments = {a} PROVE Right(FirstFitting, a)
      <4>1. a = all /\ count = Len(all)
        BY <3>1, <3>5 DEF Counted
      <4> QED
        BY <3>1, <3>2, <3>3, <4>1, FoundRight
    <3>6. FirstFitting \in Seq(VersionIds)
      <4>1. versions \in Seq(VersionIds) /\ <<>> \in Seq(VersionIds)
        BY <3>2, <3>3, NewestIs, ListingLength
      <4>2. ASSUME NEW i \in DOMAIN versions PROVE <<versions[i]>> \in Seq(VersionIds)
        <5>1. versions[i] \in VersionIds
          BY <4>1
        <5> QED
          BY <5>1
      <4> QED
        BY <4>1, <4>2, FirstFits
    <3>7. FoundIsNewest' /\ QuietIsExact'
      BY <3>1, <3>4, <3>5 DEF FoundIsNewest, QuietIsExact, End, Right, Fits
    <3> QED
      BY <1>e, <1>7, <3>1, <3>6, <3>7 DEF SpigetInv, Resolve, Running
  <2> QED
    BY <2>1, <2>2
<1>8. CASE ListVersions
  <2>1. /\ End("done", Newest(spec.limit, versions)) /\ spec.kind = "list" /\ Fetched /\ Counted
        /\ UNCHANGED <<server, kept, spec, moments>>
        /\ spec.limit \in Nat
    BY <1>8, SpecsAssumption DEF ListVersions, SpigetInv
  <2>2. PICK all \in moments : versions = Newest(count, all)
    BY <2>1 DEF Fetched
  <2>3. all \in Listings /\ count \in Nat
    BY <1>0, <2>1, CountedType DEF MomentsOK
  <2> DEFINE found == Newest(spec.limit, versions)
  <2>4. IsPrefix(found, all) /\ Len(found) <= spec.limit
    BY <2>1, <2>2, <2>3, ListRight
  <2>5. ASSUME NEW a \in moments, moments = {a} PROVE Right(found, a)
    <3>1. a = all /\ count = Len(all)
      BY <2>1, <2>5 DEF Counted
    <3> QED
      BY <2>1, <2>2, <2>3, <3>1, ListRight
  <2>8. found \in Seq(VersionIds)
    <3>1. versions \in Listings
      BY <2>2, <2>3, NewestIs
    <3>2. found \in Listings
      BY <2>1, <3>1, NewestIs
    <3> QED
      BY <3>2, ListingLength
  <2> HIDE DEF found
  <2>6. answer' = found /\ spec' = spec /\ moments' = moments /\ pc' = "done"
    BY <2>1 DEF End, found
  <2>7. FoundIsNewest' /\ QuietIsExact'
    BY <2>1, <2>4, <2>5, <2>6 DEF FoundIsNewest, QuietIsExact, Right, Fits
  <2> QED
    BY <1>e, <1>8, <2>1, <2>7, <2>8 DEF SpigetInv, found, ListVersions, Running
<1>9. CASE UNCHANGED vars
  BY <1>9, EndedStays DEF vars, server, SpigetInv, ServerOK, MomentsOK, Counted, Fetched
<1> QED
  BY <1>1, <1>2, <1>3, <1>4, <1>5, <1>6, <1>7, <1>8, <1>9 DEF Next

(* The inductive invariant holds, whatever is published and withdrawn.      *)
THEOREM SpigetInvariant == Spec => []SpigetInv
<1>1. Init => SpigetInv
  BY SpigetInit
<1>2. SpigetInv /\ [Next]_vars => SpigetInv'
  BY SpigetStep
<1> QED
  BY <1>1, <1>2, PTL DEF Spec

(* A version that is found is the newest that fits as of some moment the    *)
(* command has seen, for any number of versions, names and cached responses *)
(* (search_version, version, latest_version).                               *)
THEOREM NewestIsFound == Spec => []FoundIsNewest
<1>1. SpigetInv => FoundIsNewest
  BY DEF SpigetInv
<1> QED
  BY <1>1, SpigetInvariant, PTL

(* When nothing changed since the responses used, the answer is exactly     *)
(* right: asking for as many versions as were counted misses none           *)
(* (versions_map).                                                          *)
THEOREM QuietMissesNothing == Spec => []QuietIsExact
<1>1. SpigetInv => QuietIsExact
  BY DEF SpigetInv
<1> QED
  BY <1>1, SpigetInvariant, PTL

(* Every listing that is printed is aligned, and none panics, whatever the  *)
(* names, dates and links of the versions are as long as (Display of        *)
(* CliTable, CliTableRow::write).                                           *)
THEOREM ListingsAreAligned == Spec => []ListingIsAligned
<1>1. SpigetInv => ListingIsAligned
  <2> SUFFICES ASSUME answer \in Seq(VersionIds), NEW withUrl \in BOOLEAN
               PROVE  LET table == VersionsTable([i \in DOMAIN answer |-> TextOf[answer[i]]], withUrl)
                          lines == Lines(table)
                      IN  /\ RowsFit(table)
                          /\ Len(lines) = Len(answer) + 2
                          /\ \A i \in DOMAIN lines : lines[i] # Underflow /\ lines[i] = lines[1]
    BY DEF SpigetInv, ListingIsAligned
  <2> DEFINE n == Len(answer)
             texts == [i \in DOMAIN answer |-> TextOf[answer[i]]]
             table == VersionsTable(texts, withUrl)
             c == IF withUrl THEN 4 ELSE 3
  <2>1. n \in Nat /\ DOMAIN answer = 1..n /\ \A i \in 1..n : answer[i] \in VersionIds
    OBVIOUS
  <2>2. /\ table.columnNames = Headers(withUrl)
        /\ table.rows = [i \in 1..n |-> RowOf(texts[i], withUrl)]
    BY <2>1 DEF VersionsTable, Table
  <2>3. Headers(withUrl) \in [1..c -> Nat \ {0}]
    BY DEF Headers
  <2>4. ASSUME NEW i \in 1..n PROVE RowOf(texts[i], withUrl) \in [1..c -> Nat]
    <3>1. texts[i] \in [name : Nat, date : Nat, identifier : Nat, url : Nat]
      BY <2>1, TextAssumption
    <3> HIDE DEF texts
    <3>2. CASE withUrl
      <4> DEFINE a == <<texts[i].name, texts[i].date, texts[i].identifier>>
                 b == <<texts[i].url>>
      <4>1. RowOf(texts[i], withUrl) = a \o b
        BY <3>2 DEF RowOf
      <4>2. a \in Seq(Nat) /\ b \in Seq(Nat) /\ Len(a) = 3 /\ Len(b) = 1
        BY <3>1
      <4> HIDE DEF a, b
      <4>3. a \o b \in Seq(Nat) /\ Len(a \o b) = Len(a) + Len(b)
        BY <4>2, ConcatProperties
      <4>4. a \o b \in [1..4 -> Nat]
        <5>1. ASSUME NEW s \in Seq(Nat), Len(s) = 4 PROVE s \in [1..4 -> Nat]
          <6>1. s \in [1..Len(s) -> Nat]
            OBVIOUS
          <6>2. 1..Len(s) = 1..4
            BY <5>1
          <6> HIDE <5>1
          <6> QED
            BY <6>1, <6>2, Zenon
        <5>2. Len(a \o b) = 4
          BY <4>2, <4>3
        <5> QED
          BY <4>3, <5>1, <5>2
      <4> QED
        BY <3>2, <4>1, <4>4
    <3>3. CASE ~withUrl
      <4>1. RowOf(texts[i], withUrl) = <<texts[i].name, texts[i].date, texts[i].identifier>>
        BY <3>3 DEF RowOf
      <4> QED
        BY <3>1, <3>3, <4>1
    <3> QED
      BY <3>2, <3>3
  <2> HIDE DEF table, texts
  <2>5. Sized(table, c) /\ c \in ColumnCounts /\ Len(table.rows) = n
    BY <2>1, <2>2, <2>3, <2>4 DEF Sized, Rows, ColumnCounts
  <2> HIDE DEF c, n
  <2>6. /\ RowsFit(table)
        /\ Len(Lines(table)) = n + 2
        /\ \A i \in DOMAIN Lines(table) :
              Lines(table)[i] # Underflow /\ Lines(table)[i] = Lines(table)[1]
    BY <2>5, TableIsAligned
  <2> QED
    BY <2>6 DEF table, texts, n
<1> QED
  BY <1>1, SpigetInvariant, PTL
=============================================================================
