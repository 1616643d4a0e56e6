-------------------------- MODULE HeaderStoreProofs --------------------------
(* Proofs about the map of headers, for every value of the constants. *)
EXTENDS HeaderStoreProps, SequenceTheorems, FiniteSetTheorems, TLAPS

-----------------------------------------------------------------------------
(* The inductive invariant.                                                *)

Matches(t, item) == LowerCase[HeaderName[t]] = LowerCase[item.name]

\* What every way of building an entry and every use of it keeps: a value belongs to its type
\* and to the name, it agrees with the lines, it is one the entry was used as, and without
\* lines there is a value.
Sound(item) ==
    /\ item \in Item
    /\ \A t \in Cached(item) :
          /\ item.typed[t] \in Values[t]
          /\ Matches(t, item)
          /\ t \in item.used
          /\ item.raw # NoLines =>
                item.typed[t] = Parse[t][item.raw] \/ Format[t][item.typed[t]] = item.raw
    /\ item.raw = NoLines => Cached(item) # {}
    /\ IsFiniteSet(item.used)

Unique(hs) ==
    \A i, j \in DOMAIN hs : LowerCase[hs[i].name] = LowerCase[hs[j].name] => i = j

SoundMap(hs) ==
    /\ hs \in Seq(Item)
    /\ \A i \in DOMAIN hs : Sound(hs[i])
    /\ Unique(hs)

StoreInv ==
    /\ SoundMap(headers)
    /\ reply \in AllValues
    /\ panic = NoPanic \/ panic \in [call : PanicCalls, at : DOMAIN headers]
    /\ PanicNeedsCause

-----------------------------------------------------------------------------
(* Entries.                                                                *)

\* The lists of lines are the sequences of lines that are not too long.
LEMMA LineListsAreSeqs ==
    \A l : l \in LineLists <=> l \in Seq(Lines) /\ Len(l) <= MaxLines
<1> USE HeaderAssumption
<1>1. ASSUME NEW l \in LineLists PROVE l \in Seq(Lines) /\ Len(l) <= MaxLines
  <2>1. PICK k \in 0..MaxLines : l \in [1..k -> Lines]
    BY <1>1 DEF LineLists
  <2>2. l \in Seq(Lines) /\ Len(l) = k
    BY <2>1
  <2> QED
    BY <2>2
<1>2. ASSUME NEW l \in Seq(Lines), Len(l) <= MaxLines PROVE l \in LineLists
  <2>1. Len(l) \in 0..MaxLines /\ l \in [1..Len(l) -> Lines]
    BY <1>2
  <2> QED
    BY <2>1 DEF LineLists
<1> QED
  BY <1>1, <1>2

\* A formatted value, and a reading of lines.
LEMMA Tables ==
    ASSUME NEW t \in Types
    PROVE  /\ NoValue \notin Values[t] /\ Panics \notin Values[t] /\ NoValue # Panics
           /\ \A l \in LineLists : Parse[t][l] \in Values[t] \union {NoValue}
           /\ \A v \in Values[t] : Format[t][v] \in LineLists \union {Panics}
           /\ Values[t] \subseteq AllValues
           /\ HeaderName[t] \in Spellings
           /\ NoLines \notin LineLists /\ Panics \notin LineLists /\ NoLines # Panics
BY HeaderAssumption DEF AllValues

\* Item::raw answers lines or panics.
LEMMA RawOfType ==
    ASSUME NEW item, Sound(item)
    PROVE  RawOf(item) \in LineLists \union {Panics} /\ RawOf(item) # NoLines
<1>1. item.raw \in LineLists \union {NoLines}
  BY DEF Sound, Item
<1>2. CASE item.raw # NoLines
  BY <1>1, <1>2, HeaderAssumption DEF RawOf
<1>3. CASE item.raw = NoLines /\ Cardinality(Cached(item)) # 1
  BY <1>3, HeaderAssumption DEF RawOf
<1>4. CASE item.raw = NoLines /\ Cardinality(Cached(item)) = 1
  <2> DEFINE t == CHOOSE t \in Types : item.typed[t] # NoValue
  <2>1. t \in Types /\ item.typed[t] # NoValue
    BY <1>4 DEF Sound, Cached
  <2>2. item.typed[t] \in Values[t]
    BY <2>1 DEF Sound, Cached
  <2>3. RawOf(item) = Format[t][item.typed[t]]
    BY <1>4 DEF RawOf
  <2> HIDE DEF t
  <2> QED
    BY <2>1, <2>2, <2>3, Tables, HeaderAssumption
<1> QED
  BY <1>2, <1>3, <1>4

\* What typed answers, and when it panics.
LEMMA TypedOfType ==
    ASSUME NEW item, Sound(item), NEW t \in Types
    PROVE  /\ TypedOf(item, t) \in Values[t] \union {NoValue, Panics}
           /\ TypedOf(item, t) = Panics <=> item.raw = NoLines /\ item.typed[t] = NoValue
<1>1. item.raw \in LineLists \union {NoLines}
  BY DEF Sound, Item
<1>2. CASE item.typed[t] # NoValue
  BY <1>2, Tables DEF TypedOf, Sound, Cached
<1>3. CASE item.typed[t] = NoValue
  BY <1>1, <1>3, Tables DEF TypedOf
<1> QED
  BY <1>2, <1>3

\* A set is larger than one when it has two members.
LEMMA TwoMembers ==
    ASSUME NEW S, IsFiniteSet(S), NEW x \in S, NEW y \in S, x # y
    PROVE  Cardinality(S) > 1
<1>1. Cardinality(S) \in Nat
  BY FS_CardinalityType
<1>2. Cardinality(S) # 0
  BY FS_EmptySet
<1>3. Cardinality(S) # 1
  BY FS_Singleton
<1> QED
  BY <1>1, <1>2, <1>3

\* An entry used as one type at most is kept as no other.
LEMMA OneType ==
    ASSUME NEW item, Sound(item), ~Mixed(item), NEW t \in Cached(item)
    PROVE  Cached(item) = {t} /\ Cardinality(Cached(item)) = 1
<1>1. Cached(item) \subseteq item.used /\ IsFiniteSet(item.used)
  BY DEF Sound
<1>2. \A u \in Cached(item) : u = t
  BY <1>1, TwoMembers DEF Mixed
<1>3. Cached(item) = {t}
  BY <1>2
<1> QED
  BY <1>3, FS_Singleton

\* Item::raw panics on an entry that was used as two types or holds a value that cannot be
\* printed ("not PtrMap::One value", "fmt failed").
LEMMA RawOfPanics ==
    ASSUME NEW item, Sound(item), RawOf(item) = Panics
    PROVE  item.raw = NoLines /\ (Mixed(item) \/ CannotPrint(item))
<1>1. item.raw = NoLines
  BY HeaderAssumption DEF RawOf, Sound, Item
<1>2. PICK t \in Types : item.typed[t] # NoValue
  BY <1>1 DEF Sound, Cached
<1>3. SUFFICES ASSUME ~Mixed(item) PROVE CannotPrint(item)
  BY <1>1
<1>4. Cached(item) = {t} /\ Cardinality(Cached(item)) = 1
  BY <1>2, <1>3, OneType DEF Cached
<1>5. (CHOOSE u \in Types : item.typed[u] # NoValue) = t
  BY <1>4 DEF Cached
<1>6. RawOf(item) = Format[t][item.typed[t]]
  BY <1>1, <1>4, <1>5 DEF RawOf
<1> QED
  BY <1>1, <1>4, <1>6 DEF CannotPrint

\* Item::typed panics on an entry that holds a value of another type ("item.raw must exist").
LEMMA TypedOfPanics ==
    ASSUME NEW item, Sound(item), NEW t \in Types, TypedOf(item, t) = Panics
    PROVE  Mixed(UsedAs(item, t)) /\ UsedAs(item, t).raw = NoLines
<1>1. item.raw = NoLines /\ item.typed[t] = NoValue
  BY TypedOfType
<1>2. PICK u \in Cached(item) : TRUE
  BY <1>1 DEF Sound
<1>3. u # t /\ u \in item.used
  BY <1>1 DEF Sound, Cached
<1>4. /\ UsedAs(item, t).used = item.used \union {t} /\ IsFiniteSet(item.used \union {t})
      /\ UsedAs(item, t).raw = item.raw
  BY FS_AddElement DEF UsedAs, Sound, Item
<1> QED
  BY <1>1, <1>3, <1>4, TwoMembers DEF Mixed

\* The one value of an entry without lines is what its lines are printed from.
LEMMA RawOfOne ==
    ASSUME NEW item, item.raw = NoLines, NEW t \in Types, Cached(item) = {t}
    PROVE  RawOf(item) = Format[t][item.typed[t]]
<1>1. Cardinality(Cached(item)) = 1
  BY FS_Singleton
<1>2. (CHOOSE u \in Types : item.typed[u] # NoValue) = t
  BY DEF Cached
<1> QED
  BY <1>1, <1>2 DEF RawOf

-----------------------------------------------------------------------------
(* Every way of building or changing an entry keeps it sound.              *)

\* Which values an entry holds, when one of them is put there.
LEMMA TypedValues ==
    /\ NoValue \in AllValues /\ Untyped \in [Types -> AllValues]
    /\ \A f \in [Types -> AllValues], t \in Types : \A v \in Values[t] :
          /\ [f EXCEPT ![t] = v] \in [Types -> AllValues]
          /\ [f EXCEPT ![t] = v][t] = v
          /\ \A u \in Types : u # t => [f EXCEPT ![t] = v][u] = f[u]
<1>1. NoValue \in AllValues /\ \A t \in Types : Values[t] \subseteq AllValues
  BY DEF AllValues
<1> QED
  BY <1>1 DEF Untyped

\* Item::raw looks at the lines and at the values.
LEMMA RawOfDepends ==
    ASSUME NEW a, NEW b, a.raw = b.raw, a.typed = b.typed PROVE RawOf(a) = RawOf(b)
<1> DEFINE F(raw, typed) ==
        IF raw # NoLines THEN raw
        ELSE IF Cardinality({t \in Types : typed[t] # NoValue}) # 1 THEN Panics
        ELSE LET t == CHOOSE t \in Types : typed[t] # NoValue IN Format[t][typed[t]]
<1>1. RawOf(a) = F(a.raw, a.typed) /\ RawOf(b) = F(b.raw, b.typed)
  BY DEF RawOf, Cached
<1> HIDE DEF F
<1> QED
  BY <1>1

\* Lines a caller hands over, Item::new from raw.
LEMMA NewRawSound ==
    ASSUME NEW n \in Spellings, NEW l \in LineLists
    PROVE  /\ Sound(NewRaw(n, l))
           /\ RawOf(NewRaw(n, l)) = l
           /\ Cached(NewRaw(n, l)) = {}
<1>1. NewRaw(n, l) \in Item
  BY TypedValues DEF NewRaw, Item
<1>2. Cached(NewRaw(n, l)) = {}
  BY DEF NewRaw, Cached, Untyped
<1>3. l # NoLines
  BY HeaderAssumption
<1> QED
  BY <1>1, <1>2, <1>3, FS_EmptySet DEF Sound, NewRaw, RawOf

\* A value a caller hands over.
LEMMA NewTypedSound ==
    ASSUME NEW t \in Types, NEW v \in Values[t]
    PROVE  /\ Sound(NewTyped(HeaderName[t], t, v))
           /\ RawOf(NewTyped(HeaderName[t], t, v)) = Format[t][v]
           /\ NewTyped(HeaderName[t], t, v).name = HeaderName[t]
<1> DEFINE item == NewTyped(HeaderName[t], t, v)
<1> DEFINE typed == [Untyped EXCEPT ![t] = v]
<1>0. typed \in [Types -> AllValues] /\ typed[t] = v /\ \A u \in Types : u # t => typed[u] = NoValue
  <2>1. \A u \in Types : Untyped[u] = NoValue
    BY DEF Untyped
  <2> QED
    BY <2>1, TypedValues
<1> HIDE DEF typed
<1>1. item \in Item /\ item.name = HeaderName[t] /\ item.raw = NoLines /\ item.used = {t}
  BY <1>0, Tables DEF NewTyped, Item, typed
<1>2. item.typed[t] = v /\ \A u \in Types : u # t => item.typed[u] = NoValue
  BY <1>0 DEF NewTyped, typed
<1>3. v # NoValue
  BY Tables
<1> HIDE DEF item
<1>4. Cached(item) = {t}
  BY <1>2, <1>3 DEF Cached
<1>5. Sound(item)
  BY <1>1, <1>2, <1>4, FS_Singleton DEF Sound, Matches
<1>6. RawOf(item) = Format[t][v]
  BY <1>1, <1>2, <1>4, RawOfOne
<1> QED
  BY <1>1, <1>5, <1>6 DEF item

\* A type an entry is asked for is noted.
LEMMA UsedAsSound ==
    ASSUME NEW item, Sound(item), NEW t \in Types
    PROVE  Sound(UsedAs(item, t)) /\ UsedAs(item, t).name = item.name
<1> DEFINE new == UsedAs(item, t)
<1>1. /\ new \in Item /\ new.name = item.name /\ new.raw = item.raw /\ new.typed = item.typed
      /\ new.used = item.used \union {t}
  BY DEF Sound, UsedAs, Item
<1>2. IsFiniteSet(new.used)
  BY <1>1, FS_AddElement DEF Sound
<1>3. Cached(new) = Cached(item)
  BY <1>1 DEF Cached
<1> QED
  BY <1>1, <1>2, <1>3 DEF Sound, Matches

\* Item::typed: the value read from the lines is remembered beside them.
LEMMA RememberedSound ==
    ASSUME NEW item, Sound(item), NEW t \in Types, Matches(t, item), TypedOf(item, t) # Panics
    PROVE  /\ Sound(Remembered(item, t))
           /\ Remembered(item, t).name = item.name
           /\ RawOf(Remembered(item, t)) = RawOf(item)
<1> DEFINE new == Remembered(item, t)
           v == TypedOf(item, t)
<1>1. CASE v = NoValue
  BY <1>1 DEF Remembered
<1>2. CASE v # NoValue
  <2>1. v \in Values[t] /\ v # NoValue
    BY <1>2, TypedOfType
  <2> DEFINE typed == [item.typed EXCEPT ![t] = v]
  <2>0. /\ typed \in [Types -> AllValues]
        /\ typed[t] = v /\ \A u \in Types : u # t => typed[u] = item.typed[u]
    BY <2>1, TypedValues DEF Sound, Item
  <2>2. /\ new \in Item /\ new.name = item.name /\ new.raw = item.raw
        /\ new.used = item.used \union {t}
        /\ new.typed = typed
    <3>1. new = [item EXCEPT !.used = item.used \union {t}, !.typed = typed]
      BY <1>2, <2>1 DEF Remembered, UsedAs, Sound, Item
    <3> HIDE DEF new, typed
    <3> QED
      BY <2>0, <3>1 DEF Sound, Item
  <2>3. new.typed[t] = v /\ \A u \in Types : u # t => new.typed[u] = item.typed[u]
    BY <2>0, <2>2
  <2>4. Cached(new) = Cached(item) \union {t}
    BY <2>1, <2>3 DEF Cached
  <2>5. item.raw # NoLines => v = Parse[t][item.raw] \/ Format[t][v] = item.raw
    BY DEF TypedOf, Sound, Cached
  <2>6. IsFiniteSet(new.used)
    BY <2>2, FS_AddElement DEF Sound
  <2> HIDE DEF new, v
  <2>7. Sound(new)
    BY <2>1, <2>2, <2>3, <2>4, <2>5, <2>6 DEF Sound, Matches
  <2>8. item.raw = NoLines => new.typed = item.typed
    <3>1. item.raw = NoLines => item.typed[t] # NoValue
      BY TypedOfType
    <3>2. item.raw = NoLines => item.typed[t] = v
      BY <3>1 DEF TypedOf, v
    <3>3. item.typed \in [Types -> AllValues]
      BY DEF Sound, Item, AllValues
    <3> QED
      BY <2>2, <3>2, <3>3 DEF typed
  <2>9. RawOf(new) = RawOf(item)
    <3>1. CASE item.raw = NoLines
      BY <2>2, <2>8, <3>1, RawOfDepends
    <3>2. CASE item.raw # NoLines
      BY <2>2, <3>2 DEF RawOf
    <3> QED
      BY <3>1, <3>2
  <2> QED
    BY <2>2, <2>7, <2>9 DEF new
<1> QED
  BY <1>1, <1>2

\* Item::typed_mut and the value written through it: no lines are left that could disagree.
LEMMA WrittenSound ==
    ASSUME NEW item, Sound(item), NEW t \in Types, Matches(t, item), NEW v \in Values[t]
    PROVE  /\ Sound(Written(item, t, v))
           /\ Written(item, t, v).name = item.name
           /\ ~Mixed(Written(item, t, v)) => RawOf(Written(item, t, v)) = Format[t][v]
<1> DEFINE new == Written(item, t, v)
<1> DEFINE typed == [item.typed EXCEPT ![t] = v]
<1>0. /\ typed \in [Types -> AllValues]
      /\ typed[t] = v /\ \A u \in Types : u # t => typed[u] = item.typed[u]
  BY TypedValues DEF Sound, Item
<1>1. /\ new \in Item /\ new.name = item.name /\ new.raw = NoLines
      /\ new.used = item.used \union {t}
      /\ new.typed = typed
  <2>1. new = [item EXCEPT !.used = item.used \union {t}, !.typed = typed, !.raw = NoLines]
    BY DEF Written, UsedAs, Sound, Item
  <2> HIDE DEF new, typed
  <2> QED
    BY <1>0, <2>1 DEF Sound, Item
<1>2. new.typed[t] = v /\ \A u \in Types : u # t => new.typed[u] = item.typed[u]
  BY <1>0, <1>1
<1>3. Cached(new) = Cached(item) \union {t}
  BY <1>2, Tables DEF Cached
<1>4. IsFiniteSet(new.used)
  BY <1>1, FS_AddElement DEF Sound
<1> HIDE DEF new
<1>5. Sound(new)
  BY <1>1, <1>2, <1>3, <1>4 DEF Sound, Matches
<1>6. ASSUME ~Mixed(new) PROVE RawOf(new) = Format[t][v]
  BY <1>1, <1>2, <1>3, <1>5, <1>6, OneType, RawOfOne
<1> QED
  BY <1>1, <1>5, <1>6 DEF new

\* Item::raw_mut and Raw::push: no value is left that could disagree.
LEMMA RawMutSound ==
    ASSUME NEW item, Sound(item), RawOf(item) # Panics, NEW l \in LineLists,
           Len(RawOf(item)) + Len(l) <= MaxLines
    PROVE  /\ Sound(RawMut(item, l))
           /\ RawMut(item, l).name = item.name
           /\ RawOf(RawMut(item, l)) = RawOf(item) \o l
<1> DEFINE new == RawMut(item, l)
<1>1. RawOf(item) \in LineLists
  BY RawOfType
<1>2. RawOf(item) \o l \in LineLists
  BY <1>1, LineListsAreSeqs, ConcatProperties
<1>3. /\ new \in Item /\ new.name = item.name /\ new.raw = RawOf(item) \o l
      /\ new.used = {} /\ new.typed = Untyped
  BY <1>2, TypedValues DEF RawMut, Sound, Item
<1>4. new.raw # NoLines
  BY <1>2, <1>3, HeaderAssumption
<1>5. Cached(new) = {}
  BY <1>3 DEF Cached, Untyped
<1> HIDE DEF new
<1> QED
  BY <1>3, <1>4, <1>5, FS_EmptySet DEF Sound, RawOf, new

\* Item::raw: the lines of the one value are kept beside it.
Printed(item) == [item EXCEPT !.raw = RawOf(item)]

\* The lines that are kept agree with the value, and are those that were answered.
LEMMA PrintedSound ==
    ASSUME NEW item, Sound(item), RawOf(item) # Panics
    PROVE  /\ Sound(Printed(item))
           /\ Printed(item).name = item.name
           /\ RawOf(Printed(item)) = RawOf(item)
<1> DEFINE new == Printed(item)
<1>1. RawOf(item) \in LineLists /\ RawOf(item) # NoLines
  BY RawOfType
<1>2. /\ new \in Item /\ new.name = item.name /\ new.raw = RawOf(item)
      /\ new.used = item.used /\ new.typed = item.typed /\ Cached(new) = Cached(item)
  BY <1>1 DEF Printed, Sound, Item, Cached
<1>3. ASSUME NEW t \in Cached(item), item.raw = NoLines PROVE Format[t][item.typed[t]] = RawOf(item)
  <2>1. Cardinality(Cached(item)) = 1 /\ IsFiniteSet(Cached(item))
    BY <1>1, <1>3, FS_Subset DEF RawOf, Sound
  <2>2. Cached(item) = {t} /\ t \in Types
    BY <2>1, FS_Singleton DEF Cached
  <2> QED
    BY <1>3, <2>2, RawOfOne
<1>4. item.raw # NoLines => new.raw = item.raw
  BY <1>2 DEF RawOf
<1> HIDE DEF new
<1>5. Sound(new)
  BY <1>1, <1>2, <1>3, <1>4 DEF Sound, Matches
<1> QED
  BY <1>1, <1>2, <1>5 DEF RawOf, new

-----------------------------------------------------------------------------
(* Every way of changing the map keeps it sound, and what it does to the   *)
(* lines of each name.                                                     *)

LinesIn(hs) ==
    [n \in LowerNames |-> IF Places(hs, n) # {} THEN RawOf(hs[First(Places(hs, n))]) ELSE NoLines]

\* A name in lower case is a name, and stays as it is.
LEMMA LowerName ==
    /\ \A n \in Spellings : LowerCase[n] \in LowerNames /\ LowerCase[n] \in Spellings
    /\ \A n \in LowerNames : LowerCase[n] = n /\ n \in Spellings
BY HeaderAssumption DEF LowerNames

\* A map of headers finds the one entry of a name.
LEMMA PlaceOf ==
    ASSUME NEW hs, SoundMap(hs), NEW n \in Spellings
    PROVE  /\ Places(hs, n) # {} =>
                /\ First(Places(hs, n)) \in DOMAIN hs
                /\ LowerCase[hs[First(Places(hs, n))].name] = LowerCase[n]
           /\ \A i \in DOMAIN hs : LowerCase[hs[i].name] = LowerCase[n] => i = First(Places(hs, n))
<1>1. DOMAIN hs \subseteq Nat
  BY DEF SoundMap
<1>2. ASSUME NEW i \in Places(hs, n) PROVE First(Places(hs, n)) = i /\ i \in DOMAIN hs
  <2>1. \A j \in Places(hs, n) : j = i
    BY DEF SoundMap, Unique, Places
  <2>2. \A j \in Places(hs, n) : i <= j
    BY <1>1, <2>1 DEF Places
  <2>3. First(Places(hs, n)) \in Places(hs, n)
    BY <2>2 DEF First
  <2> QED
    BY <2>1, <2>3 DEF Places
<1> QED
  BY <1>2 DEF Places

\* The lines of a name are those of its entry.
LEMMA LinesInAt ==
    ASSUME NEW hs, SoundMap(hs)
    PROVE  /\ \A i \in DOMAIN hs : /\ LowerCase[hs[i].name] \in LowerNames
                                   /\ LinesIn(hs)[LowerCase[hs[i].name]] = RawOf(hs[i])
           /\ \A m \in LowerNames :
                 (\A i \in DOMAIN hs : LowerCase[hs[i].name] # m) => LinesIn(hs)[m] = NoLines
<1>1. ASSUME NEW i \in DOMAIN hs
      PROVE  /\ LowerCase[hs[i].name] \in LowerNames
             /\ LinesIn(hs)[LowerCase[hs[i].name]] = RawOf(hs[i])
  <2> DEFINE m == LowerCase[hs[i].name]
  <2>1. hs[i].name \in Spellings
    BY DEF SoundMap, Sound, Item
  <2>2. m \in LowerNames /\ m \in Spellings /\ LowerCase[m] = m
    BY <2>1, LowerName
  <2> HIDE DEF m
  <2>3. i \in Places(hs, m)
    BY <2>2 DEF Places, m
  <2>4. First(Places(hs, m)) = i
    BY <2>2, <2>3, PlaceOf DEF m
  <2> QED
    BY <2>2, <2>3, <2>4 DEF LinesIn, m
<1>2. ASSUME NEW m \in LowerNames, \A i \in DOMAIN hs : LowerCase[hs[i].name] # m
      PROVE  LinesIn(hs)[m] = NoLines
  <2>1. Places(hs, m) = {}
    BY <1>2, LowerName DEF Places
  <2> QED
    BY <2>1 DEF LinesIn
<1> QED
  BY <1>1, <1>2

\* The lines of one name are these, those of the others stay.
Changed(old, new, name, l) ==
    \A m \in LowerNames : LinesIn(new)[m] = IF m = LowerCase[name] THEN l ELSE LinesIn(old)[m]
Same(old, new) == \A m \in LowerNames : LinesIn(new)[m] = LinesIn(old)[m]

\* An entry is replaced by one of the same name.
LEMMA ReplaceSound ==
    ASSUME NEW hs, SoundMap(hs), NEW i \in DOMAIN hs, NEW item, Sound(item),
           LowerCase[item.name] = LowerCase[hs[i].name]
    PROVE  /\ SoundMap([hs EXCEPT ![i] = item])
           /\ Changed(hs, [hs EXCEPT ![i] = item], hs[i].name, RawOf(item))
<1> DEFINE new == [hs EXCEPT ![i] = item]
<1>1. new \in Seq(Item) /\ DOMAIN new = DOMAIN hs
  <2>1. i \in 1..Len(hs) /\ item \in Item /\ hs \in Seq(Item)
    BY DEF SoundMap, Sound
  <2> QED
    BY <2>1, ExceptSeq
<1>2. \A j \in DOMAIN hs : new[j] = IF j = i THEN item ELSE hs[j]
  OBVIOUS
<1> HIDE DEF new
<1>3. \A j \in DOMAIN hs : Sound(new[j]) /\ LowerCase[new[j].name] = LowerCase[hs[j].name]
  BY <1>2 DEF SoundMap
<1>4. SoundMap(new)
  BY <1>1, <1>3 DEF SoundMap, Unique
<1>5. ASSUME NEW m \in LowerNames
      PROVE  LinesIn(new)[m] = IF m = LowerCase[hs[i].name] THEN RawOf(item) ELSE LinesIn(hs)[m]
  <2>1. CASE \E j \in DOMAIN hs : LowerCase[hs[j].name] = m
    <3>1. PICK j \in DOMAIN hs : LowerCase[hs[j].name] = m
      BY <2>1
    <3>2. LinesIn(new)[m] = RawOf(new[j]) /\ LinesIn(hs)[m] = RawOf(hs[j])
      BY <1>1, <1>3, <1>4, <3>1, LinesInAt
    <3>3. j = i <=> m = LowerCase[hs[i].name]
      BY <3>1 DEF SoundMap, Unique
    <3> QED
      BY <1>2, <3>2, <3>3
  <2>2. CASE \A j \in DOMAIN hs : LowerCase[hs[j].name] # m
    BY <1>1, <1>3, <1>4, <2>2, LinesInAt
  <2> QED
    BY <2>1, <2>2
<1> QED
  BY <1>4, <1>5 DEF Changed, new

\* VecMap::insert.
LEMMA InsertSound ==
    ASSUME NEW hs, SoundMap(hs), NEW item, Sound(item)
    PROVE  /\ SoundMap(Insert(hs, item))
           /\ Changed(hs, Insert(hs, item), item.name, RawOf(item))
<1>1. item.name \in Spellings /\ item \in Item
  BY DEF Sound, Item
<1>2. CASE Places(hs, item.name) = {}
  <2> DEFINE new == Append(hs, item)
  <2>1. /\ new \in Seq(Item) /\ Len(new) = Len(hs) + 1 /\ Len(hs) \in Nat
        /\ \A i \in 1..Len(hs) : new[i] = hs[i]
        /\ new[Len(hs) + 1] = item
        /\ DOMAIN hs = 1..Len(hs) /\ DOMAIN new = 1..(Len(hs) + 1)
    BY <1>1, AppendProperties DEF SoundMap
  <2> HIDE DEF new
  <2>2. \A i \in DOMAIN new : i \in DOMAIN hs \/ i = Len(hs) + 1
    BY <2>1
  <2>3. \A i \in DOMAIN hs : LowerCase[hs[i].name] # LowerCase[item.name]
    BY <1>2 DEF Places
  <2>4. \A i \in DOMAIN new : Sound(new[i])
    BY <2>1, <2>2 DEF SoundMap
  <2>5. Unique(new)
    BY <2>1, <2>2, <2>3 DEF SoundMap, Unique
  <2>6. SoundMap(new)
    BY <2>1, <2>4, <2>5 DEF SoundMap
  <2>7. ASSUME NEW m \in LowerNames
        PROVE  LinesIn(new)[m] = IF m = LowerCase[item.name] THEN RawOf(item) ELSE LinesIn(hs)[m]
    <3>1. CASE m = LowerCase[item.name]
      <4>1. Len(hs) + 1 \in DOMAIN new
        BY <2>1
      <4> QED
        BY <2>1, <2>6, <3>1, <4>1, LinesInAt
    <3>2. CASE m # LowerCase[item.name] /\ \E i \in DOMAIN hs : LowerCase[hs[i].name] = m
      <4>1. PICK i \in DOMAIN hs : LowerCase[hs[i].name] = m
        BY <3>2
      <4>2. i \in DOMAIN new /\ new[i] = hs[i]
        BY <2>1
      <4> QED
        BY <2>6, <3>2, <4>1, <4>2, LinesInAt
    <3>3. CASE m # LowerCase[item.name] /\ \A i \in DOMAIN hs : LowerCase[hs[i].name] # m
      <4>1. \A i \in DOMAIN new : LowerCase[new[i].name] # m
        BY <2>1, <2>2, <3>3
      <4> QED
        BY <2>6, <3>3, <4>1, LinesInAt
    <3> QED
      BY <3>1, <3>2, <3>3
  <2> QED
    BY <1>2, <2>6, <2>7 DEF Insert, Changed, new
<1>3. CASE Places(hs, item.name) # {}
  <2>1. /\ First(Places(hs, item.name)) \in DOMAIN hs
        /\ LowerCase[hs[First(Places(hs, item.name))].name] = LowerCase[item.name]
    BY <1>1, <1>3, PlaceOf
  <2> DEFINE i == First(Places(hs, item.name))
  <2>2. Insert(hs, item) = [hs EXCEPT ![i] = item]
    BY <1>3 DEF Insert
  <2> HIDE DEF i
  <2>3. i \in DOMAIN hs /\ LowerCase[item.name] = LowerCase[hs[i].name]
    BY <2>1 DEF i
  <2>4. SoundMap([hs EXCEPT ![i] = item]) /\ Changed(hs, [hs EXCEPT ![i] = item], hs[i].name, RawOf(item))
    BY <2>3, ReplaceSound
  <2> QED
    BY <2>2, <2>3, <2>4 DEF Changed
<1> QED
  BY <1>2, <1>3

\* VecMap::remove.
LEMMA WithoutSound ==
    ASSUME NEW hs, SoundMap(hs), NEW i \in DOMAIN hs
    PROVE  SoundMap(Without(hs, i)) /\ Changed(hs, Without(hs, i), hs[i].name, NoLines)
<1> DEFINE new == Without(hs, i)
           Old(j) == IF j < i THEN j ELSE j + 1
<1>0. /\ hs \in Seq(Item) /\ Len(hs) \in Nat /\ DOMAIN hs = 1..Len(hs)
      /\ i \in 1..Len(hs) /\ Len(hs) - 1 \in Nat
  BY DEF SoundMap
<1>1. DOMAIN new = 1..(Len(hs) - 1) /\ \A j \in DOMAIN new : new[j] = hs[Old(j)] /\ Old(j) \in DOMAIN hs
  BY <1>0 DEF Without
<1>2. \A j, k \in DOMAIN new : Old(j) = Old(k) => j = k
  BY <1>0, <1>1
<1>3. \A j \in DOMAIN new : Old(j) # i
  BY <1>0, <1>1
<1>4. \A k \in DOMAIN hs : k # i => \E j \in DOMAIN new : Old(j) = k
  <2> SUFFICES ASSUME NEW k \in DOMAIN hs, k # i PROVE \E j \in DOMAIN new : Old(j) = k
    OBVIOUS
  <2>1. CASE k < i
    <3>1. k \in DOMAIN new /\ Old(k) = k
      BY <1>0, <1>1, <2>1
    <3> QED
      BY <3>1
  <2>2. CASE k > i
    <3>1. k - 1 \in DOMAIN new /\ Old(k - 1) = k
      BY <1>0, <1>1, <2>2
    <3> QED
      BY <3>1
  <2> QED
    BY <1>0, <2>1, <2>2
<1>5. new \in Seq(Item)
  <2>1. new = [j \in 1..(Len(hs) - 1) |-> hs[Old(j)]]
    BY DEF Without
  <2>2. \A j \in 1..(Len(hs) - 1) : hs[Old(j)] \in Item
    BY <1>0, <1>1, ElementOfSeq
  <2> HIDE DEF new, Old
  <2>3. new \in [1..(Len(hs) - 1) -> Item]
    BY <2>1, <2>2
  <2> QED
    BY <1>0, <2>3, SeqDef
<1> HIDE DEF new, Old
<1>6. SoundMap(new)
  BY <1>1, <1>2, <1>5 DEF SoundMap, Unique
<1>7. ASSUME NEW m \in LowerNames
      PROVE  LinesIn(new)[m] = IF m = LowerCase[hs[i].name] THEN NoLines ELSE LinesIn(hs)[m]
  <2>1. CASE m = LowerCase[hs[i].name]
    <3>1. \A j \in DOMAIN new : LowerCase[new[j].name] # m
      BY <1>1, <1>3, <2>1 DEF SoundMap, Unique
    <3> QED
      BY <1>6, <2>1, <3>1, LinesInAt
  <2>2. CASE m # LowerCase[hs[i].name] /\ \E k \in DOMAIN hs : LowerCase[hs[k].name] = m
    <3>1. PICK k \in DOMAIN hs : LowerCase[hs[k].name] = m
      BY <2>2
    <3>2. PICK j \in DOMAIN new : Old(j) = k
      BY <1>4, <2>2, <3>1
    <3> QED
      BY <1>1, <1>6, <2>2, <3>1, <3>2, LinesInAt
  <2>3. CASE m # LowerCase[hs[i].name] /\ \A k \in DOMAIN hs : LowerCase[hs[k].name] # m
    <3>1. \A j \in DOMAIN new : LowerCase[new[j].name] # m
      BY <1>1, <2>3
    <3> QED
      BY <1>6, <2>3, <3>1, LinesInAt
  <2> QED
    BY <2>1, <2>2, <2>3
<1> QED
  BY <1>6, <1>7 DEF Changed, new

\* Entries are changed where they are.
LEMMA MappedSound ==
    ASSUME NEW hs, SoundMap(hs), NEW new \in [DOMAIN hs -> Item],
           \A i \in DOMAIN hs : Sound(new[i]) /\ new[i].name = hs[i].name /\ RawOf(new[i]) = RawOf(hs[i])
    PROVE  SoundMap(new) /\ Same(hs, new)
<1>1. DOMAIN hs = 1..Len(hs) /\ Len(hs) \in Nat
  BY DEF SoundMap
<1>2. new \in Seq(Item) /\ DOMAIN new = DOMAIN hs
  BY <1>1, SeqDef
<1>3. SoundMap(new)
  BY <1>2 DEF SoundMap, Unique
<1>4. ASSUME NEW m \in LowerNames PROVE LinesIn(new)[m] = LinesIn(hs)[m]
  <2>1. CASE \E i \in DOMAIN hs : LowerCase[hs[i].name] = m
    BY <1>2, <1>3, <2>1, LinesInAt
  <2>2. CASE \A i \in DOMAIN hs : LowerCase[hs[i].name] # m
    BY <1>2, <1>3, <2>2, LinesInAt
  <2> QED
    BY <2>1, <2>2
<1> QED
  BY <1>3, <1>4 DEF Same

\* Headers::clear.
LEMMA EmptySound == SoundMap(<<>>) /\ \A m \in LowerNames : LinesIn(<<>>)[m] = NoLines
<1>1. SoundMap(<<>>)
  BY EmptySeq DEF SoundMap, Unique
<1> QED
  BY <1>1, LinesInAt

\* The entries of compat.rs: those that have lines, in any order, in lower case.
ConvertedFrom(hs, order) ==
    [k \in DOMAIN order |-> NewRaw(LowerCase[hs[order[k]].name], RawOf(hs[order[k]]))]

\* A conversion keeps the lines of every name, unless there are none.
LEMMA ConvertedSound ==
    ASSUME NEW hs, SoundMap(hs), \A i \in DOMAIN hs : RawOf(hs[i]) # Panics,
           NEW order \in Orders({i \in DOMAIN hs : RawOf(hs[i]) # <<>>})
    PROVE  /\ SoundMap(ConvertedFrom(hs, order))
           /\ \A m \in LowerNames :
                 LinesIn(ConvertedFrom(hs, order))[m] =
                    IF LinesIn(hs)[m] = <<>> THEN NoLines ELSE LinesIn(hs)[m]
<1> DEFINE S == {i \in DOMAIN hs : RawOf(hs[i]) # <<>>}
           new == ConvertedFrom(hs, order)
<1>1. IsFiniteSet(S) /\ Cardinality(S) \in Nat
  <2>1. DOMAIN hs = 1..Len(hs) /\ Len(hs) \in Nat
    BY DEF SoundMap
  <2>2. IsFiniteSet(DOMAIN hs) /\ S \in SUBSET DOMAIN hs
    BY <2>1, FS_Interval
  <2> QED
    BY <2>2, FS_Subset, FS_CardinalityType
<1>2. /\ order \in [1..Cardinality(S) -> S]
      /\ \A j, k \in DOMAIN order : order[j] = order[k] => j = k
  BY DEF Orders
<1>3. \A i \in S : \E k \in 1..Cardinality(S) : order[k] = i
  <2>1. order \in Injection(1..Cardinality(S), S)
    BY <1>2 DEF Injection, IsInjective
  <2>2. IsFiniteSet(1..Cardinality(S)) /\ Cardinality(1..Cardinality(S)) = Cardinality(S)
    BY <1>1, FS_Interval
  <2>3. order \in Surjection(1..Cardinality(S), S)
    BY <1>1, <2>1, <2>2, FS_Injection
  <2> QED
    BY <2>3 DEF Surjection
<1>4. ASSUME NEW k \in DOMAIN order
      PROVE  /\ order[k] \in S /\ order[k] \in DOMAIN hs
             /\ Sound(new[k])
             /\ LowerCase[new[k].name] = LowerCase[hs[order[k]].name]
             /\ RawOf(new[k]) = RawOf(hs[order[k]])
  <2>1. order[k] \in S /\ order[k] \in DOMAIN hs
    BY <1>2
  <2> DEFINE n == LowerCase[hs[order[k]].name]
             l == RawOf(hs[order[k]])
  <2>2. n \in Spellings /\ LowerCase[n] = LowerCase[hs[order[k]].name] /\ l \in LineLists
    BY <2>1, LowerName, RawOfType DEF SoundMap, Sound, Item
  <2>3. new[k] = NewRaw(n, l)
    BY DEF ConvertedFrom
  <2> HIDE DEF new, n, l, S
  <2>4. Sound(new[k]) /\ RawOf(new[k]) = l /\ new[k].name = n
    BY <2>2, <2>3, NewRawSound DEF NewRaw
  <2> QED
    BY <2>1, <2>2, <2>4 DEF l
<1>5. DOMAIN new = 1..Cardinality(S) /\ DOMAIN order = 1..Cardinality(S)
  BY <1>2 DEF ConvertedFrom
<1>6. new \in Seq(Item)
  <2>1. \A k \in 1..Cardinality(S) : new[k] \in Item
    BY <1>4, <1>5 DEF Sound
  <2>2. new = [k \in 1..Cardinality(S) |-> new[k]]
    BY <1>5 DEF ConvertedFrom
  <2> HIDE DEF new, S
  <2>3. new \in [1..Cardinality(S) -> Item]
    BY <2>1, <2>2
  <2> QED
    BY <1>1, <2>3, SeqDef
<1> HIDE DEF new
<1>7. SoundMap(new)
  <2>1. ASSUME NEW j \in DOMAIN new, NEW k \in DOMAIN new, LowerCase[new[j].name] = LowerCase[new[k].name]
        PROVE  j = k
    <3>1. order[j] = order[k]
      BY <1>4, <1>5, <2>1 DEF SoundMap, Unique
    <3> QED
      BY <1>2, <1>5, <3>1
  <2> QED
    BY <1>4, <1>5, <1>6, <2>1 DEF SoundMap, Unique
<1>8. ASSUME NEW m \in LowerNames
      PROVE  LinesIn(new)[m] = IF LinesIn(hs)[m] = <<>> THEN NoLines ELSE LinesIn(hs)[m]
  <2>1. CASE \E i \in S : LowerCase[hs[i].name] = m
    <3>1. PICK i \in S : LowerCase[hs[i].name] = m
      BY <2>1
    <3>2. PICK k \in DOMAIN order : order[k] = i
      BY <1>3, <1>5
    <3>3. LinesIn(new)[m] = RawOf(hs[i])
      <4>1. LowerCase[new[k].name] = m /\ RawOf(new[k]) = RawOf(hs[i]) /\ k \in DOMAIN new
        BY <1>4, <1>5, <3>1, <3>2
      <4> QED
        BY <1>7, <4>1, LinesInAt
    <3>4. LinesIn(hs)[m] = RawOf(hs[i]) /\ RawOf(hs[i]) # <<>>
      BY <3>1, LinesInAt
    <3> QED
      BY <3>3, <3>4
  <2>2. CASE \A i \in S : LowerCase[hs[i].name] # m
    <3>1. LinesIn(new)[m] = NoLines
      <4>1. \A k \in DOMAIN new : LowerCase[new[k].name] # m
        BY <1>4, <1>5, <2>2
      <4> QED
        BY <1>7, <4>1, LinesInAt
    <3>2. LinesIn(hs)[m] = <<>> \/ LinesIn(hs)[m] = NoLines
      <4>1. CASE \E i \in DOMAIN hs : LowerCase[hs[i].name] = m
        BY <2>2, <4>1, LinesInAt
      <4>2. CASE \A i \in DOMAIN hs : LowerCase[hs[i].name] # m
        BY <4>2, LinesInAt
      <4> QED
        BY <4>1, <4>2
    <3> QED
      BY <3>1, <3>2
  <2> QED
    BY <2>1, <2>2
<1> QED
  BY <1>7, <1>8 DEF new

-----------------------------------------------------------------------------
(* The invariant.                                                          *)

\* The entry an access finds.
LEMMA EntryFound ==
    ASSUME SoundMap(headers), NEW n \in Spellings, Has(n)
    PROVE  /\ At(n) \in DOMAIN headers
           /\ Entry(n) = headers[At(n)]
           /\ Sound(Entry(n))
           /\ LowerCase[Entry(n).name] = LowerCase[n]
<1>1. At(n) \in DOMAIN headers /\ LowerCase[headers[At(n)].name] = LowerCase[n]
  BY PlaceOf DEF Has, At
<1> QED
  BY <1>1 DEF SoundMap, Entry

\* A step that goes on with sound entries keeps the invariant.
LEMMA GoesOn ==
    ASSUME panic = NoPanic, NEW hs, SoundMap(hs), Become(hs), reply' \in AllValues
    PROVE  StoreInv'
<1>1. headers' = hs /\ panic' = NoPanic
  BY DEF Become
<1>2. SoundMap(headers)'
  BY <1>1 DEF SoundMap, Unique, Sound, Cached, Matches
<1> QED
  BY <1>1, <1>2 DEF StoreInv, PanicNeedsCause

\* A cause is in the call and the entry alone.
LEMMA CauseKept ==
    ASSUME NEW call, NEW item, NEW at, Deserved(call, item),
           panic' = [call |-> call, at |-> at], headers'[at] = item
    PROVE  PanicNeedsCause'
BY DEF PanicNeedsCause, Deserved, Mixed, CannotPrint, CannotSend, HasLineIn, Cached, RawOf

\* So does a panic that leaves its cause behind.
LEMMA PanicLeavesCause ==
    ASSUME SoundMap(headers), NEW n \in Spellings, Has(n), NEW item, Sound(item),
           LowerCase[item.name] = LowerCase[n], NEW call \in PanicCalls, Deserved(call, item),
           Panic(n, item, call)
    PROVE  StoreInv'
<1>1. At(n) \in DOMAIN headers /\ LowerCase[headers[At(n)].name] = LowerCase[n]
  BY EntryFound
<1> DEFINE hs == [headers EXCEPT ![At(n)] = item]
<1>2. SoundMap(hs) /\ At(n) \in DOMAIN hs /\ hs[At(n)] = item
  BY <1>1, ReplaceSound
<1>3. headers' = hs /\ panic' = [call |-> call, at |-> At(n)] /\ reply' = NoValue
  BY DEF Panic
<1> HIDE DEF hs
<1>4. SoundMap(headers)'
  BY <1>2, <1>3 DEF SoundMap, Unique, Sound, Cached, Matches
<1>5. PanicNeedsCause'
  BY <1>2, <1>3, CauseKept DEF PanicNeedsCause
<1> QED
  BY <1>2, <1>3, <1>4, <1>5, TypedValues DEF StoreInv

\* Compare: the maps agree as far as they are compared, and the lines that were asked for stay.
ComparedTo(hs, k) ==
    LET lines == [i \in 1..k |-> RawOf(hs[i])]
    IN  [i \in DOMAIN hs |-> IF i > k \/ lines[i] = Panics THEN hs[i]
                             ELSE [hs[i] EXCEPT !.raw = lines[i]]]

\* Comparing keeps the map sound and every name's lines, and an entry that panics as it was.
LEMMA ComparedSound ==
    ASSUME NEW hs, SoundMap(hs), NEW k \in DOMAIN hs
    PROVE  /\ SoundMap(ComparedTo(hs, k)) /\ Same(hs, ComparedTo(hs, k))
           /\ RawOf(hs[k]) = Panics => ComparedTo(hs, k)[k] = hs[k]
<1> DEFINE new == ComparedTo(hs, k)
<1>1. DOMAIN hs = 1..Len(hs) /\ Len(hs) \in Nat
  BY DEF SoundMap
<1>2. ASSUME NEW i \in DOMAIN hs
      PROVE  new[i] = IF i > k \/ RawOf(hs[i]) = Panics THEN hs[i] ELSE Printed(hs[i])
  <2>1. CASE i > k
    BY <2>1 DEF ComparedTo
  <2>2. CASE ~(i > k)
    <3>1. i \in 1..k
      BY <1>1, <2>2
    <3> QED
      BY <2>2, <3>1 DEF ComparedTo, Printed
  <2> QED
    BY <2>1, <2>2
<1>3. DOMAIN new = DOMAIN hs /\ new = [i \in DOMAIN hs |-> new[i]]
  BY DEF ComparedTo
<1> HIDE DEF new
<1>4. ASSUME NEW i \in DOMAIN hs
      PROVE  Sound(new[i]) /\ new[i].name = hs[i].name /\ RawOf(new[i]) = RawOf(hs[i]) /\ new[i] \in Item
  <2>1. Sound(hs[i])
    BY DEF SoundMap
  <2>2. CASE i > k \/ RawOf(hs[i]) = Panics
    BY <1>2, <2>1, <2>2 DEF Sound
  <2>3. CASE ~(i > k \/ RawOf(hs[i]) = Panics)
    <3>1. new[i] = Printed(hs[i])
      BY <1>2, <2>3
    <3> QED
      BY <2>1, <2>3, <3>1, PrintedSound DEF Sound
  <2> QED
    BY <2>2, <2>3
<1>5. new \in [DOMAIN hs -> Item]
  BY <1>3, <1>4
<1>6. SoundMap(new) /\ Same(hs, new)
  BY <1>4, <1>5, MappedSound
<1>7. RawOf(hs[k]) = Panics => new[k] = hs[k]
  BY <1>2
<1> QED
  BY <1>6, <1>7 DEF new

\* Entries another map may hold are sound.
LEMMA ViewsSound ==
    ASSUME NEW item \in Views
    PROVE  /\ Sound(item)
           /\ item.name \in Spellings
           /\ \/ RawOf(item) \in Given
              \/ \E t \in Types : item.name = HeaderName[t] /\ \E v \in Values[t] : RawOf(item) = Format[t][v]
<1>1. ASSUME NEW n \in Spellings, NEW l \in Given, item = NewRaw(n, l)
      PROVE  Sound(item) /\ RawOf(item) \in Given
  BY <1>1, NewRawSound, HeaderAssumption
<1>2. ASSUME NEW t \in Types, NEW v \in Values[t], item = NewTyped(HeaderName[t], t, v)
      PROVE  Sound(item) /\ item.name = HeaderName[t] /\ RawOf(item) = Format[t][v]
  BY <1>2, NewTypedSound
<1>3. ASSUME NEW t \in Types, NEW l \in Given, item = Remembered(NewRaw(HeaderName[t], l), t)
      PROVE  Sound(item) /\ RawOf(item) \in Given
  <2> DEFINE new == NewRaw(HeaderName[t], l)
  <2>1. l \in LineLists /\ HeaderName[t] \in Spellings /\ l # NoLines
    BY HeaderAssumption
  <2>2. Sound(new) /\ RawOf(new) = l /\ new.raw = l /\ new.name = HeaderName[t]
    BY <2>1, NewRawSound DEF NewRaw
  <2> HIDE DEF new
  <2>3. TypedOf(new, t) # Panics /\ Matches(t, new)
    BY <2>1, <2>2, TypedOfType DEF Matches
  <2> QED
    BY <1>3, <2>2, <2>3, RememberedSound DEF new
<1>4. item.name \in Spellings
  BY <1>1, <1>2, <1>3 DEF Views, Sound, Item
<1> QED
  BY <1>1, <1>2, <1>3, <1>4 DEF Views

\* An entry stands in for the one that was found.
LEMMA Stored ==
    ASSUME SoundMap(headers), NEW n \in Spellings, Has(n), NEW item, Sound(item),
           item.name = Entry(n).name
    PROVE  /\ SoundMap([headers EXCEPT ![At(n)] = item])
           /\ Changed(headers, [headers EXCEPT ![At(n)] = item], n, RawOf(item))
<1>1. At(n) \in DOMAIN headers /\ Entry(n) = headers[At(n)] /\ LowerCase[Entry(n).name] = LowerCase[n]
  BY EntryFound
<1> DEFINE i == At(n)
<1>2. i \in DOMAIN headers /\ LowerCase[item.name] = LowerCase[headers[i].name]
  BY <1>1
<1> HIDE DEF i
<1>3. /\ SoundMap([headers EXCEPT ![i] = item])
      /\ Changed(headers, [headers EXCEPT ![i] = item], headers[i].name, RawOf(item))
  BY <1>2, ReplaceSound
<1>4. LowerCase[headers[i].name] = LowerCase[n]
  BY <1>1 DEF i
<1> QED
  BY <1>3, <1>4 DEF Changed, i

\* A new map of headers satisfies the invariant.
LEMMA InitStore == Init => StoreInv
BY EmptySound, TypedValues DEF Init, StoreInv, PanicNeedsCause

\* Every access keeps the invariant, one step of the proof for each.
LEMMA StoreStep == StoreInv /\ [Next]_vars => StoreInv'
<1> SUFFICES ASSUME StoreInv, [Next]_vars PROVE StoreInv'
  OBVIOUS
<1>0. SoundMap(headers) /\ NoValue \in AllValues
  BY TypedValues DEF StoreInv
<1>t. \A t \in Types : HeaderName[t] \in Spellings /\ Values[t] \subseteq AllValues
  BY Tables
<1>g. Given \subseteq LineLists
  BY HeaderAssumption
<1>1. ASSUME NEW t \in Types, NEW v \in Values[t], panic = NoPanic, Set(t, v) PROVE StoreInv'
  <2>1. SoundMap(Insert(headers, NewTyped(HeaderName[t], t, v)))
    BY <1>0, NewTypedSound, InsertSound
  <2> QED
    BY <1>0, <1>1, <2>1, GoesOn DEF Set, Add
<1>2. ASSUME NEW t \in Types, panic = NoPanic, Get(t) PROVE StoreInv'
  <2> DEFINE n == HeaderName[t]
  <2>1. n \in Spellings
    BY <1>t
  <2> HIDE DEF n
  <2>2. CASE ~Has(n)
    BY <1>0, <1>2, <2>2, GoesOn DEF Get, n
  <2>3. CASE Has(n) /\ TypedOf(Entry(n), t) = Panics
    <3>1. Panic(n, UsedAs(Entry(n), t), "typed")
      BY <1>2, <2>3 DEF Get, n
    <3>2. Sound(Entry(n)) /\ LowerCase[Entry(n).name] = LowerCase[n]
      BY <1>0, <2>1, <2>3, EntryFound
    <3>3. /\ Sound(UsedAs(Entry(n), t)) /\ UsedAs(Entry(n), t).name = Entry(n).name
          /\ Deserved("typed", UsedAs(Entry(n), t)) /\ "typed" \in PanicCalls
      BY <2>3, <3>2, UsedAsSound, TypedOfPanics DEF Deserved, PanicCalls
    <3> QED
      BY <1>0, <2>1, <2>3, <3>1, <3>2, <3>3, PanicLeavesCause
  <2>4. CASE Has(n) /\ TypedOf(Entry(n), t) # Panics
    <3>1. /\ reply' = TypedOf(Entry(n), t)
          /\ Become([headers EXCEPT ![At(n)] = Remembered(Entry(n), t)])
      BY <1>2, <2>4 DEF Get, n
    <3>2. Sound(Entry(n)) /\ Matches(t, Entry(n))
      BY <1>0, <2>1, <2>4, EntryFound DEF Matches, n
    <3>3. Sound(Remembered(Entry(n), t)) /\ Remembered(Entry(n), t).name = Entry(n).name
      BY <2>4, <3>2, RememberedSound
    <3>4. SoundMap([headers EXCEPT ![At(n)] = Remembered(Entry(n), t)])
      BY <1>0, <2>1, <2>4, <3>3, Stored
    <3>5. reply' \in AllValues
      BY <1>0, <1>t, <2>4, <3>1, <3>2, TypedOfType
    <3> QED
      BY <1>2, <3>1, <3>4, <3>5, GoesOn
  <2> QED
    BY <2>2, <2>3, <2>4
<1>3. ASSUME NEW t \in Types, NEW v \in Values[t], panic = NoPanic, GetMut(t, v) PROVE StoreInv'
  <2> DEFINE n == HeaderName[t]
  <2>1. n \in Spellings
    BY <1>t
  <2> HIDE DEF n
  <2>2. CASE ~Has(n)
    BY <1>0, <1>3, <2>2, GoesOn DEF GetMut, n
  <2>3. CASE Has(n) /\ TypedOf(Entry(n), t) = Panics
    <3>1. Panic(n, UsedAs(Entry(n), t), "typed")
      BY <1>3, <2>3 DEF GetMut, n
    <3>2. Sound(Entry(n)) /\ LowerCase[Entry(n).name] = LowerCase[n]
      BY <1>0, <2>1, <2>3, EntryFound
    <3>3. /\ Sound(UsedAs(Entry(n), t)) /\ UsedAs(Entry(n), t).name = Entry(n).name
          /\ Deserved("typed", UsedAs(Entry(n), t)) /\ "typed" \in PanicCalls
      BY <2>3, <3>2, UsedAsSound, TypedOfPanics DEF Deserved, PanicCalls
    <3> QED
      BY <1>0, <2>1, <2>3, <3>1, <3>2, <3>3, PanicLeavesCause
  <2>4. CASE Has(n) /\ TypedOf(Entry(n), t) # Panics
    <3> DEFINE new == IF TypedOf(Entry(n), t) = NoValue THEN Entry(n) ELSE Written(Entry(n), t, v)
    <3>1. reply' = TypedOf(Entry(n), t) /\ Become([headers EXCEPT ![At(n)] = new])
      BY <1>3, <2>4 DEF GetMut, n
    <3>2. Sound(Entry(n)) /\ Matches(t, Entry(n))
      BY <1>0, <2>1, <2>4, EntryFound DEF Matches, n
    <3>3. Sound(new) /\ new.name = Entry(n).name
      BY <3>2, WrittenSound
    <3> HIDE DEF new
    <3>4. SoundMap([headers EXCEPT ![At(n)] = new])
      BY <1>0, <2>1, <2>4, <3>3, Stored
    <3>5. reply' \in AllValues
      BY <1>0, <1>t, <2>4, <3>1, <3>2, TypedOfType
    <3> QED
      BY <1>3, <3>1, <3>4, <3>5, GoesOn
  <2> QED
    BY <2>2, <2>3, <2>4
<1>r. ASSUME NEW n \in Spellings, Has(n) PROVE SoundMap(Without(headers, At(n)))
  BY <1>0, <1>r, EntryFound, WithoutSound
<1>4. ASSUME NEW t \in Types, panic = NoPanic, Remove(t) PROVE StoreInv'
  <2> DEFINE n == HeaderName[t]
  <2>1. n \in Spellings
    BY <1>t
  <2> HIDE DEF n
  <2>2. CASE ~Has(n)
    BY <1>0, <1>4, <2>2, GoesOn DEF Remove, n
  <2>3. CASE Has(n)
    <3>1. Sound(Entry(n))
      BY <1>0, <2>1, <2>3, EntryFound
    <3>2. Become(Without(headers, At(n))) /\ reply' \in {NoValue, TypedOf(Entry(n), t)} \ {Panics}
      BY <1>4, <2>3, Tables DEF Remove, n
    <3>3. reply' \in AllValues
      BY <1>0, <1>t, <3>1, <3>2, TypedOfType
    <3> QED
      BY <1>4, <1>r, <2>1, <2>3, <3>2, <3>3, GoesOn
  <2> QED
    BY <2>2, <2>3
<1>p. ASSUME NEW n \in Spellings, Has(n), RawOf(Entry(n)) = Panics,
             NEW call \in {"raw", "text"}, Panic(n, Entry(n), call)
      PROVE  StoreInv'
  <2>1. Sound(Entry(n)) /\ LowerCase[Entry(n).name] = LowerCase[n]
    BY <1>0, <1>p, EntryFound
  <2>2. Deserved(call, Entry(n)) /\ call \in PanicCalls
    BY <1>p, <2>1, RawOfPanics DEF Deserved, PanicCalls
  <2> QED
    BY <1>0, <1>p, <2>1, <2>2, PanicLeavesCause
<1>5. ASSUME NEW n \in Spellings, panic = NoPanic, GetRaw(n) PROVE StoreInv'
  <2>1. Has(n) /\ Sound(Entry(n))
    BY <1>0, <1>5, EntryFound DEF GetRaw
  <2>2. CASE RawOf(Entry(n)) = Panics
    BY <1>5, <1>p, <2>1, <2>2 DEF GetRaw
  <2>3. CASE RawOf(Entry(n)) # Panics
    <3>1. Become([headers EXCEPT ![At(n)] = Printed(Entry(n))]) /\ reply' = NoValue
      BY <1>5, <2>3 DEF GetRaw, Printed, Entry
    <3>2. SoundMap([headers EXCEPT ![At(n)] = Printed(Entry(n))])
      BY <1>0, <2>1, <2>3, PrintedSound, Stored
    <3> QED
      BY <1>0, <1>5, <3>1, <3>2, GoesOn
  <2> QED
    BY <2>2, <2>3
<1>6. ASSUME NEW n \in Spellings, NEW l \in Given, panic = NoPanic, SetRaw(n, l) PROVE StoreInv'
  <2>1. SoundMap(Insert(headers, NewRaw(n, l)))
    BY <1>0, <1>g, NewRawSound, InsertSound
  <2> QED
    BY <1>0, <1>6, <2>1, GoesOn DEF SetRaw, Add
<1>7. ASSUME NEW n \in Spellings, NEW spelling \in Spellings, NEW l \in Given, panic = NoPanic, Push(n, spelling, l)
      PROVE  StoreInv'
  <2>1. CASE ~Has(n)
    <3>1. SoundMap(Insert(headers, NewRaw(spelling, l)))
      BY <1>0, <1>g, NewRawSound, InsertSound
    <3> QED
      BY <1>0, <1>7, <2>1, <3>1, GoesOn DEF Push, Add
  <2>2. CASE Has(n) /\ RawOf(Entry(n)) = Panics
    BY <1>7, <1>p, <2>2 DEF Push, Add
  <2>3. CASE Has(n) /\ RawOf(Entry(n)) # Panics
    <3>1. /\ Len(RawOf(Entry(n))) + Len(l) <= MaxLines
          /\ Become([headers EXCEPT ![At(n)] = RawMut(Entry(n), l)])
          /\ reply' = NoValue
      BY <1>7, <2>3 DEF Push, Add
    <3>2. Sound(Entry(n)) /\ l \in LineLists
      BY <1>0, <1>g, <2>3, EntryFound
    <3>3. Sound(RawMut(Entry(n), l)) /\ RawMut(Entry(n), l).name = Entry(n).name
      BY <2>3, <3>1, <3>2, RawMutSound
    <3>4. SoundMap([headers EXCEPT ![At(n)] = RawMut(Entry(n), l)])
      BY <1>0, <2>3, <3>3, Stored
    <3> QED
      BY <1>0, <1>7, <3>1, <3>4, GoesOn
  <2> QED
    BY <2>1, <2>2, <2>3
<1>8. ASSUME NEW n \in Spellings, panic = NoPanic, ValueString(n) PROVE StoreInv'
  <2>1. Has(n) /\ Sound(Entry(n)) /\ LowerCase[Entry(n).name] = LowerCase[n]
    BY <1>0, <1>8, EntryFound DEF ValueString
  <2>2. CASE RawOf(Entry(n)) = Panics
    BY <1>8, <1>p, <2>1, <2>2 DEF ValueString
  <2>3. CASE HasLineIn(Entry(n), NotText)
    <3>1. Deserved("text", Entry(n)) /\ Panic(n, Entry(n), "text") /\ "text" \in PanicCalls
      BY <1>8, <2>3 DEF ValueString, Deserved, PanicCalls
    <3> QED
      BY <1>0, <2>1, <3>1, PanicLeavesCause
  <2>4. CASE ~(RawOf(Entry(n)) = Panics \/ HasLineIn(Entry(n), NotText))
    BY <1>0, <1>8, <2>4, GoesOn DEF ValueString
  <2> QED
    BY <2>2, <2>3, <2>4
<1>9. ASSUME NEW n \in Spellings, panic = NoPanic, RemoveRaw(n) PROVE StoreInv'
  BY <1>0, <1>9, <1>r, GoesOn DEF RemoveRaw
<1>10. ASSUME panic = NoPanic, Clear PROVE StoreInv'
  BY <1>0, <1>10, EmptySound, GoesOn DEF Clear
<1>11. ASSUME NEW item \in Views, panic = NoPanic, ExtendView(item) PROVE StoreInv'
  BY <1>0, <1>11, ViewsSound, InsertSound, GoesOn DEF ExtendView, Add
<1>12. ASSUME panic = NoPanic, Compare PROVE StoreInv'
  <2>1. PICK k \in DOMAIN headers :
           /\ headers' = ComparedTo(headers, k)
           /\ panic' = IF RawOf(headers[k]) = Panics THEN [call |-> "raw", at |-> k] ELSE NoPanic
           /\ reply' = NoValue
    <3>1. DOMAIN headers \subseteq Nat \ {0}
      BY <1>0 DEF SoundMap
    <3>2. PICK k \in DOMAIN headers :
             /\ headers' = ComparedTo(headers, k)
             /\ panic' = IF [i \in 1..k |-> RawOf(headers[i])][k] = Panics
                         THEN [call |-> "raw", at |-> k] ELSE NoPanic
             /\ reply' = NoValue
      BY <1>12 DEF Compare, ComparedTo
    <3>3. k \in 1..k
      BY <3>1
    <3> QED
      BY <3>2, <3>3
  <2>2. SoundMap(ComparedTo(headers, k))
    BY <1>0, ComparedSound
  <2>3. CASE RawOf(headers[k]) # Panics
    <3>1. panic' = NoPanic
      BY <2>1, <2>3
    <3>2. Become(ComparedTo(headers, k))
      BY <1>12, <2>1, <3>1 DEF Become
    <3> QED
      BY <1>0, <1>12, <2>1, <2>2, <3>2, GoesOn
  <2>4. CASE RawOf(headers[k]) = Panics
    <3>1. Sound(headers[k]) /\ k \in DOMAIN headers' /\ headers'[k] = headers[k]
      BY <1>0, <2>1, <2>4, ComparedSound DEF SoundMap, ComparedTo
    <3>2. Deserved("raw", headers[k])
      BY <2>4, <3>1, RawOfPanics DEF Deserved
    <3>3. panic' = [call |-> "raw", at |-> k] /\ "raw" \in PanicCalls
      BY <2>1, <2>4 DEF PanicCalls
    <3>4. PanicNeedsCause'
      BY <3>1, <3>2, <3>3, CauseKept
    <3>5. SoundMap(headers)'
      BY <2>1, <2>2 DEF SoundMap, Unique, Sound, Cached, Matches
    <3> QED
      BY <1>0, <2>1, <3>1, <3>3, <3>4, <3>5 DEF StoreInv
  <2> QED
    BY <2>3, <2>4
<1>13. ASSUME panic = NoPanic, Convert PROVE StoreInv'
  <2>1. CASE \A i \in DOMAIN headers : IsSendable(i)
    <3>1. PICK order \in Orders(Kept) : Become(Converted(order)) /\ reply' = NoValue
      BY <1>13, <2>1 DEF Convert
    <3>2. SoundMap(ConvertedFrom(headers, order))
      BY <1>0, <2>1, ConvertedSound DEF IsSendable, Kept
    <3> QED
      BY <1>0, <1>13, <3>1, <3>2, GoesOn DEF Converted, ConvertedFrom
  <2>2. CASE \E i \in DOMAIN headers : ~IsSendable(i)
    <3>1. reply' = NoValue /\ headers' = headers
      BY <1>13, <2>2 DEF Convert
    <3>2. PICK i \in DOMAIN headers : ~IsSendable(i) /\ panic' = [call |-> "convert", at |-> i]
      BY <1>13, <2>2 DEF Convert
    <3>3. Sound(headers[i])
      BY <1>0, <3>1 DEF SoundMap
    <3>4. Deserved("convert", headers[i])
      <4>1. CASE RawOf(headers[i]) = Panics
        BY <3>3, <4>1, RawOfPanics DEF Deserved
      <4>2. CASE RawOf(headers[i]) # Panics
        BY <3>2, <4>2 DEF IsSendable, Deserved, CannotSend
      <4> QED
        BY <4>1, <4>2
    <3>5. PanicNeedsCause'
      BY <3>1, <3>2, <3>4, CauseKept
    <3>6. SoundMap(headers)'
      BY <1>0, <3>1 DEF SoundMap, Unique, Sound, Cached, Matches
    <3> QED
      BY <1>0, <3>1, <3>2, <3>5, <3>6 DEF StoreInv, PanicCalls
  <2> QED
    BY <2>1, <2>2
<1>14. CASE UNCHANGED vars
  <2>1. headers' = headers /\ reply' = reply /\ panic' = panic
    BY <1>14 DEF vars
  <2>2. SoundMap(headers)'
    BY <1>0, <2>1 DEF SoundMap, Unique, Sound, Cached, Matches
  <2>3. PanicNeedsCause'
    BY <2>1 DEF StoreInv, PanicNeedsCause, Deserved, Mixed, CannotPrint, CannotSend, HasLineIn, Cached, RawOf
  <2> QED
    BY <2>1, <2>2, <2>3 DEF StoreInv
<1>15. \A n \in Spellings : Literal[n] \in Spellings
  BY HeaderAssumption
<1>16. ASSUME NEW n \in Spellings, NEW l \in Given, panic = NoPanic, Len(l) = 1, ExtendBytes(n, l[1]) PROVE StoreInv'
  <2>1. l = <<l[1]>>
    BY <1>16, <1>g, LineListsAreSeqs
  <2> QED
    BY <1>7, <1>15, <1>16, <2>1 DEF ExtendBytes
<1> QED
  BY <1>1, <1>2, <1>3, <1>4, <1>5, <1>6, <1>7, <1>8, <1>9, <1>10, <1>11, <1>12, <1>13, <1>14, <1>16
     DEF Next, AppendRaw

\* The inductive invariant holds in every state of the map.
THEOREM StoreInvariant == Spec => []StoreInv
<1>1. Init => StoreInv
  BY InitStore
<1>2. StoreInv /\ [Next]_vars => StoreInv'
  BY StoreStep
<1> QED
  BY <1>1, <1>2, PTL DEF Spec

\* The entries are well typed, and a value an entry holds is of a type of its name, for any
\* headers and any tables of what they are read and printed as.
THEOREM HeadersTypeCorrect == Spec => []TypeOK
<1>1. StoreInv => TypeOK
  BY DEF StoreInv, SoundMap, Sound, TypeOK, Matches
<1> QED
  BY <1>1, StoreInvariant, PTL

\* No access leaves two entries of one name (VecMap::insert, Extend, compat.rs).
THEOREM OneEntryPerName == Spec => []NamesUnique
<1>1. StoreInv => NamesUnique
  BY DEF StoreInv, SoundMap, Unique, NamesUnique
<1> QED
  BY <1>1, StoreInvariant, PTL

\* Lines and values kept side by side never disagree (Item::raw, typed, typed_mut, raw_mut).
THEOREM CacheIsCoherent == Spec => []CopiesAgree
<1>1. StoreInv => CopiesAgree
  BY DEF StoreInv, SoundMap, Sound, CopiesAgree
<1> QED
  BY <1>1, StoreInvariant, PTL

\* A call panics over an entry only for what was done to that entry: without lines it was used
\* as two types, or its value cannot be printed (item.rs, cell.rs), its lines are not text
\* (value_string), or its name or a line is refused by http (compat.rs).
THEOREM PanicsAreDeserved == Spec => []PanicNeedsCause
<1>1. StoreInv => PanicNeedsCause
  BY DEF StoreInv
<1> QED
  BY <1>1, StoreInvariant, PTL

-----------------------------------------------------------------------------
(* The map keeps the promise of AbstractHeaders.                           *)

\* The refinement mapping of HeaderStoreProps, as a function of the entries.
LEMMA LinesOfIs == LinesOf = LinesIn(headers)
BY DEF LinesOf, LinesIn, Has, Entry, At

\* The lines of a name, however it is spelled, are those of the entry an access finds.
LEMMA LinesOfAt ==
    ASSUME SoundMap(headers), NEW n \in Spellings
    PROVE  LinesOf[LowerCase[n]] = IF Has(n) THEN RawOf(Entry(n)) ELSE NoLines
<1>1. LowerCase[n] \in LowerNames
  BY LowerName
<1>2. CASE Has(n)
  <2>1. At(n) \in DOMAIN headers /\ Entry(n) = headers[At(n)] /\ LowerCase[Entry(n).name] = LowerCase[n]
    BY <1>2, EntryFound
  <2> QED
    BY <1>2, <2>1, LinesInAt, LinesOfIs
<1>3. CASE ~Has(n)
  <2>1. \A i \in DOMAIN headers : LowerCase[headers[i].name] # LowerCase[n]
    BY <1>3 DEF Has, Places
  <2> QED
    BY <1>1, <1>3, <2>1, LinesInAt, LinesOfIs
<1> QED
  BY <1>2, <1>3

\* The lines after a step that goes on with other entries.
LEMMA LinesAfter ==
    ASSUME NEW hs, Become(hs)
    PROVE  LinesOf' = LinesIn(hs)
<1>1. headers' = hs
  BY DEF Become
<1>2. LinesOf' = LinesIn(headers')
  BY DEF LinesOf, LinesIn, Has, Entry, At, LowerNames
<1> QED
  BY <1>1, <1>2

\* One name has other lines from now on.
LEMMA NameReplaced ==
    ASSUME NEW hs, Become(hs), NEW n \in Spellings, NEW l, Changed(headers, hs, n, l)
    PROVE  Map!Replace(LowerCase[n], l)
<1>1. LinesOf' = LinesIn(hs) /\ LinesOf = LinesIn(headers)
  BY LinesAfter, LinesOfIs
<1>2. LowerCase[n] \in LowerNames
  BY LowerName
<1> QED
  BY <1>1, <1>2 DEF Changed, Map!Replace

\* All names have the lines they had.
LEMMA LinesKept ==
    ASSUME NEW hs, Become(hs), Same(headers, hs)
    PROVE  LinesOf' = LinesOf
<1>1. LinesOf' = LinesIn(hs) /\ LinesOf = LinesIn(headers)
  BY LinesAfter, LinesOfIs
<1>2. LinesIn(hs) = LinesIn(headers)
  BY DEF Same, LinesIn
<1> QED
  BY <1>1, <1>2

\* A typed access finds a reading of the lines, whatever was remembered or printed before.
LEMMA TypedOfIsReading ==
    ASSUME NEW item, Sound(item), ~Mixed(item), NEW t \in Types, TypedOf(item, t) # Panics
    PROVE  TypedOf(item, t) \in Map!Readings(t, RawOf(item))
<1>1. RawOf(item) # NoLines /\ RawOf(item) \in LineLists \union {Panics}
  BY RawOfType
<1>2. CASE item.typed[t] # NoValue
  <2>1. TypedOf(item, t) = item.typed[t] /\ item.typed[t] \in Values[t] /\ t \in Cached(item)
    BY <1>2 DEF TypedOf, Sound, Cached
  <2>2. CASE item.raw = NoLines
    <3>1. RawOf(item) = Format[t][item.typed[t]]
      BY <2>1, <2>2, OneType, RawOfOne
    <3> QED
      BY <1>1, <2>1, <3>1 DEF Map!Readings
  <2>3. CASE item.raw # NoLines
    <3>1. RawOf(item) = item.raw /\ item.raw \in LineLists
      BY <2>3 DEF RawOf, Sound, Item
    <3>2. item.typed[t] = Parse[t][item.raw] \/ Format[t][item.typed[t]] = item.raw
      BY <2>1, <2>3 DEF Sound
    <3>3. item.raw # Panics
      BY <3>1, HeaderAssumption
    <3> QED
      BY <1>1, <2>1, <3>1, <3>2, <3>3 DEF Map!Readings
  <2> QED
    BY <2>2, <2>3
<1>3. CASE item.typed[t] = NoValue
  <2>1. item.raw # NoLines
    BY <1>3, TypedOfType
  <2>2. RawOf(item) = item.raw /\ item.raw \in LineLists /\ TypedOf(item, t) = Parse[t][item.raw]
    BY <1>3, <2>1 DEF RawOf, TypedOf, Sound, Item
  <2>3. item.raw # Panics
    BY <2>2, HeaderAssumption
  <2> QED
    BY <1>1, <2>2, <2>3 DEF Map!Readings
<1> QED
  BY <1>2, <1>3

\* A new map of headers is one without lines.
LEMMA AbstractInit == Init => Map!Init
<1> SUFFICES ASSUME Init PROVE Map!Init
  OBVIOUS
<1>1. headers = <<>> /\ reply = NoValue
  BY DEF Init
<1>2. LinesOf = LinesIn(<<>>)
  BY <1>1, LinesOfIs
<1>3. LinesIn(<<>>) = [n \in LowerNames |-> NoLines]
  BY EmptySound DEF LinesIn
<1> QED
  BY <1>1, <1>2, <1>3 DEF Map!Init

\* Each access of the map is the step of AbstractHeaders that goes by its name, as long as no
\* entry is used as two types and nothing panics.
LEMMA AbstractStep ==
    StoreInv /\ [Next]_vars => [Clean /\ Clean' /\ panic' = NoPanic => [Map!Next]_(Map!absVars)]_vars
<1> SUFFICES ASSUME StoreInv, Next, Clean, Clean', panic' = NoPanic PROVE [Map!Next]_(Map!absVars)
  OBVIOUS
<1>0. SoundMap(headers) /\ panic = NoPanic
  BY DEF StoreInv, Next
<1>x. \A n, item, at : \A call \in PanicCalls :
        ~Panic(n, item, call) /\ panic' # [call |-> call, at |-> at]
  BY DEF Panic, PanicCalls, NoPanic
<1>y. {"typed", "raw", "text", "convert"} = PanicCalls
  BY DEF PanicCalls
<1>t. \A t \in Types : HeaderName[t] \in Spellings
  BY Tables
<1>g. Given \subseteq LineLists
  BY HeaderAssumption
<1>l. /\ \A n \in Spellings : LowerCase[n] \in LowerNames
      /\ \A t \in Types : LowerNameOf[t] = LowerCase[HeaderName[t]]
  BY LowerName DEF LowerNameOf
<1>c. \A i \in DOMAIN headers : ~Mixed(headers[i])
  BY DEF Clean
<1>d. \A i \in DOMAIN headers' : ~Mixed(headers'[i])
  BY DEF Clean, Mixed
<1>f. ASSUME NEW n \in Spellings, Has(n)
      PROVE  /\ At(n) \in DOMAIN headers /\ Sound(Entry(n)) /\ ~Mixed(Entry(n))
             /\ LowerCase[Entry(n).name] = LowerCase[n]
             /\ LinesOf[LowerCase[n]] = RawOf(Entry(n))
  BY <1>0, <1>c, <1>f, EntryFound, LinesOfAt
<1>a. ASSUME NEW n \in Spellings, ~Has(n) PROVE LinesOf[LowerCase[n]] = NoLines
  BY <1>0, <1>a, LinesOfAt
<1>n. ASSUME NEW t \in Types, ~Has(HeaderName[t]), reply' = NoValue, Become(headers)
      PROVE  Map!Read(t)
  <2>1. LinesOf' = LinesOf
    BY <1>n, LinesKept DEF Same
  <2>2. LinesOf[LowerNameOf[t]] = NoLines
    BY <1>n, <1>a, <1>t, <1>l
  <2> QED
    BY <1>n, <2>1, <2>2 DEF Map!Read, Map!Readings
<1>1. ASSUME NEW t \in Types, NEW v \in Values[t], Set(t, v) PROVE Map!Put(t)
  <2> DEFINE item == NewTyped(HeaderName[t], t, v)
  <2>1. Sound(item) /\ RawOf(item) = Format[t][v] /\ item.name = HeaderName[t]
    BY NewTypedSound
  <2>2. Become(Insert(headers, item)) /\ reply' = NoValue
    BY <1>1 DEF Set, Add
  <2> HIDE DEF item
  <2>3. Changed(headers, Insert(headers, item), HeaderName[t], Format[t][v])
    BY <1>0, <2>1, InsertSound
  <2>4. Map!Replace(LowerCase[HeaderName[t]], Format[t][v])
    BY <1>t, <2>2, <2>3, NameReplaced
  <2> QED
    BY <1>l, <2>2, <2>4 DEF Map!Put
<1>2. ASSUME NEW t \in Types, Get(t) PROVE Map!Read(t)
  <2> DEFINE n == HeaderName[t]
  <2>1. n \in Spellings
    BY <1>t
  <2>2. CASE ~Has(n)
    BY <1>2, <1>n, <2>2 DEF Get
  <2> HIDE DEF n
  <2>3. CASE Has(n)
    <3>1. TypedOf(Entry(n), t) # Panics
      BY <1>2, <1>x, <1>y, <2>3 DEF Get, n
    <3>2. /\ reply' = TypedOf(Entry(n), t)
          /\ Become([headers EXCEPT ![At(n)] = Remembered(Entry(n), t)])
      BY <1>2, <2>3, <3>1 DEF Get, n
    <3>3. Sound(Entry(n)) /\ Matches(t, Entry(n)) /\ ~Mixed(Entry(n))
      BY <1>f, <2>1, <2>3 DEF Matches, n
    <3>4. /\ Sound(Remembered(Entry(n), t)) /\ Remembered(Entry(n), t).name = Entry(n).name
          /\ RawOf(Remembered(Entry(n), t)) = RawOf(Entry(n))
      BY <3>1, <3>3, RememberedSound
    <3>5. Changed(headers, [headers EXCEPT ![At(n)] = Remembered(Entry(n), t)], n, RawOf(Entry(n)))
      BY <1>0, <2>1, <2>3, <3>4, Stored
    <3>6. Same(headers, [headers EXCEPT ![At(n)] = Remembered(Entry(n), t)])
      BY <1>f, <2>1, <2>3, <3>5, LinesOfIs DEF Changed, Same
    <3>7. LinesOf' = LinesOf
      BY <3>2, <3>6, LinesKept
    <3>8. reply' \in Map!Readings(t, LinesOf[LowerCase[n]])
      BY <1>f, <2>1, <2>3, <3>1, <3>2, <3>3, TypedOfIsReading
    <3> QED
      BY <1>l, <3>7, <3>8 DEF Map!Read, n
  <2> QED
    BY <2>2, <2>3 DEF n
<1>3. ASSUME NEW t \in Types, NEW v \in Values[t], GetMut(t, v) PROVE Map!Read(t) \/ Map!Update(t)
  <2> DEFINE n == HeaderName[t]
  <2>1. n \in Spellings
    BY <1>t
  <2>2. CASE ~Has(n)
    BY <1>3, <1>n, <2>2 DEF GetMut
  <2> HIDE DEF n
  <2>3. CASE Has(n)
    <3>1. TypedOf(Entry(n), t) # Panics
      BY <1>3, <1>x, <1>y, <2>3 DEF GetMut, n
    <3>2. Sound(Entry(n)) /\ Matches(t, Entry(n)) /\ ~Mixed(Entry(n)) /\ At(n) \in DOMAIN headers
      BY <1>f, <2>1, <2>3 DEF Matches, n
    <3>3. TypedOf(Entry(n), t) \in Map!Readings(t, LinesOf[LowerCase[n]])
      BY <1>f, <2>1, <2>3, <3>1, <3>2, TypedOfIsReading
    <3>4. CASE TypedOf(Entry(n), t) = NoValue
      <4>1. reply' = NoValue /\ Become([headers EXCEPT ![At(n)] = Entry(n)])
        BY <1>3, <2>3, <3>1, <3>4, Tables DEF GetMut, n
      <4>2. [headers EXCEPT ![At(n)] = Entry(n)] = headers
        BY <1>0, <3>2 DEF Entry, SoundMap
      <4>3. LinesOf' = LinesOf
        BY <4>1, <4>2, LinesKept DEF Same
      <4> QED
        BY <1>l, <3>3, <3>4, <4>1, <4>3 DEF Map!Read, n
    <3>5. CASE TypedOf(Entry(n), t) # NoValue
      <4> DEFINE new == Written(Entry(n), t, v)
                 hs == [headers EXCEPT ![At(n)] = new]
      <4>1. reply' = TypedOf(Entry(n), t) /\ Become(hs)
        BY <1>3, <2>3, <3>1, <3>5 DEF GetMut, n
      <4>2. Sound(new) /\ new.name = Entry(n).name
        BY <3>2, WrittenSound
      <4>3. At(n) \in DOMAIN hs /\ hs[At(n)] = new
        BY <3>2
      <4>4. ~Mixed(new)
        BY <1>d, <4>1, <4>3 DEF Become
      <4>5. RawOf(new) = Format[t][v]
        BY <3>2, <4>4, WrittenSound
      <4> HIDE DEF new
      <4>6. Changed(headers, hs, n, Format[t][v])
        BY <1>0, <2>1, <2>3, <4>2, <4>5, Stored
      <4> HIDE DEF hs
      <4>7. Map!Replace(LowerCase[n], Format[t][v])
        BY <2>1, <4>1, <4>6, NameReplaced
      <4>8. LinesOf[LowerCase[n]] # NoLines
        BY <1>f, <2>1, <2>3, RawOfType
      <4> QED
        BY <1>l, <3>3, <3>5, <4>1, <4>7, <4>8 DEF Map!Update, n
    <3> QED
      BY <3>4, <3>5
  <2> QED
    BY <2>2, <2>3 DEF n
<1>r. ASSUME NEW n \in Spellings, Has(n), Become(Without(headers, At(n)))
      PROVE  Map!Replace(LowerCase[n], NoLines)
  <2> DEFINE i == At(n)
  <2>1. i \in DOMAIN headers /\ LowerCase[headers[i].name] = LowerCase[n]
    BY <1>0, <1>r, EntryFound
  <2> HIDE DEF i
  <2>2. Changed(headers, Without(headers, i), n, NoLines)
    BY <1>0, <2>1, WithoutSound DEF Changed
  <2> QED
    BY <1>r, <2>2, NameReplaced DEF i
<1>4. ASSUME NEW t \in Types, Remove(t) PROVE Map!Read(t) \/ Map!Take(t)
  <2> DEFINE n == HeaderName[t]
  <2>1. n \in Spellings
    BY <1>t
  <2>2. CASE ~Has(n)
    BY <1>4, <1>n, <2>2 DEF Remove
  <2> HIDE DEF n
  <2>3. CASE Has(n)
    <3>1. /\ Become(Without(headers, At(n)))
          /\ reply' = NoValue \/ (TypedOf(Entry(n), t) # Panics /\ reply' = TypedOf(Entry(n), t))
      BY <1>4, <2>3 DEF Remove, n
    <3>2. reply' \in Map!Readings(t, LinesOf[LowerCase[n]]) \union {NoValue}
      BY <1>f, <2>1, <2>3, <3>1, TypedOfIsReading
    <3>3. Map!Replace(LowerCase[n], NoLines)
      BY <1>r, <2>1, <2>3, <3>1
    <3> QED
      BY <1>l, <3>2, <3>3 DEF Map!Take, n
  <2> QED
    BY <2>2, <2>3 DEF n
<1>5. ASSUME NEW n \in Spellings, GetRaw(n) PROVE Map!ReadLines
  <2>1. /\ Has(n) /\ RawOf(Entry(n)) # Panics /\ reply' = NoValue
        /\ Become([headers EXCEPT ![At(n)] = Printed(Entry(n))])
    BY <1>5, <1>x, <1>y DEF GetRaw, Printed, Entry
  <2>2. /\ Sound(Printed(Entry(n))) /\ Printed(Entry(n)).name = Entry(n).name
        /\ RawOf(Printed(Entry(n))) = RawOf(Entry(n))
    BY <1>f, <2>1, PrintedSound
  <2>3. Changed(headers, [headers EXCEPT ![At(n)] = Printed(Entry(n))], n, RawOf(Entry(n)))
    BY <1>0, <2>1, <2>2, Stored
  <2>4. Same(headers, [headers EXCEPT ![At(n)] = Printed(Entry(n))])
    BY <1>f, <2>1, <2>3, LinesOfIs DEF Changed, Same
  <2>5. LinesOf' = LinesOf
    BY <2>1, <2>4, LinesKept
  <2> QED
    BY <2>1, <2>5 DEF Map!ReadLines
<1>i. ASSUME NEW n \in Spellings, NEW l \in Given, NEW item, Sound(item), RawOf(item) = l,
             LowerCase[item.name] = LowerCase[n], Become(Insert(headers, item)), reply' = NoValue
      PROVE  Map!PutLines(LowerCase[n])
  <2>1. Changed(headers, Insert(headers, item), n, l)
    BY <1>0, <1>i, InsertSound DEF Changed
  <2>2. Map!Replace(LowerCase[n], l)
    BY <1>i, <2>1, NameReplaced
  <2> QED
    BY <1>i, <2>2 DEF Map!PutLines
<1>6. ASSUME NEW n \in Spellings, NEW l \in Given, SetRaw(n, l) PROVE Map!PutLines(LowerCase[n])
  <2>1. Sound(NewRaw(n, l)) /\ RawOf(NewRaw(n, l)) = l /\ NewRaw(n, l).name = n
    BY <1>g, NewRawSound DEF NewRaw
  <2> QED
    BY <1>6, <1>i, <2>1 DEF SetRaw, Add
<1>7. ASSUME NEW n \in Spellings, NEW spelling \in Spellings, LowerCase[spelling] = LowerCase[n],
             NEW l \in Given, Push(n, spelling, l)
      PROVE  Map!PutLines(LowerCase[n]) \/ Map!AddLines(LowerCase[n])
  <2>1. CASE ~Has(n)
    <3>1. /\ Sound(NewRaw(spelling, l)) /\ RawOf(NewRaw(spelling, l)) = l
          /\ LowerCase[NewRaw(spelling, l).name] = LowerCase[n]
      BY <1>7, <1>g, NewRawSound DEF NewRaw
    <3> QED
      BY <1>7, <1>i, <2>1, <3>1 DEF Push, Add
  <2>2. CASE Has(n)
    <3>1. /\ RawOf(Entry(n)) # Panics
          /\ Len(RawOf(Entry(n))) + Len(l) <= MaxLines
          /\ Become([headers EXCEPT ![At(n)] = RawMut(Entry(n), l)])
          /\ reply' = NoValue
      BY <1>7, <1>x, <1>y, <2>2 DEF Push
    <3>2. /\ Sound(RawMut(Entry(n), l)) /\ RawMut(Entry(n), l).name = Entry(n).name
          /\ RawOf(RawMut(Entry(n), l)) = RawOf(Entry(n)) \o l
      BY <1>f, <1>g, <2>2, <3>1, RawMutSound
    <3>3. Changed(headers, [headers EXCEPT ![At(n)] = RawMut(Entry(n), l)], n, RawOf(Entry(n)) \o l)
      BY <1>0, <2>2, <3>2, Stored
    <3>4. Map!Replace(LowerCase[n], RawOf(Entry(n)) \o l)
      BY <3>1, <3>3, NameReplaced
    <3>5. LinesOf[LowerCase[n]] = RawOf(Entry(n)) /\ RawOf(Entry(n)) # NoLines
      BY <1>f, <2>2, RawOfType
    <3> QED
      BY <3>1, <3>4, <3>5 DEF Map!AddLines
  <2> QED
    BY <2>1, <2>2
<1>8. ASSUME NEW n \in Spellings, ValueString(n) PROVE Map!ReadLines
  <2>1. Become(headers) /\ reply' = NoValue
    BY <1>8, <1>x, <1>y DEF ValueString
  <2> QED
    BY <2>1, LinesKept DEF Map!ReadLines, Same
<1>9. ASSUME NEW n \in Spellings, RemoveRaw(n) PROVE Map!Delete(LowerCase[n])
  BY <1>9, <1>r DEF RemoveRaw, Map!Delete
<1>10. ASSUME Clear PROVE Map!Clear
  <2>1. Become(<<>>) /\ reply' = NoValue
    BY <1>10 DEF Clear
  <2>2. LinesOf' = LinesIn(<<>>)
    BY <2>1, LinesAfter
  <2>3. LinesIn(<<>>) = [m \in LowerNames |-> NoLines]
    BY EmptySound DEF LinesIn
  <2> QED
    BY <2>1, <2>2, <2>3 DEF Map!Clear
<1>11. ASSUME NEW item \in Views, ExtendView(item)
       PROVE  (\E t \in Types : Map!Put(t)) \/ (\E n \in LowerNames : Map!PutLines(n))
  <2>1. Become(Insert(headers, item)) /\ reply' = NoValue
    BY <1>11 DEF ExtendView, Add
  <2>2. Sound(item) /\ item.name \in Spellings
    BY ViewsSound
  <2>3. Changed(headers, Insert(headers, item), item.name, RawOf(item))
    BY <1>0, <2>2, InsertSound
  <2>4. Map!Replace(LowerCase[item.name], RawOf(item))
    BY <2>1, <2>2, <2>3, NameReplaced
  <2>5. CASE RawOf(item) \in Given
    BY <1>l, <2>1, <2>2, <2>4, <2>5 DEF Map!PutLines
  <2>6. CASE \E t \in Types : item.name = HeaderName[t] /\ \E v \in Values[t] : RawOf(item) = Format[t][v]
    BY <1>l, <2>1, <2>4, <2>6 DEF Map!Put
  <2> QED
    BY <2>5, <2>6, ViewsSound
<1>12. ASSUME Compare PROVE Map!ReadLines
  <2>1. PICK k \in DOMAIN headers : headers' = ComparedTo(headers, k) /\ reply' = NoValue
    BY <1>12 DEF Compare, ComparedTo
  <2>2. Same(headers, ComparedTo(headers, k))
    BY <1>0, ComparedSound
  <2>3. LinesOf' = LinesIn(headers')
    BY DEF LinesOf, LinesIn, Has, Entry, At, LowerNames
  <2>4. LinesIn(headers') = LinesIn(headers)
    BY <2>1, <2>2 DEF Same, LinesIn
  <2> QED
    BY <2>1, <2>3, <2>4, LinesOfIs DEF Map!ReadLines
<1>13. ASSUME Convert PROVE Map!Convert
  <2>1. /\ \A i \in DOMAIN headers : RawOf(headers[i]) # Panics
        /\ \E order \in Orders(Kept) : Become(Converted(order)) /\ reply' = NoValue
    BY <1>13, <1>x, <1>y DEF Convert, IsSendable
  <2>2. PICK order \in Orders(Kept) : Become(ConvertedFrom(headers, order)) /\ reply' = NoValue
    BY <2>1 DEF Converted, ConvertedFrom
  <2>3. LinesOf' = LinesIn(ConvertedFrom(headers, order))
    BY <2>2, LinesAfter
  <2>4. \A m \in LowerNames : LinesIn(ConvertedFrom(headers, order))[m] =
            IF LinesIn(headers)[m] = <<>> THEN NoLines ELSE LinesIn(headers)[m]
    BY <1>0, <2>1, ConvertedSound DEF Kept
  <2>5. LinesIn(ConvertedFrom(headers, order)) =
            [m \in LowerNames |-> IF LinesIn(headers)[m] = <<>> THEN NoLines ELSE LinesIn(headers)[m]]
    BY <2>4 DEF LinesIn
  <2> QED
    BY <2>2, <2>3, <2>5, LinesOfIs DEF Map!Convert
<1>14. ASSUME NEW n \in Spellings, NEW l \in Given, Len(l) = 1, ExtendBytes(n, l[1])
       PROVE  Map!PutLines(LowerCase[n]) \/ Map!AddLines(LowerCase[n])
  <2>1. l = <<l[1]>>
    BY <1>14, <1>g, LineListsAreSeqs
  <2>2. Literal[n] \in Spellings /\ LowerCase[Literal[n]] = LowerCase[n]
    BY HeaderAssumption
  <2> QED
    BY <1>7, <1>14, <2>1, <2>2 DEF ExtendBytes
<1> QED
  BY <1>1, <1>2, <1>3, <1>4, <1>5, <1>6, <1>7, <1>8, <1>9, <1>10, <1>11, <1>12, <1>13, <1>14, <1>l
     DEF Next, AppendRaw, Map!Next

\* Caching a value, printing it and reading it late are not seen from outside: as long as no
\* entry is used as two types and nothing panics, the map does what AbstractHeaders promises.
THEOREM MapImplementsPromise == Spec => StepsAreMapSteps
<1>1. Init => Map!Init
  BY AbstractInit
<1>2. StoreInv /\ [Next]_vars => [Clean /\ Clean' /\ panic' = NoPanic => [Map!Next]_(Map!absVars)]_vars
  BY AbstractStep
<1> QED
  BY <1>1, <1>2, StoreInvariant, PTL DEF Spec, StepsAreMapSteps
=============================================================================
