-------------------------- MODULE HeaderStoreProps --------------------------
(***************************************************************************)
(* What the owner of a map of headers may rely on.                         *)
(***************************************************************************)
EXTENDS HeaderStore

AllValues == (UNION {Values[t] : t \in Types}) \union {NoValue}

\* The entries of the map are well typed.
Item == [name : Spellings, raw : LineLists \union {NoLines},
         typed : [Types -> AllValues], used : SUBSET Types]
PanicCalls == {"typed", "raw", "text", "convert"}
TypeOK ==
    /\ DOMAIN headers = 1..Len(headers)
    /\ \A i \in DOMAIN headers :
          /\ headers[i] \in Item
          /\ \A t \in Cached(headers[i]) :
                headers[i].typed[t] \in Values[t] /\ LowerCase[HeaderName[t]] = LowerCase[headers[i].name]
    /\ reply \in AllValues
    /\ panic = NoPanic \/ panic \in [call : PanicCalls, at : DOMAIN headers]

\* However a name is spelled, and whichever way an entry was added, there is one entry of it:
\* the others would be out of reach of get, remove and append (VecMap::insert, Extend, compat.rs).
NamesUnique ==
    \A i, j \in DOMAIN headers : LowerCase[headers[i].name] = LowerCase[headers[j].name] => i = j

\* Lines that are kept and a value that is kept are of the same header: the value is what the
\* lines are read as, or the lines are what the value is printed as (Item::raw, typed,
\* typed_mut and raw_mut each drop what they make stale).
CopiesAgree ==
    \A i \in DOMAIN headers : \A t \in Cached(headers[i]) :
        LET item == headers[i]
        IN  item.raw # NoLines => item.typed[t] = Parse[t][item.raw] \/ Format[t][item.typed[t]] = item.raw

Mixed(item) == Cardinality(item.used) > 1
CannotPrint(item) == item.raw = NoLines /\ \E t \in Cached(item) : Format[t][item.typed[t]] = Panics
CannotSend(item) ==
    \/ item.name \in NoHttpNames
    \/ RawOf(item) # Panics /\ \E k \in DOMAIN RawOf(item) : RawOf(item)[k] \in Unsendable

\* What an owner has done who sees a call panic over an entry.
Deserved(call, item) ==
    \/ item.raw = NoLines /\ Mixed(item)
    \/ call # "typed" /\ CannotPrint(item)
    \/ call = "text" /\ HasLineIn(item, NotText)
    \/ call = "convert" /\ CannotSend(item)

\* The assertions of item.rs and cell.rs ("item.raw must exist", "not PtrMap::One value", "fmt
\* failed") and of compat.rs fail for what was done to the very entry they fail on: it has no
\* lines and was used as two types since its value was put there, or its value cannot be
\* printed; as text, its lines are not UTF-8; for http, its name or a line of it is refused.
\* An entry that has lines can be asked for as any type, and for its lines.
PanicNeedsCause == panic # NoPanic => Deserved(panic.call, headers[panic.at])

-----------------------------------------------------------------------------
LowerNames == {LowerCase[s] : s \in Spellings}
LowerNameOf == [t \in Types |-> LowerCase[HeaderName[t]]]

\* The lines the entry of a name has, or would be printed as.
LinesOf == [n \in LowerNames |-> IF Has(n) THEN RawOf(Entry(n)) ELSE NoLines]

Map == INSTANCE AbstractHeaders
           WITH Names <- LowerNames, NameOf <- LowerNameOf,
                Absent <- NoLines, Unprintable <- Panics, lines <- LinesOf

Clean == \A i \in DOMAIN headers : ~Mixed(headers[i])

\* As long as no entry is used as two types and nothing panics, the map keeps the promise of
\* AbstractHeaders: caching, printing and reading late are not seen from outside.
StepsAreMapSteps ==
    Map!Init /\ [][Clean /\ Clean' /\ panic' = NoPanic => [Map!Next]_(Map!absVars)]_vars
=============================================================================
