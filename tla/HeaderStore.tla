---------------------------- MODULE HeaderStore ----------------------------
(***************************************************************************)
(* The map of headers of hyperx (header/mod.rs, header/internals), used by *)
(* one owner. The value of an entry is kept as raw lines, as values of     *)
(* Rust types, or as both: lines are read when a type is asked for, a      *)
(* value is printed when its lines are, and both are done once.            *)
(***************************************************************************)
EXTENDS Naturals, Sequences, FiniteSets

CONSTANTS Spellings,      \* names as callers spell them
          LowerCase,      \* the lower-case spelling of each
          Literal,        \* the spelling maybe_literal has for each
          Types,          \* Rust types of headers
          HeaderName,     \* the name of each type, as it spells it
          Values,         \* the values of a type
          Parse,          \* parse_header: a value, or NoValue
          Format,         \* fmt_header: lines, or Panics when formatting fails
          Lines,          \* the lines there are
          Given,          \* lists of lines callers pass
          Unsendable,     \* lines an http::HeaderValue cannot hold
          NotText,        \* lines that are not UTF-8
          NoHttpNames,    \* spellings that http::HeaderName does not parse
          MaxLines,       \* bound on the lines of an entry
          MaxEntries,     \* bound on the entries of the map
          NoValue, NoLines, Panics

LineLists == UNION {[1..k -> Lines] : k \in 0..MaxLines}

ASSUME HeaderAssumption ==
    /\ {LowerCase, Literal} \subseteq [Spellings -> Spellings]
    /\ \A n \in Spellings : LowerCase[LowerCase[n]] = LowerCase[n] /\ LowerCase[Literal[n]] = LowerCase[n]
    /\ HeaderName \in [Types -> Spellings]
    /\ MaxLines \in Nat /\ MaxEntries \in Nat
    /\ Given \subseteq LineLists
    /\ {NoLines, Panics} \cap LineLists = {} /\ NoLines # Panics
    /\ \A t \in Types :
          /\ {NoValue, Panics} \cap Values[t] = {} /\ NoValue # Panics
          /\ \A l \in LineLists : Parse[t][l] \in Values[t] \union {NoValue}
          /\ \A v \in Values[t] : Format[t][v] \in LineLists \union {Panics}

VARIABLES headers,   \* the entries, in order; `used` is not in the code: the types the value was
                     \* found as since it was put there
          reply,     \* the value the last access found, if it was a typed one
          panic      \* the access and the entry that made the program panic

vars == <<headers, reply, panic>>

NoPanic == [call |-> "none", at |-> 0]

-----------------------------------------------------------------------------
(* Items.                                                                  *)

Untyped == [t \in Types |-> NoValue]
Cached(item) == {t \in Types : item.typed[t] # NoValue}

NewRaw(n, lines) == [name |-> n, raw |-> lines, typed |-> Untyped, used |-> {}]
NewTyped(n, t, v) == [name |-> n, raw |-> NoLines, typed |-> [Untyped EXCEPT ![t] = v], used |-> {t}]

\* Item::raw: the lines as they are, or those of the one value there is.
RawOf(item) ==
    IF item.raw # NoLines THEN item.raw
    ELSE IF Cardinality(Cached(item)) # 1 THEN Panics
    ELSE LET t == CHOOSE t \in Types : item.typed[t] # NoValue IN Format[t][item.typed[t]]

\* Mutant: a value of another type is taken for one of this type.
TypedOf_OfAnyType(item, t) ==
    IF Cached(item) # {} THEN item.typed[CHOOSE u \in Cached(item) : TRUE]
    ELSE IF item.raw = NoLines THEN Panics
    ELSE Parse[t][item.raw]
\* Item::typed: the value of the type, or what the lines are read as.
TypedOf(item, t) ==
    IF item.typed[t] # NoValue THEN item.typed[t]
    ELSE IF item.raw = NoLines THEN Panics
    ELSE Parse[t][item.raw]

HasLineIn(item, S) == item.raw # NoLines /\ \E k \in DOMAIN item.raw : item.raw[k] \in S

UsedAs(item, t) == [item EXCEPT !.used = @ \union {t}]
Remembered(item, t) ==
    IF TypedOf(item, t) = NoValue THEN item
    ELSE [UsedAs(item, t) EXCEPT !.typed[t] = TypedOf(item, t)]
\* Mutant: the lines stay.
Written_KeepsLines(item, t, v) == [UsedAs(item, t) EXCEPT !.typed[t] = v]
\* Item::typed_mut, and the value that is then written: the lines go, values of other types stay.
Written(item, t, v) == [UsedAs(item, t) EXCEPT !.typed[t] = v, !.raw = NoLines]

\* Mutant: a value is dropped before it is printed.
RawMut_Unprinted(item, lines) ==
    [item EXCEPT !.raw = IF @ = NoLines THEN NoLines ELSE @ \o lines, !.typed = Untyped, !.used = {}]
\* Mutant: the values stay.
RawMut_KeepsValues(item, lines) == [item EXCEPT !.raw = RawOf(item) \o lines]
\* Item::raw_mut and Raw::push of each line: the values go.
RawMut(item, lines) == [item EXCEPT !.raw = RawOf(item) \o lines, !.typed = Untyped, !.used = {}]

-----------------------------------------------------------------------------
(* The map.                                                                *)

\* Mutant: a name is looked up as it is spelled.
Places_AsSpelled(hs, n) == {i \in DOMAIN hs : hs[i].name = n}
\* Names are compared without regard to case.
Places(hs, n) == {i \in DOMAIN hs : LowerCase[hs[i].name] = LowerCase[n]}
First(S) == CHOOSE i \in S : \A j \in S : i <= j
\* VecMap::insert: the first entry of the name is replaced, its spelling too, or one is added.
Insert(hs, item) ==
    IF Places(hs, item.name) = {} THEN Append(hs, item)
    ELSE [hs EXCEPT ![First(Places(hs, item.name))] = item]
Without(hs, i) == [j \in 1..(Len(hs) - 1) |-> hs[IF j < i THEN j ELSE j + 1]]

Has(n) == Places(headers, n) # {}
At(n) == First(Places(headers, n))
Entry(n) == headers[At(n)]

\* The program goes on with other entries, or panics over one of them.
Become(hs) == headers' = hs /\ UNCHANGED panic
Add(item) == Len(Insert(headers, item)) <= MaxEntries /\ Become(Insert(headers, item))
Panic(n, item, call) ==
    /\ headers' = [headers EXCEPT ![At(n)] = item]
    /\ panic' = [call |-> call, at |-> At(n)]
    /\ reply' = NoValue

Init == headers = <<>> /\ reply = NoValue /\ panic = NoPanic

-----------------------------------------------------------------------------
(* Typed access.                                                           *)

Set(t, v) == Add(NewTyped(HeaderName[t], t, v)) /\ reply' = NoValue

Get(t) ==
    LET n == HeaderName[t]
    IN  \/ ~Has(n) /\ reply' = NoValue /\ Become(headers)
        \/ /\ Has(n)
           /\ IF TypedOf(Entry(n), t) = Panics THEN Panic(n, UsedAs(Entry(n), t), "typed")
              ELSE /\ reply' = TypedOf(Entry(n), t)
                   /\ Become([headers EXCEPT ![At(n)] = Remembered(Entry(n), t)])

GetMut(t, v) ==
    LET n == HeaderName[t]
    IN  \/ ~Has(n) /\ reply' = NoValue /\ Become(headers)
        \/ /\ Has(n)
           /\ LET found == TypedOf(Entry(n), t)
              IN  IF found = Panics THEN Panic(n, UsedAs(Entry(n), t), "typed")
                  ELSE /\ reply' = found
                       /\ Become([headers EXCEPT ![At(n)] =
                                     IF found = NoValue THEN Entry(n)
                                     ELSE Written(Entry(n), t, v)])

\* The value is answered if there is one; without lines a value of another type is none.
Remove(t) ==
    LET n == HeaderName[t]
    IN  \/ ~Has(n) /\ reply' = NoValue /\ Become(headers)
        \/ /\ Has(n)
           /\ reply' = LET found == TypedOf(Entry(n), t) IN IF found = Panics THEN NoValue ELSE found
           /\ Become(Without(headers, At(n)))

-----------------------------------------------------------------------------
(* Raw access.                                                             *)

GetRaw(n) ==
    /\ Has(n)
    /\ IF RawOf(Entry(n)) = Panics THEN Panic(n, Entry(n), "raw")
       ELSE Become([headers EXCEPT ![At(n)].raw = RawOf(Entry(n))]) /\ reply' = NoValue

SetRaw(n, lines) == Add(NewRaw(n, lines)) /\ reply' = NoValue

\* A new entry is spelled as `spelling` says.
Push(n, spelling, lines) ==
    \/ ~Has(n) /\ Add(NewRaw(spelling, lines)) /\ reply' = NoValue
    \/ /\ Has(n)
       /\ IF RawOf(Entry(n)) = Panics THEN Panic(n, Entry(n), "raw")
          ELSE /\ Len(RawOf(Entry(n))) + Len(lines) <= MaxLines
               /\ Become([headers EXCEPT ![At(n)] = RawMut(Entry(n), lines)])
               /\ reply' = NoValue
\* append_raw and append_raw_str.
AppendRaw(n, lines) == Push(n, n, lines)
\* extend with a name and the bytes of one line.
ExtendBytes(n, line) == Push(n, Literal[n], <<line>>)

\* HeaderView::value_string: prints the lines as text, and keeps nothing of it.
ValueString(n) ==
    /\ Has(n)
    /\ IF RawOf(Entry(n)) = Panics \/ HasLineIn(Entry(n), NotText) THEN Panic(n, Entry(n), "text")
       ELSE Become(headers) /\ reply' = NoValue

RemoveRaw(n) == Has(n) /\ Become(Without(headers, At(n))) /\ reply' = NoValue
Clear == Become(<<>>) /\ reply' = NoValue

\* extend with the entries of another map, one of which is a clone of the item.
ExtendView(item) == Add(item) /\ reply' = NoValue
\* Entries another map may hold: lines, a value, or lines and what they are read as.
Views ==
    {NewRaw(n, l) : n \in Spellings, l \in Given}
    \union (UNION {{NewTyped(HeaderName[t], t, v) : v \in Values[t]} : t \in Types})
    \union (UNION {{Remembered(NewRaw(HeaderName[t], l), t) : l \in Given} : t \in Types})

\* Headers::eq with a map that agrees in the entries before the k-th: their lines, and its own,
\* are asked for.
Compare ==
    \E k \in DOMAIN headers :
        LET lines == [i \in 1..k |-> RawOf(headers[i])]
        IN  /\ Panics \notin {lines[i] : i \in 1..(k - 1)}
            /\ headers' = [i \in DOMAIN headers |->
                              IF i > k \/ lines[i] = Panics THEN headers[i]
                              ELSE [headers[i] EXCEPT !.raw = lines[i]]]
            /\ panic' = IF lines[k] = Panics THEN [call |-> "raw", at |-> k] ELSE NoPanic
            /\ reply' = NoValue

-----------------------------------------------------------------------------
(* compat.rs: to an http::HeaderMap and back.                              *)

\* The entries that have lines, in any order, under their names in lower case.
Kept == {i \in DOMAIN headers : RawOf(headers[i]) # <<>>}
IsSendable(i) ==
    /\ headers[i].name \notin NoHttpNames
    /\ RawOf(headers[i]) # Panics
    /\ \A k \in DOMAIN RawOf(headers[i]) : RawOf(headers[i])[k] \notin Unsendable
Orders(S) == {f \in [1..Cardinality(S) -> S] : \A j, k \in DOMAIN f : f[j] = f[k] => j = k}
Converted(order) ==
    [k \in DOMAIN order |-> NewRaw(LowerCase[headers[order[k]].name], RawOf(headers[order[k]]))]
Convert ==
    /\ headers # <<>>
    /\ IF \A i \in DOMAIN headers : IsSendable(i)
       THEN \E order \in Orders(Kept) : Become(Converted(order)) /\ reply' = NoValue
       ELSE /\ \E i \in DOMAIN headers : /\ ~IsSendable(i) /\ \A j \in 1..(i - 1) : IsSendable(j)
                                        /\ panic' = [call |-> "convert", at |-> i]
            /\ reply' = NoValue /\ UNCHANGED headers

-----------------------------------------------------------------------------
Next ==
    /\ panic = NoPanic
    /\ \/ \E t \in Types : \/ \E v \in Values[t] : Set(t, v) \/ GetMut(t, v)
                           \/ Get(t) \/ Remove(t)
       \/ \E n \in Spellings : \/ GetRaw(n) \/ RemoveRaw(n) \/ ValueString(n)
                               \/ \E l \in Given : \/ SetRaw(n, l) \/ AppendRaw(n, l)
                                                   \/ Len(l) = 1 /\ ExtendBytes(n, l[1])
       \/ \E item \in Views : ExtendView(item)
       \/ Clear
       \/ Compare
       \/ Convert

Spec == Init /\ [][Next]_vars
=============================================================================
