--------------------------- MODULE HeaderExchange ---------------------------
(***************************************************************************)
(* A header on its way from the program that writes it to the one that     *)
(* reads it: printed by hyperx or written by other software, read and      *)
(* printed again by programs in between, and answered.                     *)
(***************************************************************************)
EXTENDS HeaderTypes, FileNames

CONSTANTS Sent,         \* headers a program sends: [header, value]
          Arrivals,     \* headers other software sends: [header, lines]
          Appended,     \* values a program adds to a header it has, on a line of their own
          CookiePairs,  \* names and values a program puts in a Cookie header
          FullLengths,  \* lengths of the representations a Range is asked of
          MaxHops,      \* how often a header is read
          MaxCookies,   \* the largest Cookie header built
          MaxItems      \* the longest list a value is added to

IsText(t) == t \in Seq(ToSet(t))
NoLineBreak(lines) == \A i \in DOMAIN lines : NewLine \notin ToSet(lines[i])

\* EntityTag::new refuses other tags, and a String is UTF-8.
IsEntityTag(e) ==
    /\ e = [weak |-> e.weak, tag |-> e.tag]
    /\ e.weak \in BOOLEAN
    /\ IsText(e.tag) /\ IsUtf8(e.tag) /\ CheckSliceValidity(e.tag)

\* The Rust types of items, as far as their values are looked into: a String is UTF-8.
IsString(t) == IsText(t) /\ IsUtf8(t)
IsItem(kind, v) ==
    CASE kind = "entity tag" -> IsEntityTag(v)
      [] kind \in {"encoding", "charset", "range unit", "option", "method"} ->
            v = [known |-> v.known, text |-> v.text] /\ IsString(v.text)
      [] kind \in {"name", "text"} -> IsString(v)
      [] kind = "protocol" ->
            /\ v = [name |-> [known |-> v.name.known, text |-> v.name.text], version |-> v.version]
            /\ IsString(v.name.text)
            /\ v.version # <<>> => v.version = <<v.version[1]>> /\ IsString(v.version[1])
      [] kind = "language" -> v \in {<<tag>> : tag \in LanguageTags}
      [] kind = "mime" -> v \in MediaTypes
      [] kind = "date" -> v \in DOMAIN ImfDate
      [] kind = "seconds" -> v \in Numbers
\* The types header! gives the headers of a grammar: an item, a Vec of items, or Any or a Vec.
IsList(h, v) == IsText(v) /\ \A i \in DOMAIN v : IsItem(h.item, IF h.weighted THEN v[i].item ELSE v[i])
IsValue(h, v) ==
    CASE h.grammar = "single" -> IsItem(h.item, v)
      [] h.grammar = "list" -> IsList(h, v)
      [] h.grammar = "any" -> /\ v = [any |-> v.any, items |-> v.items]
                              /\ v.any \in BOOLEAN /\ IsList(h, v.items)
                              /\ v.any => v.items = <<>>
\* A u64 is a number the model has a numeral for.
IsByteRangeSpec(spec) == \E m, n \in Numbers : spec \in {FromTo(m, n), AllFrom(m), LastBytes(m)}
IsRange(r) ==
    IF r.unit = <<"bytes">>
    THEN /\ r = [unit |-> r.unit, specs |-> r.specs]
         /\ IsText(r.specs) /\ \A i \in DOMAIN r.specs : IsByteRangeSpec(r.specs[i])
    ELSE r = [unit |-> r.unit, range |-> r.range] /\ IsString(r.unit) /\ IsString(r.range)
IsContentRange(c) ==
    IF c.unit = <<"bytes">>
    THEN \E m, n, full \in Numbers :
            \E range \in {<<>>, <<m, n>>}, length \in {<<>>, <<full>>} : c = BytesRange(range, length)
    ELSE c = [unit |-> c.unit, resp |-> c.resp] /\ IsString(c.unit) /\ IsString(c.resp)
\* A bare String, an enum of a String and of words it may hold, or a scheme that is a String.
OneText == {"Access-Control-Allow-Origin", "Last-Event-ID", "Pragma",
            "Authorization<String>", "ProxyAuthorization<String>",
            "Authorization<Bearer>", "ProxyAuthorization<Bearer>"}
HasType(name, v) == /\ name \in DOMAIN MacroHeaders => IsValue(MacroHeaders[name], v)
                    /\ name = "Range" => IsRange(v)
                    /\ name = "Content-Range" => IsContentRange(v)
                    /\ name \in OneText => IsString(v)
                    /\ name = "Content-Length" => v \in Numbers
                    /\ name = "Expect" => v = <<"100-continue">>
                    /\ name = "Access-Control-Allow-Credentials" => v = <<"true">>

\* A program sends values the header's type has and that print without a panic, as text; and a
\* Set-Cookie header has a cookie, for without one it would be no line, and no header.
ASSUME SentAssumption ==
    \A m \in Sent : /\ m.header \in HeaderNames /\ HasType(m.header, m.value)
                    /\ CanPrint(m.header, m.value)
                    /\ IsText(PrintedText(m.header, m.value))
                    /\ m.header = "Set-Cookie" => m.value # <<>>
\* What arrives are lines of a header, so that there is one and none has a line break in it.
ASSUME ArrivalsAssumption ==
    \A m \in Arrivals : /\ m.header \in HeaderNames
                        /\ IsText(m.lines) /\ m.lines # <<>>
                        /\ \A i \in DOMAIN m.lines : IsText(m.lines[i])
                        /\ NoLineBreak(m.lines)
ASSUME AppendedAssumption ==
    \A m \in Appended : HasType(m.header, m.value) /\ IsText(PrintedText(m.header, m.value))
\* No position of a representation is too large for the numerals of the model.
ASSUME LengthsAssumption == \A full \in FullLengths : full \in Nat /\ 0..full \subseteq Numbers
ASSUME BoundsAssumption == MaxHops \in Nat /\ MaxCookies \in Nat /\ MaxItems \in Nat

VARIABLES header,   \* the header's name, and its Rust type where it has several
          wire,     \* its lines
          meant,    \* what its sender means by it: Ok(value), or Err for lines that say nothing
          got,      \* the last reading: one result, or none
          hops,     \* how often it has been read
          asked     \* for an answer, what was asked; <<>> otherwise

vars == <<header, wire, meant, got, hops, asked>>

-----------------------------------------------------------------------------
Send(name, value, question) ==
    /\ header' = name
    /\ meant' = Ok(value)
    /\ wire' = PrintHeader(name, value)
    /\ got' = <<>>
    /\ hops' = 0
    /\ asked' = question

Init ==
    /\ \/ \E m \in Sent : header = m.header /\ meant = Ok(m.value)
                          /\ wire = PrintHeader(m.header, m.value)
       \/ \E m \in Arrivals : header = m.header /\ wire = m.lines
                              /\ meant = ParseHeader(m.header, m.lines)
    /\ got = <<>>
    /\ hops = 0
    /\ asked = <<>>

\* A program reads the header and, if it could, sends on what it read. A value that cannot be
\* printed is not sent on: the header stays as it came.
Relay ==
    /\ hops < MaxHops
    /\ \E reading \in {ParseHeader(header, wire)} :
          /\ got' = <<reading>>
          /\ wire' = IF reading.ok /\ CanPrint(header, reading.val)
                     THEN PrintHeader(header, reading.val) ELSE wire
    /\ hops' = hops + 1
    /\ UNCHANGED <<header, meant, asked>>

\* The headers whose lines may be combined into one, separated by a comma.
Combined == {h \in DOMAIN MacroHeaders : MacroHeaders[h].grammar \in {"list", "any"}}
            \union {"Cache-Control", "Prefer", "Preference-Applied", "Link", "Referrer-Policy"}
MergeLines ==
    /\ header \in Combined
    /\ Len(wire) > 1
    /\ wire' = <<wire[1] \o <<",", " ">> \o wire[2]>> \o SubSeq(wire, 3, Len(wire))
    /\ UNCHANGED <<header, meant, got, hops, asked>>

\* Another pair is put in a Cookie header before it is sent.
AddCookie ==
    /\ header = "Cookie" /\ hops = 0 /\ meant.ok
    /\ \E p \in CookiePairs :
          LET jar == CookieSet(meant.val, p[1], p[2])
          IN  Len(jar) <= MaxCookies /\ Send("Cookie", jar, p)

\* TypedHeaders::encode_append: one more value of a list header on a line of its own. It is
\* printed by Display, which leaves line breaks as they are: with one the program panics.
EncodedLists == Combined \ {"Prefer", "Preference-Applied", "Referrer-Policy"}
HasAny(name) == name \in DOMAIN MacroHeaders /\ MacroHeaders[name].grammar = "any"
IsItems(name, v) == HasAny(name) => ~v.any
ItemsOf(name, v) == IF HasAny(name) THEN v.items ELSE v
Concatenated(name, v, w) ==
    LET items == ItemsOf(name, v) \o ItemsOf(name, w)
    IN  IF HasAny(name) THEN [any |-> FALSE, items |-> items] ELSE items
EncodeAppend ==
    /\ header \in EncodedLists /\ hops = 0 /\ meant.ok /\ asked = <<>>
    /\ IsItems(header, meant.val) /\ Len(ItemsOf(header, meant.val)) <= MaxItems
    /\ wire = PrintHeader(header, meant.val)    \* the value is not taken from lines, but was encoded
    /\ \E m \in Appended :
          /\ m.header = header /\ IsItems(header, m.value)
          /\ NewLine \notin ToSet(PrintedText(header, m.value))
          /\ wire' = Append(wire, PrintedText(header, m.value))
          /\ meant' = Ok(Concatenated(header, meant.val, m.value))
    /\ UNCHANGED <<header, got, hops, asked>>

\* A server answers a request for ranges with one of them, of a representation that is as long.
ServeRange ==
    /\ header = "Range" /\ got # <<>> /\ got[1].ok /\ meant.ok
    /\ got[1].val.unit = <<"bytes">> /\ meant.val.unit = <<"bytes">>
    /\ \E i \in DOMAIN meant.val.specs \cap DOMAIN got[1].val.specs, full \in FullLengths :
          Send("Content-Range", BytesRange(ToSatisfiableRange(got[1].val.specs[i], full), <<full>>),
               [range |-> meant.val, place |-> i, full |-> full])

\* A client that was given an entity tag asks whether it is still the representation's.
Revalidate ==
    /\ header = "ETag" /\ got # <<>> /\ got[1].ok /\ meant.ok
    /\ \E condition \in {"If-None-Match", "If-Match"} :
          Send(condition, [any |-> FALSE, items |-> <<got[1].val>>], [tag |-> meant.val])

Next == Relay \/ MergeLines \/ EncodeAppend \/ AddCookie \/ ServeRange \/ Revalidate
Spec == Init /\ [][Next]_vars
=============================================================================
