------------------------- MODULE HeaderExchangeProps -------------------------
(***************************************************************************)
(* What readers of a header may rely on.                                   *)
(***************************************************************************)
EXTENDS HeaderExchange, HeaderVectors

Read == got # <<>> /\ got[1].ok

\* The state is well typed: a header on the wire is at least one line, no line has a line break in
\* it, and lines are text wherever a program in between looks into them, to combine two of them or
\* to find a file's name (what every header's fmt_header prints).
TypeOK ==
    /\ header \in HeaderNames
    /\ hops \in 0..MaxHops
    /\ got # <<>> <=> hops > 0
    /\ IsText(wire) /\ wire # <<>> /\ NoLineBreak(wire)
    /\ \/ header = "Content-Disposition"
       \/ header \in Combined /\ (Len(wire) > 1 \/ (hops = 0 /\ asked = <<>>))
       => \A i \in DOMAIN wire : IsText(wire[i])

-----------------------------------------------------------------------------
(* Not every value a program can build is printed so that it can be read   *)
(* back. Faithful says which are; the README gives the reasons one by one. *)

Bare(t) == t # <<>> /\ t = Trim(t) /\ NewLine \notin ToSet(t)

\* A variant for any other text does not hold the text of another variant.
FaithfulItem(kind, v) ==
    CASE kind \in {"text", "name"} -> Bare(v)
      [] kind \in {"encoding", "charset", "range unit", "option", "method"} ->
            Bare(v.text) /\ v = ParseItem(kind, v.text).val
      [] kind = "protocol" -> /\ Bare(PrintProtocol(v)) /\ v.name = ProtocolName(v.name.text)
                              /\ "/" \notin ToSet(v.name.text)
      [] OTHER -> TRUE
\* A list is cut at every comma, and an item of weight 1, which is not printed, at its last
\* semicolon if a weight seems to follow; items with a weight must be ASCII.
FaithfulListed(h, v) ==
    LET item == IF h.weighted THEN v.item ELSE v
        text == PrintItem(h.item, item)
    IN  /\ FaithfulItem(h.item, item)
        /\ "," \notin ToSet(text)
        /\ h.weighted => IF v.quality = 1000 THEN QualityParts(text) = Ok([item |-> text, weight |-> 1000])
                         ELSE IsAscii(text)
FaithfulMacro(h, v) ==
    CASE h.grammar = "single" -> FaithfulItem(h.item, v)
      [] h.grammar = "list" -> \A i \in DOMAIN v : FaithfulListed(h, v[i])
      [] h.grammar = "any" -> /\ \A i \in DOMAIN v.items : FaithfulListed(h, v.items[i])
                              /\ h.item = "name" => v.items # <<<<"*">>>>

FaithfulLink(l) ==
    \A name \in {"anchor", "title", "title*"} \cap DOMAIN l.attrs : Quote \notin ToSet(l.attrs[name])
FaithfulText(t) == ";" \notin ToSet(t) /\ t = TrimQuotes(t) /\ IsUtf8(t)
FaithfulParam(p) ==
    IF IsFilename(p) THEN SimpleFormat(p) => FaithfulText(p.bytes) ELSE FaithfulText(p.value)

\* A range from a later to an earlier position is left out when it is read, or is an error.
FaithfulRange(r) ==
    IF r.unit = <<"bytes">>
    THEN r.specs # <<>> /\ \A i \in DOMAIN r.specs : r.specs[i].kind = "from to" => r.specs[i].from <= r.specs[i].to
    ELSE r.unit # <<>> /\ r.range # <<>> /\ "=" \notin ToSet(r.unit) /\ Bare(r.unit \o <<"=">> \o r.range)
FaithfulContentRange(c) ==
    IF c.unit = <<"bytes">> THEN c.range # <<>> => c.range[1] <= c.range[2]
    ELSE " " \notin ToSet(c.unit) /\ Bare(c.unit \o <<" ">> \o c.resp)

Faithful(name, v) ==
    CASE name \in DOMAIN MacroHeaders -> FaithfulMacro(MacroHeaders[name], v)
      [] name \in {"Authorization<Basic>", "ProxyAuthorization<Basic>"} ->
            v.password # <<>> /\ ":" \notin ToSet(v.password[1])
      [] name = "Host" -> v.port \notin {<<80>>, <<443>>}
      [] name = "Origin" -> v # NullOrigin /\ v.host.port \notin {<<80>>, <<443>>}
      [] name = "Link" -> v # <<>> /\ \A i \in DOMAIN v : FaithfulLink(v[i])
      [] name = "Cookie" -> v # <<>> /\ \A i, j \in DOMAIN v : v[i][1] = v[j][1] => i = j
      [] name \in {"Cache-Control", "Prefer", "Preference-Applied"} -> v # <<>>
      [] name = "Set-Cookie" -> v # <<>> /\ \A i \in DOMAIN v : Bare(v[i])
      [] name = "Content-Disposition" -> \A i \in DOMAIN v.parameters : FaithfulParam(v.parameters[i])
      [] name = "Warning" -> Quote \notin ToSet(v.text)
      [] name \in {"Access-Control-Allow-Origin", "Authorization<String>", "ProxyAuthorization<String>"} ->
            NewLine \notin ToSet(v)
      [] name \in {"Authorization<Bearer>", "ProxyAuthorization<Bearer>"} -> v # <<>> /\ NewLine \notin ToSet(v)
      [] name = "Last-Event-ID" -> v = <<>> \/ Bare(v)
      [] name = "Pragma" -> Bare(v) /\ (Lower(v) = <<"no-cache">> => v = Lower(v))
      [] name = "Range" -> FaithfulRange(v)
      [] name = "Content-Range" -> FaithfulContentRange(v)
      [] OTHER -> TRUE

\* Preference-Applied is written without the parameters of its preferences.
Gist(name, v) ==
    IF name = "Preference-Applied" THEN [i \in DOMAIN v |-> WithoutParams(v[i])] ELSE v
\* A weight may be read one thousandth lower than it was meant, but not as zero.
Same(name, v, w) ==
    IF name \in DOMAIN MacroHeaders /\ MacroHeaders[name].weighted
    THEN /\ Len(v) = Len(w)
         /\ \A i \in DOMAIN v : /\ v[i].item = w[i].item
                                /\ w[i].quality - v[i].quality \in {0, 1}
                                /\ v[i].quality = 0 <=> w[i].quality = 0
    ELSE Gist(name, v) = Gist(name, w)

\* However often a header is read and printed again on its way, and whether its lines are
\* combined or not, its reader gets what its sender meant (parse_header and fmt_header of
\* every header in header/common).
MeaningKept ==
    got # <<>> /\ meant.ok /\ Faithful(header, meant.val)
        => got[1].ok /\ Same(header, got[1].val, meant.val)

\* What one reader passes on, the next one reads the same, to the last thousandth of a weight
\* (quality_item.rs from_f32 cuts where it prints three digits).
NoDrift ==
    [][Read /\ got' # <<>> /\ asked' = asked /\ Faithful(header, got[1].val)
          => got'[1].ok /\ Gist(header, got'[1].val) = Gist(header, got[1].val)]_vars

\* The lines of the repository's tests are read as its tests expect.
ReadAsTested ==
    \A vector \in Vectors :
        header = vector.header /\ wire = vector.lines => ParseHeader(header, wire) = vector.expected

-----------------------------------------------------------------------------
(* Answers.                                                                *)

Wanted(spec, position, full) ==
    CASE spec.kind = "from to" -> spec.from <= position /\ position <= spec.to
      [] spec.kind = "all from" -> spec.from <= position
      [] spec.kind = "last" -> full - position <= spec.count

\* The bytes a Content-Range names are the bytes the client's Range asked for, as far as the
\* representation has them, however often both were relayed (range.rs to_satisfiable_range, and
\* the printing and reading of both headers); unless the request has a range that is not read.
ServedIsAskedFor ==
    header = "Content-Range" /\ asked # <<>> /\ got # <<>> /\ Faithful("Range", asked.range) =>
        LET range == got[1].val.range
            spec == asked.range.specs[asked.place]
        IN  /\ got[1].ok
            /\ got[1].val.length = <<asked.full>>
            /\ (IF range = <<>> THEN {} ELSE range[1]..range[2])
               = {p \in 0..(asked.full - 1) : Wanted(spec, p, asked.full)}

\* A client that presents the entity tag it was given is recognised by a server whose tag is
\* still the same, also when one of them is weak; If-Match only if none is (entity.rs strong_eq
\* and weak_eq, across the printing and reading of both headers).
RevalidationMatches ==
    header \in {"If-None-Match", "If-Match"} /\ asked # <<>> /\ got # <<>>
        /\ "," \notin ToSet(asked.tag.tag) =>
            /\ got[1].ok
            /\ \A weakened \in BOOLEAN :
                  LET current == [asked.tag EXCEPT !.weak = @ \/ weakened]
                      Matches(e) == IF header = "If-Match" THEN StrongEq(e, current) ELSE WeakEq(e, current)
                  IN  (\E i \in DOMAIN got[1].val.items : Matches(got[1].val.items[i]))
                          <=> (header = "If-Match" => ~current.weak)

-----------------------------------------------------------------------------
(* File names.                                                             *)

\* Where a path leads from the destination directory: the names below it, or Outside, which no
\* names are, for a name is never empty.
Outside == <<<<>>>>
Descend(at, piece) ==
    IF at = Outside \/ (piece = <<"..">> /\ at = <<>>) THEN Outside
    ELSE IF piece = <<"..">> THEN Front(at)
    ELSE IF piece \in {<<>>, <<".">>} THEN at
    ELSE Append(at, piece)
Resolved(t) == IF Rooted(t) THEN Outside ELSE FoldLeft(Descend, <<>>, Split(t, "/"))

\* Whatever a response calls its file, a name that is accepted is a file's in the destination
\* directory itself, and not the name of a directory the process's current directory has (util.rs
\* validate_file_name, whose is_dir looks there and not in the destination).
SavedInDirectory ==
    header = "Content-Disposition" =>
        LET name == ResponseFileName(wire)
        IN  name.ok => /\ Len(Resolved(name.val)) = 1 /\ Resolved(name.val) # Outside
                       /\ Resolved(name.val)[1] \notin CwdDirs
=============================================================================
