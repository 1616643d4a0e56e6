----------------------------- MODULE HeaderFields -----------------------------
(***************************************************************************)
(* The headers with a parser of their own (header/common), but for Range,  *)
(* Content-Range and Link. A parser takes the header's lines, a printer    *)
(* gives the text of its one line.                                         *)
(***************************************************************************)
EXTENDS HeaderItems

\* The one line as it came, blanks included: raw.one() and from_utf8.
OneLine(lines) == OkIf(Len(lines) = 1 /\ IsUtf8(lines[1]), lines[1])
\* A word in any case, alone on its line.
Word(lines, word) == OkIf(Len(lines) = 1 /\ Lower(lines[1]) = word, word)

\* A name and the value after the first "=", each trimmed.
NameValue(t) ==
    LET parts == SplitFirst(t, "=") IN [i \in DOMAIN parts |-> Trim(parts[i])]
Trimmed(texts) == [i \in DOMAIN texts |-> Trim(texts[i])]

-----------------------------------------------------------------------------
(* Headers of one word, one number or one date.                            *)

\* Mutant: the first of several lines counts.
ParseContentLength_First(lines) ==
    IF lines # <<>> /\ IsUtf8(lines[1]) THEN ParseNumber(Trim(lines[1])) ELSE Err
\* Several lines are one header as long as all say the same number.
ParseContentLength(lines) ==
    LET numbers == [i \in DOMAIN lines |->
                       IF IsUtf8(lines[i]) THEN ParseNumber(Trim(lines[i])) ELSE Err]
    IN  IF lines # <<>> /\ \A i \in DOMAIN numbers : numbers[i].ok /\ numbers[i] = numbers[1]
        THEN numbers[1] ELSE Err

ParseExpect(lines) == Word(lines, <<"100-continue">>)
ParseAllowCredentials(lines) == Word(lines, <<"true">>)

\* "*" and "null" are two of the values; any other line is the third.
ParseAllowOrigin(lines) == OneLine(lines)

ParseLastEventId(lines) == IF lines = <<<<>>>> THEN Ok(<<>>) ELSE OneRawStr(lines)

ParsePragma(lines) ==
    LET text == OneRawStr(lines)
    IN  IF text.ok /\ Lower(text.val) = <<"no-cache">> THEN Ok(Lower(text.val)) ELSE text

ParseIfRange(lines) ==
    LET text == OneRawStr(lines)
        tag == ParseEntityTag(text.val)
        date == ParseDate(text.val)
    IN  IF ~text.ok THEN Err
        ELSE IF tag.ok THEN Ok([tag |-> tag.val])
        ELSE IF date.ok THEN Ok([date |-> date.val])
        ELSE Err
PrintIfRange(v) == IF "tag" \in DOMAIN v THEN PrintEntityTag(v.tag) ELSE PrintDate(v.date)

\* The line is not trimmed here.
ParseRetryAfter(lines) ==
    LET text == OneLine(lines)
        date == ParseDate(text.val)
        delay == ParseNumber(text.val)
    IN  IF ~text.ok THEN Err
        ELSE IF date.ok THEN Ok([date |-> date.val])
        ELSE IF delay.ok THEN Ok([delay |-> delay.val])
        ELSE Err
PrintRetryAfter(v) == IF "date" \in DOMAIN v THEN PrintDate(v.date) ELSE Numeral(v.delay)

\* The last policy of the list that is known.
PolicyOf ==
    [p \in {"no-referrer", "no-referrer-when-downgrade", "same-origin", "origin",
            "origin-when-cross-origin", "strict-origin", "strict-origin-when-cross-origin",
            "unsafe-url"} |-> p]
    @@ "never" :> "no-referrer" @@ "default" :> "no-referrer-when-downgrade" @@ "always" :> "unsafe-url"
ParseReferrerPolicy(lines) ==
    LET pieces == CommaDelimited(lines)
        known == {i \in DOMAIN pieces.val : Len(pieces.val[i]) = 1
                                            /\ Lower(pieces.val[i])[1] \in DOMAIN PolicyOf}
    IN  IF ~pieces.ok \/ known = {} THEN Err
        ELSE Ok(<<PolicyOf[Lower(pieces.val[Max(known)])[1]]>>)

-----------------------------------------------------------------------------
(* Host and Origin.                                                        *)

\* A port is what follows the last colon, if that is a number.
ParseHostText(t) ==
    LET parts == SplitLast(t, ":")
        port == ParseU16(parts[2])
    IN  IF Len(parts) = 2 /\ port.ok THEN [hostname |-> parts[1], port |-> <<port.val>>]
        ELSE [hostname |-> t, port |-> <<>>]
ParseHost(lines) ==
    LET text == OneRawStr(lines) IN IF text.ok THEN Ok(ParseHostText(text.val)) ELSE Err
\* Ports 80 and 443 are left out, whatever the scheme.
PrintHost(h) ==
    h.hostname \o IF h.port \in {<<>>, <<80>>, <<443>>} THEN <<>> ELSE <<":">> \o Numeral(h.port[1])

ParseOrigin(lines) ==
    LET text == OneRawStr(lines)
        at == {i \in 1..(Len(text.val) - 2) : SubSeq(text.val, i, i + 2) = <<":", "/", "/">>}
    IN  IF ~text.ok \/ at = {} THEN Err
        ELSE Ok([scheme |-> SubSeq(text.val, 1, Min(at) - 1),
                 host |-> ParseHostText(SubSeq(text.val, Min(at) + 3, Len(text.val)))])
NullOrigin == [scheme |-> <<"null">>]
PrintOrigin(v) ==
    IF v = NullOrigin THEN <<"null">> ELSE v.scheme \o <<":", "/", "/">> \o PrintHost(v.host)

-----------------------------------------------------------------------------
(* Strict-Transport-Security: max-age once, includeSubdomains at most once,*)
(* anything else is passed over.                                           *)

ParseHsts(lines) ==
    LET text == OneRawStr(lines)
        parts == Trimmed(Split(text.val, ";"))
        subdomains == {i \in DOMAIN parts : Lower(parts[i]) = <<"includesubdomains">>}
        ages == {i \in DOMAIN parts : Len(NameValue(parts[i])) = 2
                                      /\ Lower(NameValue(parts[i])[1]) = <<"max-age">>}
        Age(i) == ParseNumber(TrimQuotes(NameValue(parts[i])[2]))
    IN  IF ~text.ok \/ Cardinality(ages) # 1 \/ Cardinality(subdomains) > 1 THEN Err
        ELSE LET age == Age(Min(ages))
             IN  IF age.ok THEN Ok([max_age |-> age.val, include_subdomains |-> subdomains # {}]) ELSE Err
PrintHsts(v) ==
    <<"max-age", "=">> \o Numeral(v.max_age)
        \o IF v.include_subdomains THEN <<";", " ", "includeSubdomains">> ELSE <<>>

-----------------------------------------------------------------------------
(* Cache-Control, Prefer and Preference-Applied: lists of directives, in   *)
(* which a directive that is not well-formed is left out; an empty list is *)
(* an error.                                                               *)

DirectiveList(lines, Read(_)) ==
    LET pieces == CommaDelimited(lines)
        directives == Oks([i \in DOMAIN pieces.val |-> Read(pieces.val[i])])
    IN  IF pieces.ok /\ directives # <<>> THEN Ok(directives) ELSE Err

TimedDirectives == {<<"max-age">>, <<"max-stale">>, <<"min-fresh">>, <<"s-maxage">>}
CacheDirective(t) ==
    LET parts == SplitFirst(t, "=")
        argument == TrimQuotes(parts[2])
        seconds == ParseNumber(argument)
    IN  IF Len(parts) = 1 THEN Ok([name |-> t, argument |-> <<>>])
        ELSE IF parts[2] = <<>> THEN Err
        ELSE IF parts[1] \notin TimedDirectives THEN Ok([name |-> parts[1], argument |-> <<argument>>])
        ELSE IF seconds.ok THEN Ok([name |-> parts[1], seconds |-> seconds.val])
        ELSE Err
PrintCacheDirective(d) ==
    IF "seconds" \in DOMAIN d THEN d.name \o <<"=">> \o Numeral(d.seconds)
    ELSE d.name \o IF d.argument = <<>> THEN <<>> ELSE <<"=">> \o d.argument[1]
ParseCacheControl(lines) == DirectiveList(lines, CacheDirective)
PrintCacheControl(ds) == FmtCommaDelimited([i \in DOMAIN ds |-> PrintCacheDirective(ds[i])])

PlainPreferences ==
    {<<<<"respond-async">>, <<>>>>, <<<<"return">>, <<"representation">>>>, <<<<"return">>, <<"minimal">>>>,
     <<<<"handling">>, <<"strict">>>>, <<<<"handling">>, <<"lenient">>>>}
\* A preference and its parameters are names with a value, empty when there is none; the
\* preferences that are not extensions take no parameters.
Preference(t) ==
    LET parts == Split(t, ";")
        pairs == [i \in DOMAIN parts |->
                     LET nv == NameValue(parts[i])
                     IN  <<nv[1], IF Len(nv) = 1 THEN <<>> ELSE TrimQuotes(nv[2])>>]
        first == pairs[1]
        rest == Tail(pairs)
        seconds == ParseNumber(first[2])
    IN  IF first[1] = <<"wait">>
        THEN IF rest = <<>> /\ seconds.ok THEN Ok([wait |-> seconds.val]) ELSE Err
        ELSE IF first \in PlainPreferences /\ rest # <<>> THEN Err
        ELSE Ok([pair |-> first, params |-> rest])
PrintPair(p) == p[1] \o IF p[2] = <<>> THEN <<>> ELSE <<"=">> \o p[2]
PrintPreference(p) ==
    IF "wait" \in DOMAIN p THEN <<"wait", "=">> \o Numeral(p.wait)
    ELSE Joined([i \in 1..(Len(p.params) + 1) |->
                    PrintPair(IF i = 1 THEN p.pair ELSE p.params[i - 1])], <<";", " ">>)
ParsePrefer(lines) == DirectiveList(lines, Preference)
PrintPrefer(ps) == FmtCommaDelimited([i \in DOMAIN ps |-> PrintPreference(ps[i])])

\* Preference-Applied is read as Prefer is, and printed without the parameters.
WithoutParams(p) == IF "wait" \in DOMAIN p THEN p ELSE [p EXCEPT !.params = <<>>]
PrintPreferenceApplied(ps) == PrintPrefer([i \in DOMAIN ps |-> WithoutParams(ps[i])])

-----------------------------------------------------------------------------
(* Warning: code agent "text" "date". Code and agent are the first two     *)
(* words, the text is what is between the first two quotes, the date what  *)
(* is between the next two. Codes have three digits.                       *)

ParseWarning(lines) ==
    LET text == OneRawStr(lines)
        words == SelectSeq(Split(text.val, " "), LAMBDA w : w # <<>>)
        quoted == Split(text.val, Quote)
        code == ParseU16(words[1])
        date == IF Len(quoted) < 4 THEN Err ELSE ParseDate(quoted[4])
    IN  IF ~text.ok \/ Len(words) < 2 \/ Len(quoted) < 2 THEN Err
        ELSE IF ~code.ok THEN Err
        ELSE Ok([code |-> code.val, agent |-> words[2], text |-> quoted[2],
                 date |-> IF date.ok THEN <<date.val>> ELSE <<>>])
PrintWarning(w) ==
    Joined(<<Numeral(w.code), w.agent, Quoted(w.text)>>
           \o (IF w.date = <<>> THEN <<>> ELSE <<Quoted(PrintDate(w.date[1]))>>), <<" ">>)

-----------------------------------------------------------------------------
(* Cookie, a map from names to values that keeps its order, and Set-Cookie.*)

\* VecMap::insert: the first entry of the name is replaced, or the pair is added.
VecMapInsert(pairs, name, value) ==
    LET at == {i \in DOMAIN pairs : pairs[i][1] = name}
    IN  IF at = {} THEN Append(pairs, <<name, value>>) ELSE [pairs EXCEPT ![Min(at)] = <<name, value>>]
VecMapRemoveAll(pairs, name) == SelectSeq(pairs, LAMBDA p : p[1] # name)
CookieAppend(pairs, name, value) == Append(pairs, <<name, value>>)
CookieSet(pairs, name, value) == CookieAppend(VecMapRemoveAll(pairs, name), name, value)
CookieGet(pairs, name) ==
    LET at == {i \in DOMAIN pairs : pairs[i][1] = name}
    IN  IF at = {} THEN Err ELSE Ok(pairs[Min(at)][2])

\* A piece without "=" is passed over; of two pieces with one name the later one stays.
ParseCookie(lines) ==
    LET pieces == FlattenSeq([i \in DOMAIN lines |-> Split(lines[i], ";")])
        pairs == FoldLeft(LAMBDA jar, t : LET nv == NameValue(t)
                                          IN  IF Len(nv) = 2 THEN VecMapInsert(jar, nv[1], nv[2]) ELSE jar,
                          <<>>, pieces)
    IN  OkIf((\A i \in DOMAIN lines : IsUtf8(lines[i])) /\ pairs # <<>>, pairs)
PrintCookie(pairs) ==
    Joined([i \in DOMAIN pairs |-> pairs[i][1] \o <<"=">> \o pairs[i][2]], <<";", " ">>)

\* One line per cookie; lines that are not UTF-8 are passed over.
ParseSetCookie(lines) ==
    LET good == {i \in DOMAIN lines : IsUtf8(lines[i])}
    IN  OkIf(good # {}, Trimmed(ElementsAt(lines, good)))

-----------------------------------------------------------------------------
(* Authorization, for credentials that are any text, Basic or Bearer.      *)

\* The base64 crate, on the texts used here.
Base64 ==
    <<"Aladdin", ":", "open", " ", "sesame">> :> "QWxhZGRpbjpvcGVuIHNlc2FtZQ=="
    @@ <<"Aladdin", ":">> :> "QWxhZGRpbjo=" @@ <<"Aladdin">> :> "QWxhZGRpbg=="
    @@ <<"Aladdin", ":", "a">> :> "QWxhZGRpbjph" @@ <<"Aladdin", ":", "a", ":", "b">> :> "QWxhZGRpbjphOmI="
Base64Decode(t) ==
    LET plain == {p \in DOMAIN Base64 : t = <<Base64[p]>>}
    IN  IF plain = {} THEN Err ELSE Ok(CHOOSE p \in plain : TRUE)

\* User and password are the first two pieces between colons; what follows a second colon is lost.
ParseBasic(t) ==
    LET plain == Base64Decode(t)
        parts == Split(plain.val, ":")
    IN  IF plain.ok
        THEN Ok([username |-> parts[1],
                 password |-> IF Len(parts) = 1 THEN <<>> ELSE <<parts[2]>>])
        ELSE Err
PrintBasic(c) == <<Base64[c.username \o <<":">> \o FlattenSeq(c.password)]>>

\* The words that begin with a scheme but are longer: the scheme, one character and the rest.
LongerThanScheme == [word \in {"Bearerxy"} |-> <<"Bearer", "x", "y">>]
SchemeCutOff(t) ==
    IF t # <<>> /\ t[1] \in DOMAIN LongerThanScheme
    THEN LongerThanScheme[t[1]] \o SubSeq(t, 2, Len(t)) ELSE t

\* The line begins with the scheme, as it is spelled; the character after it, which is skipped,
\* may be any (of more than one byte it would be cut in two, and the program panics: not modelled).
ParseAuthorization(scheme, lines) ==
    LET line == OneLine(lines)
        text == SchemeCutOff(line.val)
        after == SubSeq(text, 3, Len(text))
    IN  IF ~line.ok THEN Err
        ELSE IF scheme = "String" THEN line
        ELSE IF Len(text) < 3 \/ text[1] # scheme THEN Err
        ELSE IF scheme = "Basic" THEN ParseBasic(after)
        ELSE Ok(after)
PrintAuthorization(scheme, v) ==
    CASE scheme = "String" -> v
      [] scheme = "Basic" -> <<"Basic", " ">> \o PrintBasic(v)
      [] scheme = "Bearer" -> <<"Bearer", " ">> \o v

\* Proxy-Authorization has a parser and a printer of its own, with the same text.
ParseProxyAuthorization(scheme, lines) == ParseAuthorization(scheme, lines)
PrintProxyAuthorization(scheme, v) == PrintAuthorization(scheme, v)

-----------------------------------------------------------------------------
(* Content-Disposition.                                                    *)

Filename(charset, language, bytes) == [charset |-> charset, language |-> language, bytes |-> bytes]

DispositionParam(t) ==
    LET nv == NameValue(t)
        name == Lower(nv[1])
        extended == ParseExtendedValue(nv[2])
    IN  IF Len(nv) = 1 THEN Err
        ELSE IF name = <<"filename">> THEN Ok(Filename(<<"UTF-8">>, <<>>, TrimQuotes(nv[2])))
        ELSE IF name = <<"filename", "*">> THEN extended
        ELSE Ok([name |-> nv[1], value |-> TrimQuotes(nv[2])])

\* One parameter that cannot be read makes the whole header unreadable.
ParseContentDisposition(lines) ==
    LET text == OneRawStr(lines)
        parts == Split(text.val, ";")
        type == Trim(parts[1])
        params == [i \in 1..(Len(parts) - 1) |-> DispositionParam(parts[i + 1])]
    IN  IF ~text.ok THEN Err
        ELSE IF \E i \in DOMAIN params : ~params[i].ok THEN Err
        ELSE Ok([disposition |-> IF Lower(type) \in {<<"inline">>, <<"attachment">>} THEN Lower(type) ELSE type,
                 parameters |-> [i \in DOMAIN params |-> params[i].val]])

IsFilename(p) == "bytes" \in DOMAIN p
\* The name goes between quotes, as it is, when it is UTF-8 text of no language.
SimpleFormat(p) == p.language = <<>> /\ Upper(p.charset) = <<"UTF-8">>
PrintDispositionParam(p) ==
    IF ~IsFilename(p) THEN p.name \o <<"=">> \o Quoted(p.value)
    ELSE IF SimpleFormat(p) THEN <<"filename", "=">> \o Quoted(p.bytes)
    ELSE <<"filename", "*", "=">> \o PrintExtendedValue(p)
PrintContentDisposition(c) ==
    Joined(<<c.disposition>> \o [i \in DOMAIN c.parameters |-> PrintDispositionParam(c.parameters[i])],
           <<";", " ">>)
\* Formatting fails for a name that is to go between quotes and is not UTF-8.
DispositionPrints(c) ==
    \A i \in DOMAIN c.parameters :
        LET p == c.parameters[i] IN IsFilename(p) /\ SimpleFormat(p) => IsUtf8(p.bytes)
=============================================================================
