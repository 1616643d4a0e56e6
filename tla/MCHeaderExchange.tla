-------------------------- MODULE MCHeaderExchange --------------------------
(***************************************************************************)
(* Headers for model checking: lines other software may send, values a     *)
(* program may build, and the lines of the repository's tests.             *)
(***************************************************************************)
EXTENDS HeaderExchangeProps

W(words) == {<<w>> : w \in words}

\* Pieces of a list, or the one text of a header: well-formed, extensions and nonsense.
MCTexts ==
    "encoding" :> W({"chunked", "gzip", "trailers", "foo", "*"})
    @@ "charset" :> W({"iso-8859-5", "us-ascii", "unicode", "5"})
    @@ "language" :> W({"en", "da", "en-US", "?"})
    @@ "mime" :> W({"text/html", "audio/*", "html"}) \union {<<"text/plain", ";", " ", "charset", "=", "utf-8">>}
    @@ "range unit" :> W({"bytes", "none", "seconds"})
    @@ "option" :> W({"Keep-Alive", "close", "upgrade"})
    @@ "protocol" :> W({"WEbSOCKet", "TLS", "IRC"})
                     \union {<<"HTTP", "/", "2.0">>, <<"IRC", "/", "6.9", "/", "a">>, <<"websocket", "/">>}
    @@ "method" :> W({"GET", "PUT", "fOObAr"})
    @@ "entity tag" :> {Quoted(<<"a">>), <<"W", "/">> \o Quoted(<<"a">>), Quoted(<<>>), <<"a">>,
                        Quoted(<<"a", ",", "b">>), Quoted(<<NotAscii>>), Quoted(<<"a", " ", "b">>)}
    @@ "name" :> W({"date", "accept-language", "*"})
    @@ "date" :> W(DOMAIN Dates \union {"yesterday"})
    @@ "seconds" :> W({"531", "34v95", TooLarge}) \union {<<"+", "5">>}
    @@ "text" :> {<<"a", " ", "b">>, <<NotAscii>>, <<NotUtf8>>}

Weightings == {<<>>, <<";", "q", "=", "0.5">>, <<" ", ";", " ", "q", "=", "0.251">>, <<";", "q", "=", "1.0">>,
               <<";", " ", "q", "=", "0">>, <<";", "q", "=", "x">>, <<";", "level", "=", "1">>,
               <<";", "q", "=", "0.8", ";", "q", "=", "0.50">>, <<";", "q">>, <<";", "b">>}

MacroTexts(h) ==
    IF h.weighted THEN {t \o w : t \in MCTexts[h.item], w \in Weightings} ELSE MCTexts[h.item]
Blanks(t) == {t, <<" ">> \o t, t \o <<" ">>}

\* One text alone, two on a line or on two lines, or with an empty piece between them.
OneLineOf(texts) == {<<t>> : t \in texts}
TwoOf(texts, others) ==
    UNION {{<<t \o <<",">> \o u>>, <<t, <<" ">> \o u>>, <<t \o <<",", " ", ",">> \o u>>} :
              t \in texts, u \in others}

MacroArrivals ==
    UNION {LET h == MacroHeaders[name]
               texts == MacroTexts(h)
           IN  {[header |-> name, lines |-> l] :
                  l \in OneLineOf(UNION {Blanks(t) : t \in texts}) \union {<<<<>>>>, <<<<" ">>>>}
                        \union IF h.grammar = "single" THEN {<<t, t>> : t \in texts}
                               ELSE TwoOf(texts, MCTexts[h.item])} : name \in DOMAIN MacroHeaders}

-----------------------------------------------------------------------------
Arrival(name, lines) == [header |-> name, lines |-> lines]
CacheTexts == {<<"no-cache">>, <<"No-Cache">>, <<"max-age", "=", "5">>, <<"max-age", "=", Quote, "200", Quote>>,
               <<"max-age", "=", "x">>, <<"foo", "=", "bar">>, <<"foo", "=">>, <<"no-store", "=", "a">>}
PreferTexts == {<<"respond-async">>, <<"wait", "=", "5">>, <<"wait">>, <<"return", "=", "minimal">>,
                <<"foo", "=", Quote, Quote>>, <<"foo", ";", " ", "a", "=", "b">>, <<"foo", " ", "=", " ", "b", ";", "a">>,
                <<"handling", "=", "strict", ";", "a">>}
LinkTexts == {<<"<", "/a", ">">> \o rel : rel \in
    {<<>>, <<";", "rel", "=", "Next">>, <<";", "rel", "=", Quote, "next", " ", "x", Quote, ";", "rel", "=", "up">>,
     <<";", " ", "type", "=", Quote, "text/html", Quote, ";", "title", "=", Quote, "a", ",", "b", Quote>>,
     <<";", "media", "=", "tv", ";", "hreflang", "=", "en", ";", "anchor", "=", Quote, "x", Quote, ";", "hreflang", "=", "de">>,
     <<";", "title", "*", "=", "a", ";", "title", "=", Quote, " ", "t", Quote>>,
     <<";", "type", "=", Quote, "text/html", Quote, ";", "title", "=", Quote, "a", Quote, "b", Quote>>,
     <<";", "a", "=", "b">>, <<";", "rel">>, <<";", "title", "=", "a">>}} \union {<<"/a">>, <<"<", "a">>}
RangeTexts == {<<"0", "-", "4">>, <<"3", "-">>, <<"-", "2">>, <<"-", "0">>, <<"-", "9">>, <<"5", "-", "9">>,
               <<"4", "-", "2">>, <<"x">>}
NameTexts == {Quoted(<<"a.jar">>), <<"a.jar">>, Quoted(<<"lib", "/", "a.jar">>), Quoted(<<"..", "/", "a.jar">>),
              Quoted(<<"/", "a.jar">>), Quoted(<<"..">>), Quoted(<<".">>), Quoted(<<".", "/", "a.jar">>),
              Quoted(<<"a.jar", "/">>), Quoted(<<"a.jar", "/", ".">>), Quoted(<<"a.jar", "/", "..">>),
              Quoted(<<>>), Quoted(<<"/">>), Quoted(<<"plugins">>), Quoted(<<"a", " ", "b">>), Quoted(<<NotAscii>>)}
DispositionTexts ==
    {<<type, ";", " ", "filename", "=">> \o n : type \in {"attachment", "Inline"}, n \in NameTexts}
    \union {<<"attachment", ";", "FileName", "*", "=">> \o x : x \in
              {<<"utf-8", "'", "'", "a", "%20", "b">>, <<"utf-8", "'", "'", "%FF">>, <<"iso-8859-5", "'", "en", "'", "%FF">>,
               <<"UTF-8", "'", "en", "'", "..", "%2F", "a.jar">>, <<"UTF-8", "'", "?", "'", "a">>,
               <<"UTF-8", "'", "a">>}}
    \union {<<"attachment">>, <<"attachment", ";", "a">>, <<"form-data", ";", "name", "=", "b", ";", "filename", "=", "a.jar">>,
            <<"attachment", ";", "filename", "=", "a.jar", ";", "filename", "=", "b.jar">>}

\* The headers that are lists, or whose lines are read one by one, and the pieces of each.
FieldTexts ==
    "Cache-Control" :> CacheTexts @@ "Prefer" :> PreferTexts @@ "Preference-Applied" :> PreferTexts @@ "Link" :> LinkTexts
    @@ "Referrer-Policy" :> W({"origin", "always", "Origin", "foobar"})
    @@ "Content-Length" :> W({"5", "12", "34v95", TooLarge}) \union {<<" ", "5">>}
    @@ "Cookie" :> {<<"a", "=", "1">>, <<"b", "=", "2", ";", " ", "a", "=", "3">>, <<"a">>, <<" ", "a", " ", "=", " ", "b">>}
    @@ "Set-Cookie" :> {<<"a", "=", "1", ";", " ", "Path", "=", "/">>, <<NotUtf8>>, <<" ", "b">>}

\* The headers of one line.
LineTexts ==
    "Access-Control-Allow-Credentials" :> W({"true", "TRUE", "false"})
    @@ "Access-Control-Allow-Origin" :> W({"*", "null", "http://foo.com"}) \union {<<" ", "a", " ">>, <<NotUtf8>>, <<>>}
    @@ "Expect" :> W({"100-continue", "100-Continue", "200"})
    @@ "Last-Event-ID" :> W({"1", NotUtf8}) \union {<<>>, <<" ", "1">>}
    @@ "Pragma" :> W({"No-Cache", "no-cache", "FoObar"}) \union {<<>>}
    @@ "If-Range" :> MCTexts["entity tag"] \union MCTexts["date"]
    @@ "Retry-After" :> MCTexts["seconds"] \union MCTexts["date"] \union {<<" ", "5">>}
    @@ "Host" :> {<<"foo.com">>, <<"foo.com", ":", "8080">>, <<"foo.com", ":", "443">>, <<"foo.com", ":", "65536">>,
                  <<"[", ":", ":", "1", "]">>, <<"[", ":", ":", "1", "]", ":", "8080">>, <<"foo.com", ":">>}
    @@ "Origin" :> {<<"http", ":", "/", "/", "foo.com">>, <<"https", ":", "/", "/", "foo.com", ":", "8080">>,
                    <<"http", ":", "/", "/", "foo.com", ":", "80">>, <<"null">>}
    @@ "Strict-Transport-Security" :>
            {<<"max-age", "=", "5">>, <<"Max-Age", "=", Quote, "31536000", Quote, " ", ";", "includeSubDomains">>,
             <<"includeSubDomains">>, <<"max-age", "=", "5", ";", "max-age", "=", "5">>, <<"max-age", "=", "5", ";", "a">>}
    @@ "Warning" :>
            {<<"299", " ", "a", " ">> \o Quoted(<<"b", " ", "c">>), <<"112", " ", "-", " ">> \o Quoted(<<"b">>) \o <<" ">> \o Quoted(<<"Sun Nov  6 08:49:37 1994">>),
             <<"112", " ", "-">>, <<"x", " ", "-", " ">> \o Quoted(<<"b">>), <<"199", " ", "-", " ">> \o Quoted(<<"b">>) \o <<" ">> \o Quoted(<<"c">>)}
    @@ "Range" :> {<<"bytes", "=">> \o s : s \in RangeTexts} \union {<<"bytes", "=">> \o s \o <<",">> \o t : s, t \in RangeTexts}
                  \union {<<"custom", "=", "a">>, <<"=", "a">>, <<"bytes">>}
    @@ "Content-Range" :> {<<"bytes", " ", "0", "-", "4", "/", "5">>, <<"bytes", " ", "0", "-", "4", "/", "*">>,
                           <<"bytes", " ", "*", "/", "5">>, <<"bytes", " ", "4", "-", "0", "/", "5">>, <<"seconds", " ", "1", "-", "2">>}
    @@ "Content-Disposition" :> DispositionTexts

Credentials == {<<"Basic", " ", Base64[c]>> : c \in DOMAIN Base64} \union {<<"Bearer", " ", "a">>, <<"Bearerxy">>, <<"Basic", " ", "?">>, <<"a", " ", "b">>}

MCArrivals ==
    MacroArrivals
    \union UNION {{Arrival(name, l) : l \in OneLineOf(FieldTexts[name]) \union TwoOf(FieldTexts[name], FieldTexts[name])} :
                     name \in DOMAIN FieldTexts}
    \union UNION {{Arrival(name, <<l>>) : l \in LineTexts[name]} : name \in DOMAIN LineTexts}
    \union {Arrival(name, <<l>>) : name \in DOMAIN Schemes \union DOMAIN ProxySchemes, l \in Credentials}
    \union {Arrival(v.header, v.lines) : v \in Vectors}

-----------------------------------------------------------------------------
Value(name, v) == [header |-> name, value |-> v]
MCFileNames == {<<"a.jar">>, <<"a", ";", "b">>, <<Quote, "a">>, <<"a", Quote, "b">>, <<NotAscii>>, <<" ", "a">>, <<>>}
MCSent ==
    {Value("Accept-Language", <<[item |-> <<"en">>, quality |-> k]>>) : k \in 0..1000}
    \union {Value("Cookie", <<>>), Value("User-Agent", <<"a", NewLine, "b">>), Value("Origin", NullOrigin),
            Value("Set-Cookie", <<<<"a", "=", "1">>, <<"a", NewLine, "b">>>>),
            Value("If-None-Match", [any |-> FALSE, items |-> <<[weak |-> TRUE, tag |-> <<"a", ",", "b">>]>>]),
            Value("Vary", [any |-> FALSE, items |-> <<<<"*">>>>]),
            Value("Range", [unit |-> <<"bytes">>, specs |-> <<>>]),
            Value("Range", [unit |-> <<"bytes">>, specs |-> <<FromTo(4, 2), FromTo(0, 4)>>]),
            Value("Cache-Control", <<[name |-> <<"foo">>, argument |-> <<<<"a", "=", "b">>>>],
                                     [name |-> <<"max-stale">>, seconds |-> 0]>>)}
    \union {Value(name, [username |-> <<"Aladdin">>, password |-> p]) :
              name \in {"Authorization<Basic>", "ProxyAuthorization<Basic>"},
              p \in {<<>>, <<<<>>>>, <<<<"a">>>>, <<<<"a", ":", "b">>>>, <<<<"open", " ", "sesame">>>>}}
    \union {Value("Content-Disposition", [disposition |-> <<"attachment">>, parameters |-> <<Filename(cs, l, n)>>]) :
              cs \in {<<"UTF-8">>, <<"ISO-8859-1">>}, l \in {<<>>, <<<<"en">>>>}, n \in MCFileNames}
    \union {Value("Warning", [code |-> 299, agent |-> <<"-">>, text |-> t, date |-> d]) :
              t \in {<<>>, <<"a", " ", "b">>, <<"a", Quote>>}, d \in {<<>>, <<"25 Aug 2012">>}}
    \union {Value("Link", <<[link |-> <<"/a">>, attrs |-> "title" :> t @@ "title*" :> <<"u">>]>>) :
              t \in {<<>>, <<"a">>, <<"a", ",", "b">>, <<"a", Quote>>}}

\* One value of every list header, with one item, and the empty list of some.
AppendedText ==
    "Cache-Control" :> <<"max-age", "=", "5">> @@ "Link" :> <<"<", "/b", ">", ";", "rel", "=", "next">>
    @@ [h \in DOMAIN MacroHeaders |->
           CHOOSE t \in MCTexts[MacroHeaders[h].item] : Len(t) <= 3 /\ ParseItem(MacroHeaders[h].item, t).ok]
MCAppended ==
    {Value(name, ParseHeader(name, <<AppendedText[name]>>).val) : name \in EncodedLists}
    \union {Value(name, <<>>) : name \in {"Allow", "Accept-Encoding", "TE"}}

MCCookiePairs == {<<<<"a">>, <<"1">>>>, <<<<"b">>, <<"2">>>>, <<<<"a">>, <<"3">>>>}
MCFullLengths == {0, 1, 4, 10}
MCCwdDirs == {<<"plugins">>}
=============================================================================
