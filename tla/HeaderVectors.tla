---------------------------- MODULE HeaderVectors ----------------------------
(***************************************************************************)
(* Headers the repository's own tests read, and what they expect of them   *)
(* (the test modules of header/common). Err is a header that is refused.   *)
(***************************************************************************)
EXTENDS HeaderFields, HeaderRanges

Vector(header, lines, expected) == [header |-> header, lines |-> lines, expected |-> expected]
Known(t) == [known |-> TRUE, text |-> t]
Other(t) == [known |-> FALSE, text |-> t]
Weighted(item, quality) == [item |-> item, quality |-> quality]
Directive(t) == [name |-> t, argument |-> <<>>]
Timed(t, seconds) == [name |-> t, seconds |-> seconds]

Pref(name, value, params) == [pair |-> <<<<name>>, value>>, params |-> params]

RangeVectors == {
    Vector("Range", <<<<"bytes", "=", "1", "-", "100", ",", "-">>>>,
        Ok([unit |-> <<"bytes">>, specs |-> <<FromTo(1, 100)>>])),
    Vector("Range", <<<<"bytes", "=", " ", "1", "-", "100", " ", ",", " ", "101", "-", "xxx", ",", " ",
        " ", "200", "-", " ">>>>,
        Ok([unit |-> <<"bytes">>, specs |-> <<FromTo(1, 100), AllFrom(200)>>])),
    Vector("Range", <<<<"bytes", "=", "1", "-", "100", ",", " ", ",", ",", "-", "100">>>>,
        Ok([unit |-> <<"bytes">>, specs |-> <<FromTo(1, 100), LastBytes(100)>>])),
    Vector("Range", <<<<"custom", "=", "1", "-", "100", ",", "-", "100">>>>,
        Ok([unit |-> <<"custom">>, range |-> <<"1", "-", "100", ",", "-", "100">>])),
    Vector("Range", <<<<"bytes", "=", "1", "-", "a", ",", "-">>>>, Err),
    Vector("Range", <<<<"bytes", "=", "1", "-", "2", "-", "3">>>>, Err),
    Vector("Range", <<<<"abc">>>>, Err),
    Vector("Range", <<<<"bytes", "=", "1", "-", "100", "=">>>>, Err),
    Vector("Range", <<<<"bytes", "=">>>>, Err),
    Vector("Range", <<<<"custom", "=">>>>, Err),
    Vector("Range", <<<<"=", "1", "-", "100">>>>, Err),
    Vector("Range", <<<<"bytes", "=", "1", "-", "100", ",", "200", "-">>>>,
        Ok([unit |-> <<"bytes">>, specs |-> <<FromTo(1, 100), AllFrom(200)>>])),
    Vector("Range", <<<<"custom", "=", "abcd">>>>,
        Ok([unit |-> <<"custom">>, range |-> <<"abcd">>])),
    Vector("Range", <<<<"custom", "=", "xxx", "-", "yyy">>>>,
        Ok([unit |-> <<"custom">>, range |-> <<"xxx", "-", "yyy">>]))
    }
ContentRangeVectors == {
    Vector("Content-Range", <<<<"bytes", " ", "0", "-", "499", "/", "500">>>>,
        Ok(BytesRange(<<0, 499>>, <<500>>))),
    Vector("Content-Range", <<<<"bytes", " ", "0", "-", "499", "/", "*">>>>, Ok(BytesRange(<<0, 499>>,
        <<>>))),
    Vector("Content-Range", <<<<"bytes", " ", "*", "/", "500">>>>, Ok(BytesRange(<<>>, <<500>>))),
    Vector("Content-Range", <<<<"seconds", " ", "1", "-", "2">>>>,
        Ok([unit |-> <<"seconds">>, resp |-> <<"1", "-", "2">>])),
    Vector("Content-Range", <<<<"bytes", " ", "0", "-", "499">>>>, Err),
    Vector("Content-Range", <<<<"bytes">>>>, Err),
    Vector("Content-Range", <<<<"bytes", " ", "499", "-", "0", "/", "500">>>>, Err),
    Vector("Content-Range", <<<<"bytes", " ", "1", "-", "2", "/", "500", " ", "3">>>>, Err),
    Vector("Content-Range", <<<<"bytes", " ", "1", "-", "2", "/", "500", "/", "600">>>>, Err),
    Vector("Content-Range", <<<<"bytes", " ", "1", "-", "2", "-", "3", "/", "500">>>>, Err),
    Vector("Content-Range", <<<<>>>>,
        Err)
    }
LinkVectors == {
    Vector("Link", <<<<"<", "http://example.com/TheBook/chapter2", ">", ";", " ", "rel", "=", Quote,
        "previous", Quote, ";", " ", "rev", "=", "next", ";", " ", "title", "=", Quote, "previous", " ",
        "chapter", Quote>>>>,
        Ok(<<[link |-> <<"http://example.com/TheBook/chapter2">>,
            attrs |-> "rel" :> <<Known(<<"previous">>)>> @@ "rev" :> <<Known(<<"next">>)>> @@ "title" :> <<"previous", " ", "chapter">>]>>)),
    Vector("Link", <<<<"http://example.com", ";", " ", "rel", "=", Quote, "previous", Quote>>>>, Err),
    Vector("Link", <<<<"<", "http://example.com", ">", ";", " ", "=", Quote, "previous", Quote>>>>,
        Err),
    Vector("Link", <<<<"<", "http://example.com", ">", ";", " ", "rel", "=", ";", " ", "rev", "=",
        "next">>>>,
        Err),
    Vector("Link", <<<<"<", "http://example.com", ">", ";", " ", "rel", "=", Quote, "previous", Quote,
        ";", " ", "rev", "=", "next", ";", " ", "title", "=">>>>,
        Err),
    Vector("Link", <<<<"<", "http://example.com", ">", ";", " ", "rel", "=", Quote, "previous", Quote,
        ";", " ", "rev", "=", "next", ";", " ", "attr", "=", "unknown">>>>,
        Err),
    Vector("Link", <<<<"<", "/TheBook/chapter2", ">", ";", " ", "rel", "=", Quote, "previous", Quote,
        ";", " ", "title", "*", "=", "UTF-8", "'", "de", "'", "letztes", "%", "20Kapitel", ",", " ",
        "<", "/TheBook/chapter4", ">", ";", " ", "rel", "=", Quote, "next", Quote, ";", " ", "title",
        "*", "=", "UTF-8", "'", "de", "'", "n", "%", "c3", "%", "a4chstes", "%", "20Kapitel">>>>,
        Ok(<<[link |-> <<"/TheBook/chapter2">>,
              attrs |-> "rel" :> <<Known(<<"previous">>)>> @@ "title*" :> <<"UTF-8", "'", "de", "'",
                  "letztes", "%", "20Kapitel">>],
             [link |-> <<"/TheBook/chapter4">>,
              attrs |-> "rel" :> <<Known(<<"next">>)>> @@ "title*" :> <<"UTF-8", "'", "de", "'", "n",
                  "%", "c3", "%", "a4chstes", "%", "20Kapitel">>]>>)),
    Vector("Link", <<<<"<", "http://example.com/TheBook/chapter2", ">", ";", " ", "rel", "=", Quote,
        "previous", Quote, ";", " ", "anchor", "=", Quote, "../anchor/example/", Quote, ";", " ", "rev",
        "=", Quote, "next", Quote, ";", " ", "hreflang", "=", "de", ";", " ", "media", "=", Quote,
        "screen", Quote, ";", " ", "title", "=", Quote, "previous", " ", "chapter", Quote, ";", " ",
        "title", "*", "=", "title", "*", " ", "unparsed", ";", " ", "type", "=", Quote, "text/plain",
        Quote>>>>,
        Ok(<<[link |-> <<"http://example.com/TheBook/chapter2">>,
              attrs |-> "rel" :> <<Known(<<"previous">>)>> @@ "anchor" :> <<"../anchor/example/">>
                        @@ "rev" :> <<Known(<<"next">>)>> @@ "hreflang" :> <<<<"de">>>>
                        @@ "media" :> <<Known(<<"screen">>)>> @@ "title" :> <<"previous", " ",
                            "chapter">>
                        @@ "title*" :> <<"title", "*", " ",
                            "unparsed">> @@ "type" :> <<"text/plain">>]>>))
    }
CookieVectors == {
    Vector("Cookie", <<<<"foo", "=", "bar", ";", " ", "invalid", " ", ";", " ", "bad", ";", " ", ";",
        ";", " ", "baz", "=", "quux">>>>,
        Ok(<<<<<<"foo">>, <<"bar">>>>, <<<<"baz">>, <<"quux">>>>>>)),
    Vector("Cookie", <<<<" ", "foo", " ", " ", "=", " ", " ", " ", " ", "bar", ";", "baz", "=", " ",
        "quux", " ", " ">>>>,
        Ok(<<<<<<"foo">>, <<"bar">>>>, <<<<"baz">>, <<"quux">>>>>>)),
    Vector("Cookie", <<<<"foo", " ", " ", "=", " ", " ", " ", " ", "bar">>, <<"baz", "=", " ", "quux",
        " ", " ">>>>,
        Ok(<<<<<<"foo">>, <<"bar">>>>, <<<<"baz">>, <<"quux">>>>>>)),
    Vector("Cookie", <<<<"double", "=", "=", "2">>>>, Ok(<<<<<<"double">>, <<"=", "2">>>>>>)),
    Vector("Cookie", <<<<"foo", "=", "bar", ";", " ", "baz", "=", "quux", " ", ";", " ", "empty",
        "=">>>>,
        Ok(<<<<<<"foo">>, <<"bar">>>>, <<<<"baz">>, <<"quux">>>>, <<<<"empty">>, <<>>>>>>)),
    Vector("Cookie", <<<<"middle", "=", "equals", "=", "in", "=", "the", "=", "middle", ";", " ",
        "double", "=", "=", "2">>>>,
        Ok(<<<<<<"middle">>, <<"equals", "=", "in", "=", "the", "=", "middle">>>>, <<<<"double">>,
            <<"=", "2">>>>>>))
    }
CacheControlVectors == {
    Vector("Cache-Control", <<<<"no-cache">>, <<"private">>>>,
        Ok(<<Directive(<<"no-cache">>), Directive(<<"private">>)>>)),
    Vector("Cache-Control", <<<<"max-age", "=", "100", ",", " ", "private">>>>,
        Ok(<<Timed(<<"max-age">>, 100), Directive(<<"private">>)>>)),
    Vector("Cache-Control", <<<<"max-age", "=", Quote, "200", Quote>>>>, Ok(<<Timed(<<"max-age">>,
        200)>>)),
    Vector("Cache-Control", <<<<"foo", ",", " ", "bar", "=", "baz">>>>,
        Ok(<<Directive(<<"foo">>), [name |-> <<"bar">>, argument |-> <<<<"baz">>>>]>>)),
    Vector("Cache-Control", <<<<"foo", "=">>>>, Err)
    }
PreferVectors == {
    Vector("Prefer", <<<<"respond-async", ",", " ", "return", "=", "representation">>>>,
        Ok(<<[pair |-> <<<<"respond-async">>, <<>>>>, params |-> <<>>], [pair |-> <<<<"return">>,
            <<"representation">>>>, params |-> <<>>]>>)),
    Vector("Prefer", <<<<"wait", "=", Quote, "200", Quote, ",", " ", "handling", "=", Quote, "strict",
        Quote>>>>,
        Ok(<<[wait |-> 200], [pair |-> <<<<"handling">>, <<"strict">>>>, params |-> <<>>]>>)),
    Vector("Prefer", <<<<"respond-async", ";", " ", "foo", "=", "bar">>>>, Err),
    Vector("Prefer", <<<<"wait", "=", "100", ",", " ", "handling", "=", "lenient", ",", " ",
        "respond-async">>>>,
        Ok(<<[wait |-> 100], Pref("handling", <<"lenient">>, <<>>), Pref("respond-async", <<>>,
            <<>>)>>)),
    Vector("Prefer", <<<<"foo", ",", " ", "bar", "=", "baz", ",", " ", "baz", ";", " ", "foo", ";", " ",
        "bar", "=", "baz", ",", " ", "bux", "=", Quote, Quote, ";", " ", "foo", "=", Quote, Quote, ",",
        " ", "buz", "=", Quote, "some", " ", "parameter", Quote>>>>,
        Ok(<<Pref("foo", <<>>, <<>>), Pref("bar", <<"baz">>, <<>>),
             Pref("baz", <<>>, <<<<<<"foo">>, <<>>>>, <<<<"bar">>, <<"baz">>>>>>),
             Pref("bux", <<>>, <<<<<<"foo">>, <<>>>>>>), Pref("buz", <<"some", " ", "parameter">>,
                 <<>>)>>))
    }
HstsVectors == {
    Vector("Strict-Transport-Security", <<<<"max-age", "=", "15768000", " ", ";", " ",
        "includeSubDomains">>>>,
        Ok([max_age |-> 15768000, include_subdomains |-> TRUE])),
    Vector("Strict-Transport-Security", <<<<"max-age">>>>, Err),
    Vector("Strict-Transport-Security", <<<<"max-age", "=", "100", ";", " ", "max-age", "=", "5", ";",
        " ", "max-age", "=", "0">>>>,
        Err),
    Vector("Strict-Transport-Security", <<<<"max-age", "=", "31536000">>>>,
        Ok([max_age |-> 31536000, include_subdomains |-> FALSE])),
    Vector("Strict-Transport-Security", <<<<"max-age", "=", Quote, "31536000", Quote>>>>,
        Ok([max_age |-> 31536000, include_subdomains |-> FALSE])),
    Vector("Strict-Transport-Security", <<<<"max-age", " ", "=", " ", "31536000">>>>,
        Ok([max_age |-> 31536000, include_subdomains |-> FALSE])),
    Vector("Strict-Transport-Security", <<<<"includeSubDomains">>>>,
        Err),
    Vector("Strict-Transport-Security", <<<<"max-age", " ", "=", " ", "derp">>>>,
        Err)
    }
AuthorizationVectors == {
    Vector("Authorization<String>", <<<<"foo", " ", "bar", " ", "baz">>>>,
        Ok(<<"foo", " ", "bar", " ", "baz">>)),
    Vector("Authorization<Basic>", <<<<"Basic", " ", "QWxhZGRpbjpvcGVuIHNlc2FtZQ==">>>>,
        Ok([username |-> <<"Aladdin">>, password |-> <<<<"open", " ", "sesame">>>>])),
    Vector("Authorization<Basic>", <<<<"Basic", " ", "QWxhZGRpbjo=">>>>,
        Ok([username |-> <<"Aladdin">>, password |-> <<<<>>>>])),
    Vector("Authorization<Bearer>", <<<<"Bearer", " ", "fpKL54jvWmEGVoRdCNjG">>>>,
        Ok(<<"fpKL54jvWmEGVoRdCNjG">>))
    }
HostVectors == {
    Vector("Host", <<<<"foo.com", ":", "8080">>>>, Ok([hostname |-> <<"foo.com">>, port |-> <<8080>>])),
    Vector("Host", <<<<"[", ":", ":", "1", "]">>>>, Ok([hostname |-> <<"[", ":", ":", "1", "]">>,
        port |-> <<>>])),
    Vector("Host", <<<<"foo.com">>>>,
        Ok([hostname |-> <<"foo.com">>, port |-> <<>>])),
    Vector("Host", <<<<"[", ":", ":", "1", "]", ":", "8080">>>>,
        Ok([hostname |-> <<"[", ":", ":", "1", "]">>, port |-> <<8080>>]))
    }
OtherVectors == {
    Vector("Accept", <<<<"audio/*", ";", " ", "q", "=", "0.2", ",", " ", "audio/basic">>>>,
        Ok(<<Weighted(<<"audio/*">>, 200), Weighted(<<"audio/basic">>, 1000)>>)),
    Vector("Accept", <<<<"text/plain", ";", " ", "q", "=", "0.5", ",", " ", "text/html", ",", " ",
        "text/x-dvi", ";", " ", "q", "=", "0.8", ",", " ", "text/x-c">>>>,
        Ok(<<Weighted(<<"text/plain">>, 500), Weighted(<<"text/html">>, 1000),
            Weighted(<<"text/x-dvi">>, 800), Weighted(<<"text/x-c">>, 1000)>>)),
    Vector("Accept", <<<<"text/plain", ";", " ", "charset", "=", "utf-8", ";", " ", "q", "=", "0.5">>>>,
        Ok(<<Weighted(<<"text/plain", ";", " ", "charset", "=", "utf-8">>, 500)>>)),
    Vector("Accept-Encoding", <<<<>>>>, Ok(<<>>)),
    Vector("Accept-Encoding", <<<<"gzip", ",", " ", "identity", ";", " ", "q", "=", "0.5", ",", " ",
        "*", ";", "q", "=", "0">>>>,
        Ok(<<Weighted(Known(<<"gzip">>), 1000), Weighted(Known(<<"identity">>), 500),
            Weighted(Other(<<"*">>), 0)>>)),
    Vector("Accept-Language", <<<<"en-US", ",", " ", "en", ";", " ", "q", "=", "0.5", ",", " ",
        "fr">>>>,
        Ok(<<Weighted(<<"en-US">>, 1000), Weighted(<<"en">>, 500), Weighted(<<"fr">>, 1000)>>)),
    Vector("Access-Control-Allow-Credentials", <<<<"false">>>>, Err),
    Vector("Access-Control-Allow-Credentials", <<<<"true">>, <<"true">>>>, Err),
    Vector("Allow", <<<<"GET", ",", " ", "HEAD", ",", " ", "PUT">>>>,
        Ok(<<Known(<<"GET">>), Known(<<"HEAD">>), Known(<<"PUT">>)>>)),
    Vector("Allow", <<<<>>>>, Ok(<<>>)),
    Vector("Connection", <<<<"Keep-Alive">>>>, Ok(<<Known(<<"keep-alive">>)>>)),
    Vector("Content-Disposition", <<<<"form-data", ";", " ", "dummy", "=", "3", ";", " ", "name", "=",
        "upload", ";", " ", "filename", "=", Quote, "sample.png", Quote>>>>,
        Ok([disposition |-> <<"form-data">>, parameters |-> <<[name |-> <<"dummy">>, value |-> <<"3">>],
            [name |-> <<"name">>, value |-> <<"upload">>], Filename(<<"UTF-8">>, <<>>,
                <<"sample.png">>)>>])),
    Vector("Content-Disposition", <<<<"attachment", ";", " ", "filename", "*", "=", "UTF-8", "'", "'",
        "black", "%20", "and", "%20", "white.csv">>>>,
        Ok([disposition |-> <<"attachment">>, parameters |-> <<Filename(<<"UTF-8">>, <<>>, <<"black",
            " ", "and", " ", "white.csv">>)>>])),
    Vector("Content-Length", <<<<"3495">>>>, Ok(3495)),
    Vector("Content-Length", <<<<"5">>, <<"5">>>>, Ok(5)),
    Vector("Content-Length", <<<<"5">>, <<"6">>, <<"5">>>>, Err),
    Vector("ETag", <<<<"W", "/", Quote, "weak-etag", Quote>>>>, Ok([weak |-> TRUE,
        tag |-> <<"weak-etag">>])),
    Vector("ETag", <<<<Quote, Quote>>>>, Ok([weak |-> FALSE, tag |-> <<>>])),
    Vector("If-Range", <<<<"this-is-invalid">>>>, Err),
    Vector("Origin", <<<<"https", ":", "/", "/", "foo.com", ":", "443">>>>,
        Ok([scheme |-> <<"https">>, host |-> [hostname |-> <<"foo.com">>, port |-> <<443>>]])),
    Vector("Pragma", <<<<"FoObar">>>>, Ok(<<"FoObar">>)),
    Vector("Referrer-Policy", <<<<"same-origin", ",", " ", "origin", ",", " ", "foobar">>>>,
        Ok(<<"origin">>)),
    Vector("Retry-After", <<<<"1234">>>>, Ok([delay |-> 1234])),
    Vector("Upgrade", <<<<"HTTP", "/", "2.0", ",", " ", "SHTTP", "/", "1.3", ",", " ", "IRC", "/",
        "6.9", ",", " ", "RTA", "/", "x11">>>>,
        Ok(<<[name |-> Known(<<"HTTP">>), version |-> <<<<"2.0">>>>], [name |-> Other(<<"SHTTP">>),
            version |-> <<<<"1.3">>>>], [name |-> Other(<<"IRC">>), version |-> <<<<"6.9">>>>],
                [name |-> Other(<<"RTA">>), version |-> <<<<"x11">>>>]>>)),
    Vector("Vary", <<<<"*">>>>, Ok([any |-> TRUE, items |-> <<>>])),
    Vector("Warning", <<<<"112", " ", "-", " ", Quote, "network", " ", "down", Quote, " ", Quote,
        "Sat, 25 Aug 2012 23:34:45 GMT", Quote>>>>,
        Ok([code |-> 112, agent |-> <<"-">>, text |-> <<"network", " ", "down">>,
            date |-> <<"25 Aug 2012">>]))
    }

Vectors ==
    RangeVectors \union ContentRangeVectors \union LinkVectors
    \union CookieVectors \union CacheControlVectors \union PreferVectors
    \union HstsVectors \union AuthorizationVectors \union HostVectors \union OtherVectors
=============================================================================
