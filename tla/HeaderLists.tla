----------------------------- MODULE HeaderLists -----------------------------
(***************************************************************************)
(* The headers hyperx defines with its header! macro: a grammar and a kind *)
(* of item each (header/common/mod.rs and one file per header).            *)
(***************************************************************************)
EXTENDS HeaderItems

\* (X)* and (X)+. The macro's two forms have the same code: both accept no item at all.
ListOf(item) == [grammar |-> "list", item |-> item, weighted |-> FALSE]
WeightedListOf(item) == [grammar |-> "list", item |-> item, weighted |-> TRUE]
\* [X], danger [X] and Cow[X].
Single(item) == [grammar |-> "single", item |-> item, weighted |-> FALSE]
\* {Any / (X)+}.
AnyOrListOf(item) == [grammar |-> "any", item |-> item, weighted |-> FALSE]

Accept == WeightedListOf("mime")
AcceptCharset == WeightedListOf("charset")
AcceptEncoding == WeightedListOf("encoding")
AcceptLanguage == WeightedListOf("language")
AcceptRanges == ListOf("range unit")
AccessControlAllowHeaders == ListOf("name")
AccessControlAllowMethods == ListOf("method")
AccessControlExposeHeaders == ListOf("name")
AccessControlMaxAge == Single("seconds")
AccessControlRequestHeaders == ListOf("name")
AccessControlRequestMethod == Single("method")
Allow == ListOf("method")
Connection == ListOf("option")
ContentEncoding == ListOf("encoding")
ContentLanguage == WeightedListOf("language")
ContentLocation == Single("text")
ContentType == Single("mime")
Date == Single("date")
ETag == Single("entity tag")
Expires == Single("date")
From == Single("text")
IfMatch == AnyOrListOf("entity tag")
IfModifiedSince == Single("date")
IfNoneMatch == AnyOrListOf("entity tag")
IfUnmodifiedSince == Single("date")
LastModified == Single("date")
Location == Single("text")
Referer == Single("text")
Server == Single("text")
Te == WeightedListOf("encoding")
TransferEncoding == ListOf("encoding")
Upgrade == ListOf("protocol")
UserAgent == Single("text")
Vary == AnyOrListOf("name")

MacroHeaders ==
    Table({<<"Accept", Accept>>, <<"Accept-Charset", AcceptCharset>>,
           <<"Accept-Encoding", AcceptEncoding>>, <<"Accept-Language", AcceptLanguage>>,
           <<"Accept-Ranges", AcceptRanges>>,
           <<"Access-Control-Allow-Headers", AccessControlAllowHeaders>>,
           <<"Access-Control-Allow-Methods", AccessControlAllowMethods>>,
           <<"Access-Control-Expose-Headers", AccessControlExposeHeaders>>,
           <<"Access-Control-Max-Age", AccessControlMaxAge>>,
           <<"Access-Control-Request-Headers", AccessControlRequestHeaders>>,
           <<"Access-Control-Request-Method", AccessControlRequestMethod>>, <<"Allow", Allow>>,
           <<"Connection", Connection>>, <<"Content-Encoding", ContentEncoding>>,
           <<"Content-Language", ContentLanguage>>, <<"Content-Location", ContentLocation>>,
           <<"Content-Type", ContentType>>, <<"Date", Date>>, <<"ETag", ETag>>,
           <<"Expires", Expires>>, <<"From", From>>, <<"If-Match", IfMatch>>,
           <<"If-Modified-Since", IfModifiedSince>>, <<"If-None-Match", IfNoneMatch>>,
           <<"If-Unmodified-Since", IfUnmodifiedSince>>, <<"Last-Modified", LastModified>>,
           <<"Location", Location>>, <<"Referer", Referer>>, <<"Server", Server>>, <<"TE", Te>>,
           <<"Transfer-Encoding", TransferEncoding>>, <<"Upgrade", Upgrade>>,
           <<"User-Agent", UserAgent>>, <<"Vary", Vary>>})

-----------------------------------------------------------------------------
\* A piece that is not an item is left out of the list, without an error.
ParseListed(header, lines) ==
    LET pieces == CommaDelimited(lines)
        Read(t) == IF header.weighted THEN ParseQualityItem(header.item, t)
                   ELSE ParseItem(header.item, t)
    IN  IF pieces.ok THEN Ok(Oks([i \in DOMAIN pieces.val |-> Read(pieces.val[i])])) ELSE Err

ParseOne(header, lines) ==
    LET text == OneRawStr(lines) IN IF text.ok THEN ParseItem(header.item, text.val) ELSE Err

\* Only a line that is "*" and nothing else, no blank even, is Any.
AnyLine == <<"*">>
ParseAnyOr(header, lines) ==
    LET items == ParseListed(header, lines)
    IN  IF lines = <<AnyLine>> THEN Ok([any |-> TRUE, items |-> <<>>])
        ELSE IF items.ok THEN Ok([any |-> FALSE, items |-> items.val])
        ELSE Err

ParseMacro(header, lines) ==
    CASE header.grammar = "list" -> ParseListed(header, lines)
      [] header.grammar = "single" -> ParseOne(header, lines)
      [] header.grammar = "any" -> ParseAnyOr(header, lines)

PrintListed(header, items) ==
    FmtCommaDelimited([i \in DOMAIN items |->
        IF header.weighted THEN PrintQualityItem(header.item, items[i])
        ELSE PrintItem(header.item, items[i])])

PrintMacro(header, v) ==
    CASE header.grammar = "list" -> PrintListed(header, v)
      [] header.grammar = "single" -> PrintItem(header.item, v)
      [] header.grammar = "any" -> IF v.any THEN AnyLine ELSE PrintListed(header, v.items)
=============================================================================
