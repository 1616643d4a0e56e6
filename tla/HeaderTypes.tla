---------------------------- MODULE HeaderTypes ----------------------------
(***************************************************************************)
(* Header::parse_header and Header::fmt_header of every header. A header   *)
(* goes by its name, with its Rust type where one name has several.        *)
(***************************************************************************)
EXTENDS HeaderLists, HeaderFields, HeaderRanges, HeaderLinks

Schemes == Table({<<"Authorization<String>", "String">>, <<"Authorization<Basic>", "Basic">>,
                  <<"Authorization<Bearer>", "Bearer">>})
ProxySchemes == Table({<<"ProxyAuthorization<String>", "String">>, <<"ProxyAuthorization<Basic>", "Basic">>,
                       <<"ProxyAuthorization<Bearer>", "Bearer">>})

HeaderNames ==
    DOMAIN MacroHeaders \union DOMAIN Schemes \union DOMAIN ProxySchemes
    \union {"Access-Control-Allow-Credentials", "Access-Control-Allow-Origin", "Cache-Control",
            "Content-Disposition", "Content-Length", "Content-Range", "Cookie", "Expect", "Host",
            "If-Range", "Last-Event-ID", "Link", "Origin", "Pragma", "Prefer", "Preference-Applied",
            "Range", "Referrer-Policy", "Retry-After", "Set-Cookie", "Strict-Transport-Security",
            "Warning"}

ParseHeader(name, lines) ==
    CASE name \in DOMAIN MacroHeaders -> ParseMacro(MacroHeaders[name], lines)
      [] name \in DOMAIN Schemes -> ParseAuthorization(Schemes[name], lines)
      [] name \in DOMAIN ProxySchemes -> ParseProxyAuthorization(ProxySchemes[name], lines)
      [] name = "Access-Control-Allow-Credentials" -> ParseAllowCredentials(lines)
      [] name = "Access-Control-Allow-Origin" -> ParseAllowOrigin(lines)
      [] name = "Cache-Control" -> ParseCacheControl(lines)
      [] name = "Content-Disposition" -> ParseContentDisposition(lines)
      [] name = "Content-Length" -> ParseContentLength(lines)
      [] name = "Content-Range" -> ParseContentRange(lines)
      [] name = "Cookie" -> ParseCookie(lines)
      [] name = "Expect" -> ParseExpect(lines)
      [] name = "Host" -> ParseHost(lines)
      [] name = "If-Range" -> ParseIfRange(lines)
      [] name = "Last-Event-ID" -> ParseLastEventId(lines)
      [] name = "Link" -> ParseLink(lines)
      [] name = "Origin" -> ParseOrigin(lines)
      [] name = "Pragma" -> ParsePragma(lines)
      [] name \in {"Prefer", "Preference-Applied"} -> ParsePrefer(lines)
      [] name = "Range" -> ParseRange(lines)
      [] name = "Referrer-Policy" -> ParseReferrerPolicy(lines)
      [] name = "Retry-After" -> ParseRetryAfter(lines)
      [] name = "Set-Cookie" -> ParseSetCookie(lines)
      [] name = "Strict-Transport-Security" -> ParseHsts(lines)
      [] name = "Warning" -> ParseWarning(lines)

PrintedText(name, v) ==
    CASE name \in DOMAIN MacroHeaders -> PrintMacro(MacroHeaders[name], v)
      [] name \in DOMAIN Schemes -> PrintAuthorization(Schemes[name], v)
      [] name \in DOMAIN ProxySchemes -> PrintProxyAuthorization(ProxySchemes[name], v)
      [] name = "Cache-Control" -> PrintCacheControl(v)
      [] name = "Content-Disposition" -> PrintContentDisposition(v)
      [] name = "Content-Length" -> Numeral(v)
      [] name = "Content-Range" -> PrintContentRange(v)
      [] name = "Cookie" -> PrintCookie(v)
      [] name = "Host" -> PrintHost(v)
      [] name = "If-Range" -> PrintIfRange(v)
      [] name = "Link" -> PrintLink(v)
      [] name = "Origin" -> PrintOrigin(v)
      [] name = "Prefer" -> PrintPrefer(v)
      [] name = "Preference-Applied" -> PrintPreferenceApplied(v)
      [] name = "Range" -> PrintRange(v)
      [] name = "Retry-After" -> PrintRetryAfter(v)
      [] name = "Strict-Transport-Security" -> PrintHsts(v)
      [] name = "Warning" -> PrintWarning(v)
      [] OTHER -> v

\* Formatting a value may fail, which is a panic where the text is needed.
CanPrint(name, v) == name = "Content-Disposition" => DispositionPrints(v)

\* Every header is one line, but for Set-Cookie, and no line break is left in it.
PrintHeader(name, v) ==
    IF name = "Set-Cookie" THEN [i \in DOMAIN v |-> NewlineReplaced(v[i])]
    ELSE <<NewlineReplaced(PrintedText(name, v))>>
=============================================================================
