----------------------------- MODULE HeaderText -----------------------------
(***************************************************************************)
(* The text of header lines, and the helpers with which hyperx's header    *)
(* types read and print it (header/parsing.rs).                            *)
(*                                                                         *)
(* A text is a sequence of tokens: a word, a number or a date is one token *)
(* and so is every character some parser looks for, a blank among them.    *)
(* Reading a text yields Ok(value) or Err; an optional part of a value is  *)
(* a sequence of at most one element.                                      *)
(***************************************************************************)
EXTENDS Naturals, Sequences, SequencesExt, FiniteSetsExt, TLC

Err == [ok |-> FALSE]
Ok(v) == [ok |-> TRUE, val |-> v]
OkIf(test, v) == IF test THEN Ok(v) ELSE Err

\* The k-th of a set of numbers, in their order.
Kth(numbers, k) == CHOOSE i \in numbers : Cardinality({j \in numbers : j < i}) = k - 1

\* The elements of s at the places of a set, in their order.
ElementsAt(s, places) == [k \in 1..Cardinality(places) |-> s[Kth(places, k)]]

\* The values of those results that are not errors, in order.
Oks(results) ==
    LET good == ElementsAt(results, {i \in DOMAIN results : results[i].ok})
    IN  [i \in DOMAIN good |-> good[i].val]

-----------------------------------------------------------------------------
(* Tokens that are more than a word.                                       *)

Quote == "DQ"           \* the character "
Quoted(t) == <<Quote>> \o t \o <<Quote>>
NewLine == "<lf>"
NotUtf8 == "<ff>"       \* a byte that no UTF-8 text holds
NotAscii == "<pound>"   \* a character that is UTF-8 but not ASCII

IsUtf8(t) == NotUtf8 \notin ToSet(t)
IsAscii(t) == {NotUtf8, NotAscii} \cap ToSet(t) = {}

\* Texts of less than two bytes; a token that is not listed is longer.
OneByte == {" ", ",", ";", "=", "/", "*", "'", ":", "-", Quote, "a", "b", "q", "W", "5"}
ShorterThanTwo(t) == Len(t) = 0 \/ (Len(t) = 1 /\ t[1] \in OneByte)

\* The function with these pairs of an argument and its value.
Table(rows) == [key \in {r[1] : r \in rows} |-> (CHOOSE r \in rows : r[1] = key)[2]]

\* The lower-case and upper-case forms of the words some parser compares without regard to case.
LowerOf ==
    Table({<<"Close", "close">>, <<"Keep-Alive", "keep-alive">>,
           <<"WEbSOCKet", "websocket">>, <<"No-Cache", "no-cache">>, <<"TRUE", "true">>,
           <<"Inline", "inline">>, <<"Rel", "rel">>, <<"FileName", "filename">>,
           <<"Max-Age", "max-age">>, <<"ETag", "etag">>,
           <<"includeSubDomains", "includesubdomains">>,
           <<"includeSubdomains", "includesubdomains">>, <<"Origin", "origin">>,
           <<"100-Continue", "100-continue">>, <<"Next", "next">>})
UpperOf == "us-ascii" :> "US-ASCII" @@ "iso-8859-5" :> "ISO-8859-5" @@ "utf-8" :> "UTF-8"
           @@ "abcd" :> "ABCD"
Cased(t, table) == [i \in DOMAIN t |-> IF t[i] \in DOMAIN table THEN table[t[i]] ELSE t[i]]
Lower(t) == Cased(t, LowerOf)
Upper(t) == Cased(t, UpperOf)

-----------------------------------------------------------------------------
(* Cutting and joining text, as str::trim, trim_matches, split, splitn and *)
(* rsplitn do.                                                             *)

TrimAll(t, tokens) ==
    LET kept == {i \in DOMAIN t : t[i] \notin tokens}
    IN  IF kept = {} THEN <<>> ELSE SubSeq(t, Min(kept), Max(kept))
Trim(t) == TrimAll(t, {" ", NewLine})
TrimQuotes(t) == TrimAll(t, {Quote})

Places(t, token) == {i \in DOMAIN t : t[i] = token}

\* The pieces of t between the places of a set.
CutAt(t, places) ==
    LET pieces == Cardinality(places) + 1
        End(k) == IF k = 0 THEN 0 ELSE IF k = pieces THEN Len(t) + 1 ELSE Kth(places, k)
    IN  [k \in 1..pieces |-> SubSeq(t, End(k - 1) + 1, End(k) - 1)]
Split(t, token) == CutAt(t, Places(t, token))

\* splitn(2): the text before the first place of the token and the rest, or the text alone.
SplitFirst(t, token) ==
    LET at == Places(t, token) IN CutAt(t, IF at = {} THEN {} ELSE {Min(at)})
\* rsplitn(2), in the order of the text.
SplitLast(t, token) ==
    LET at == Places(t, token) IN CutAt(t, IF at = {} THEN {} ELSE {Max(at)})

Joined(texts, separator) ==
    FlattenSeq([i \in DOMAIN texts |-> IF i = 1 THEN texts[i] ELSE separator \o texts[i]])

-----------------------------------------------------------------------------
(* Numbers. The numerals the model knows are those of Numbers; of the      *)
(* numerals too large for every integer type there is one.                 *)

Numbers == 0..40 \union {80, 99, 100, 112, 199, 200, 299, 300, 443, 499, 500, 531, 600, 999, 1234,
                         3495, 8080, 65535, 65536, 15768000, 31536000}
TooLarge == "18446744073709551616"
MaxU16 == 65535
NumberOf == [s \in {ToString(n) : n \in Numbers} |-> CHOOSE n \in Numbers : ToString(n) = s]
Numeral(n) == <<ToString(n)>>
\* Numerals are different for different numbers, and no numeral is a token that parsers look for.
ASSUME NumeralsAssumption ==
    /\ \A m, n \in Numbers : ToString(m) = ToString(n) => m = n
    /\ {ToString(n) : n \in Numbers} \cap {" ", ",", "-", "/", "*", "=", "bytes", NewLine, NotUtf8} = {}

\* str::parse of an unsigned integer: digits, after a plus sign or alone.
ParseNumber(t) ==
    IF Len(t) = 1 /\ t[1] \in DOMAIN NumberOf THEN Ok(NumberOf[t[1]])
    ELSE IF Len(t) = 2 /\ t[1] = "+" /\ t[2] \in DOMAIN NumberOf THEN Ok(NumberOf[t[2]])
    ELSE Err
ParseU16(t) == LET n == ParseNumber(t) IN IF n.ok /\ n.val <= MaxU16 THEN n ELSE Err

-----------------------------------------------------------------------------
(* What the crates language_tags, mime and httpdate accept.                *)

LanguageTags == {"en", "da", "de", "fr", "mi", "en-US", "en-gb"}
MediaTypes == {<<m>> : m \in {"text/html", "text/plain", "audio/*", "audio/basic", "text/x-dvi", "text/x-c"}}
              \union {<<"text/plain", ";", " ", "charset", "=", "utf-8">>}
Dates == Table({<<"Sun, 06 Nov 1994 08:49:37 GMT", "06 Nov 1994">>, <<"Sunday, 06-Nov-94 08:49:37 GMT", "06 Nov 1994">>,
                <<"Sun Nov  6 08:49:37 1994", "06 Nov 1994">>, <<"Sat, 25 Aug 2012 23:34:45 GMT", "25 Aug 2012">>})
ImfDate == Table({<<"06 Nov 1994", "Sun, 06 Nov 1994 08:49:37 GMT">>, <<"25 Aug 2012", "Sat, 25 Aug 2012 23:34:45 GMT">>})

OneOf(t, tokens) == OkIf(Len(t) = 1 /\ t[1] \in tokens, t)
ParseLanguage(t) == OneOf(t, LanguageTags)
ParseMime(t) == OkIf(t \in MediaTypes, t)
ParseDate(t) == IF OneOf(t, DOMAIN Dates).ok THEN Ok(Dates[t[1]]) ELSE Err
PrintDate(date) == <<ImfDate[date]>>

-----------------------------------------------------------------------------
(* header/parsing.rs: lines to texts and back. raw.one() is a header of    *)
(* exactly one line.                                                       *)

\* The text from_one_raw_str hands to from_str, if the header has one line that is not empty.
OneRawStr(lines) ==
    OkIf(Len(lines) = 1 /\ lines[1] # <<>> /\ IsUtf8(lines[1]), Trim(lines[1]))

\* Mutant: only the first line is read.
CommaDelimited_FirstLine(lines) ==
    LET pieces == Split(lines[1], ",")
        texts == [k \in DOMAIN pieces |-> Trim(pieces[k])]
    IN  OkIf(\A i \in DOMAIN lines : IsUtf8(lines[i]),
             ElementsAt(texts, {k \in DOMAIN texts : texts[k] # <<>>}))
\* The texts from_comma_delimited hands to from_str: all the lines must be UTF-8.
CommaDelimited(lines) ==
    LET pieces == FlattenSeq([i \in DOMAIN lines |-> Split(lines[i], ",")])
        texts == [k \in DOMAIN pieces |-> Trim(pieces[k])]
    IN  OkIf(\A i \in DOMAIN lines : IsUtf8(lines[i]),
             ElementsAt(texts, {k \in DOMAIN texts : texts[k] # <<>>}))
FmtCommaDelimited(texts) == Joined(texts, <<",", " ">>)

\* Mutant: line breaks are written as they are.
NewlineReplaced_Kept(t) == t
\* fmt_line: what a header's text becomes on the wire.
NewlineReplaced(t) == [i \in DOMAIN t |-> IF t[i] = NewLine THEN " " ELSE t[i]]

-----------------------------------------------------------------------------
(* Extended values, charset'language'percent-encoded.                      *)

PercentEncoded ==
    " " :> "%20" @@ Quote :> "%22" @@ "%" :> "%25" @@ "'" :> "%27" @@ "*" :> "%2A" @@ "," :> "%2C" @@ "/" :> "%2F"
    @@ ":" :> "%3A" @@ ";" :> "%3B" @@ "<" :> "%3C" @@ "-" :> "%2D" @@ ">" :> "%3E"
    @@ NotAscii :> "%C2%A3" @@ NotUtf8 :> "%FF" @@ NewLine :> "%0A"
PercentDecoded ==
    [x \in {PercentEncoded[c] : c \in DOMAIN PercentEncoded} |->
        CHOOSE c \in DOMAIN PercentEncoded : PercentEncoded[c] = x] @@ "%c2%a3" :> NotAscii
HttpPercentEncode(t) == Cased(t, PercentEncoded)
PercentDecode(t) == Cased(t, PercentDecoded)

\* A charset is upper-cased when it is read; every name is one, known or not.
ParseCharset(t) == Upper(t)

ParseExtendedValue(t) ==
    LET quotes == Places(t, "'")
        parts == CutAt(t, {i \in quotes : Cardinality({j \in quotes : j < i}) < 2})
        language == parts[2]
    IN  IF Len(parts) < 3 \/ (language # <<>> /\ ~ParseLanguage(language).ok) THEN Err
        ELSE Ok([charset |-> ParseCharset(parts[1]),
                 language |-> IF language = <<>> THEN <<>> ELSE <<language>>,
                 bytes |-> PercentDecode(parts[3])])
PrintExtendedValue(v) ==
    v.charset \o <<"'">> \o FlattenSeq(v.language) \o <<"'">> \o HttpPercentEncode(v.bytes)
=============================================================================
