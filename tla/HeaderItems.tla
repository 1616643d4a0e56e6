----------------------------- MODULE HeaderItems -----------------------------
(***************************************************************************)
(* The items hyperx's list headers are made of (header/shared, method.rs   *)
(* and the enums beside single headers): how each is read from a trimmed   *)
(* piece of a line and how it is printed.                                  *)
(*                                                                         *)
(* An enum with a variant for "any other text" is [known, text]: known     *)
(* tells the variants that are keywords from the one that holds the text.  *)
(***************************************************************************)
EXTENDS HeaderText

Keyword(keywords, t) == [known |-> Len(t) = 1 /\ t[1] \in keywords, text |-> t]

Encoding(t) == Keyword({"chunked", "br", "deflate", "gzip", "compress", "identity", "trailers"}, t)
RangeUnit(t) == Keyword({"bytes", "none"}, t)
Charset(t) ==
    Keyword({"US-ASCII", "ISO-8859-1", "ISO-8859-5", "EUC-JP", "GB2312", "5", "KOI8-R"},
            ParseCharset(t))
Methods == {"GET", "PUT", "HEAD", "POST", "PATCH", "TRACE", "DELETE", "OPTIONS", "CONNECT"}
ParseMethod(t) == OkIf(t # <<>>, Keyword(Methods, t))

\* keep-alive and close are recognised in any case, and lose it.
ConnectionOption(t) ==
    LET option == Keyword({"keep-alive", "close"}, Lower(t))
    IN  IF option.known THEN option ELSE [known |-> FALSE, text |-> t]

\* A protocol's name, with its version after the first slash.
ProtocolName(t) ==
    IF Lower(t) = <<"websocket">> THEN [known |-> TRUE, text |-> Lower(t)]
    ELSE Keyword({"HTTP", "TLS", "h2c"}, t)
Protocol(t) ==
    LET parts == SplitFirst(t, "/")
    IN  [name |-> ProtocolName(parts[1]), version |-> Tail(parts)]
PrintProtocol(p) ==
    p.name.text \o IF p.version = <<>> THEN <<>> ELSE <<"/">> \o p.version[1]

-----------------------------------------------------------------------------
(* Entity tags.                                                            *)

\* No blank, no quote and no control character; anything from x80 on is allowed.
CheckSliceValidity(t) == ToSet(t) \cap {" ", Quote, NewLine} = {}

ParseEntityTag(t) ==
    LET end == Len(t)
        opaque == SubSeq(t, 2, end - 1)
    IN  IF ShorterThanTwo(t) \/ t[end] # Quote THEN Err
        ELSE IF t[1] = Quote /\ end >= 2 /\ CheckSliceValidity(opaque)
             THEN Ok([weak |-> FALSE, tag |-> opaque])
        ELSE IF end >= 4 /\ SubSeq(t, 1, 3) = <<"W", "/", Quote>>
                /\ CheckSliceValidity(SubSeq(t, 4, end - 1))
             THEN Ok([weak |-> TRUE, tag |-> SubSeq(t, 4, end - 1)])
        ELSE Err
PrintEntityTag(e) ==
    (IF e.weak THEN <<"W", "/">> ELSE <<>>) \o <<Quote>> \o e.tag \o <<Quote>>

\* Mutant: weak tags match like strong ones.
StrongEq_Opaque(e, f) == e.tag = f.tag
StrongEq(e, f) == ~e.weak /\ ~f.weak /\ e.tag = f.tag
WeakEq(e, f) == e.tag = f.tag

-----------------------------------------------------------------------------
(* Weights: thousandths, 0 to 1000.                                        *)

\* 0.5, 0.05, 0.532: three digits without the zeros at the end.
WeightText ==
    [k \in 0..1000 |->
        CASE k = 0 -> "0"
          [] k = 1000 -> "1"
          [] OTHER -> LET d == ToString(k \div 100)
                          e == ToString((k \div 10) % 10)
                          f == ToString(k % 10)
                      IN  "0." \o (IF k % 100 = 0 THEN d ELSE IF k % 10 = 0 THEN d \o e ELSE d \o e \o f)]
WeightWritten == [s \in {WeightText[k] : k \in 0..1000} |-> CHOOSE k \in 0..1000 : WeightText[k] = s]
                 @@ "1.0" :> 1000 @@ "0.50" :> 500 @@ "0.0" :> 0

\* The single-precision number nearest to k / 1000 is rounded to 24 binary digits. When it lies
\* below, by d / 1000 of its last digit, and 1000 times it does not round up to k again,
\* from_f32 cuts it down to k - 1: 2^-(e+1) <= k/1000 < 2^-e, 2^j < k <= 2^(j+1).
FallsShort(k) ==
    LET e == CHOOSE x \in 0..9 : k * 2^x < 1000 /\ 1000 <= k * 2^(x + 1)
        j == CHOOSE x \in 0..9 : 2^x < k /\ k <= 2^(x + 1)
        d == (k * 216 * 2^e) % 1000            \* 216 = 2^24 % 1000
    IN  d < 500 /\ d > 2^(e + j)
\* Mutant: two digits are kept.
FromF32_TwoDigits == [k \in 0..1000 |-> IF k % 10 = 0 THEN k ELSE k - 1]
FromF32 == [k \in 0..1000 |-> IF 1 < k /\ k < 1000 /\ FallsShort(k) THEN k - 1 ELSE k]

\* What is before the last ";" and what is after it, when that is a weight.
WithWeight(t, item, last) ==
    LET weight == SubSeq(last, 3, Len(last))
    IN  IF ShorterThanTwo(last) THEN Err
        ELSE IF SubSeq(last, 1, 2) \notin {<<"q", "=">>, <<"Q", "=">>}
             THEN Ok([item |-> t, weight |-> 1000])
        ELSE IF Len(weight) = 1 /\ weight[1] \in DOMAIN WeightWritten
             THEN Ok([item |-> item, weight |-> FromF32[WeightWritten[weight[1]]]])
        ELSE Err
QualityParts(t) ==
    LET parts == SplitLast(t, ";")
    IN  IF ~IsAscii(t) THEN Err
        ELSE IF Len(parts) = 1 THEN Ok([item |-> t, weight |-> 1000])
        ELSE WithWeight(t, Trim(parts[1]), Trim(parts[2]))

PrintQuality(k) == IF k = 1000 THEN <<>> ELSE <<";", " ", "q", "=", WeightText[k]>>

-----------------------------------------------------------------------------
(* Reading and printing by kind.                                           *)

ParseItem(kind, t) ==
    CASE kind = "encoding" -> Ok(Encoding(t))
      [] kind = "charset" -> Ok(Charset(t))
      [] kind = "range unit" -> Ok(RangeUnit(t))
      [] kind = "option" -> Ok(ConnectionOption(t))
      [] kind = "protocol" -> Ok(Protocol(t))
      [] kind = "method" -> ParseMethod(t)
      [] kind = "language" -> ParseLanguage(t)
      [] kind = "mime" -> ParseMime(t)
      [] kind = "date" -> ParseDate(t)
      [] kind = "entity tag" -> ParseEntityTag(t)
      [] kind = "seconds" -> ParseNumber(t)
      [] kind \in {"name", "text"} -> Ok(t)

PrintItem(kind, v) ==
    CASE kind \in {"encoding", "charset", "range unit", "option", "method"} -> v.text
      [] kind = "protocol" -> PrintProtocol(v)
      [] kind = "date" -> PrintDate(v)
      [] kind = "entity tag" -> PrintEntityTag(v)
      [] kind = "seconds" -> Numeral(v)
      [] kind \in {"language", "mime", "name", "text"} -> v

ParseQualityItem(kind, t) ==
    LET parts == QualityParts(t)
        item == ParseItem(kind, parts.val.item)
    IN  IF ~parts.ok \/ ~item.ok THEN Err
        ELSE Ok([item |-> item.val, quality |-> parts.val.weight])
PrintQualityItem(kind, v) == PrintItem(kind, v.item) \o PrintQuality(v.quality)
=============================================================================
