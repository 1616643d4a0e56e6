----------------------------- MODULE HeaderLinks -----------------------------
(***************************************************************************)
(* The Link header (header/common/link.rs): links, each with attributes.   *)
(* A link value is [link, attrs]; attrs has a value for each attribute the *)
(* link has.                                                               *)
(***************************************************************************)
EXTENDS HeaderItems

Marks == {Quote, " ", NewLine}

RelationTypes ==
    {"alternate", "appendix", "bookmark", "chapter", "contents", "copyright", "current",
     "describedby", "edit", "edit-media", "enclosure", "first", "glossary", "help", "hub", "index",
     "last", "latest-version", "license", "next", "next-archive", "payment", "prev",
     "predecessor-version", "previous", "prev-archive", "related", "replies", "section", "self",
     "service", "start", "stylesheet", "subsection", "successor-version", "up", "version-history",
     "via", "working-copy", "working-copy-of"}
\* Recognised in any case, and written in lower case.
RelationType(t) == IF Keyword(RelationTypes, Lower(t)).known THEN Keyword(RelationTypes, Lower(t))
                   ELSE [known |-> FALSE, text |-> t]
MediaDesc(t) ==
    Keyword({"screen", "tty", "tv", "projection", "handheld", "print", "braille", "aural", "all"}, t)

\* What is between the marks a text begins and ends with, without further marks or blanks.
VerifyAndTrim(t, open, close) ==
    OkIf(Len(t) > 1 /\ t[1] = open /\ t[Len(t)] = close, TrimAll(t, {open, close, " ", NewLine}))

\* Cut at every ";" and "," outside quotes; nothing follows a cut at the end.
SplitUnquoted(t) ==
    LET Outside(i) == Cardinality({j \in Places(t, Quote) : j < i}) % 2 = 0
        pieces == CutAt(t, {i \in Places(t, ";") \union Places(t, ",") : Outside(i)})
    IN  IF pieces[Len(pieces)] = <<>> THEN Front(pieces) ELSE pieces

-----------------------------------------------------------------------------
\* The first value of these stays, whatever a later one says.
FirstStays == {"rel", "rev", "media", "title", "title*", "type"}
AttributeNames == FirstStays \union {"anchor", "hreflang"}
AttributeOf(t) ==
    IF Lower(t) = <<"title", "*">> THEN "title*"
    ELSE IF Len(t) = 1 /\ Lower(t)[1] \in AttributeNames THEN Lower(t)[1]
    ELSE "unknown"

\* The value of an attribute, from the text after its "=".
ReadAttribute(name, t, attrs) ==
    LET between == VerifyAndTrim(Trim(t), Quote, Quote)
        Items(separator) == Split(TrimAll(t, Marks), separator)
    IN  CASE name \in {"rel", "rev"} ->
                Ok([i \in DOMAIN Items(" ") |-> RelationType(Trim(Items(" ")[i]))])
          [] name = "media" -> Ok([i \in DOMAIN Items(",") |-> MediaDesc(Trim(Items(",")[i]))])
          [] name \in {"anchor", "title"} -> between
          [] name = "title*" -> Ok(Trim(t))
          [] name = "type" -> IF between.ok THEN ParseMime(between.val) ELSE Err
          [] name = "hreflang" ->
                LET tag == ParseLanguage(Trim(t))
                    before == IF name \in DOMAIN attrs THEN attrs[name] ELSE <<>>
                IN  IF tag.ok THEN Ok(Append(before, tag.val)) ELSE Err

\* One segment between cuts: a link in angle brackets, or an attribute of the last link.
AddSegment(links, segment) ==
    LET t == Trim(segment)
        target == VerifyAndTrim(t, "<", ">")
        parts == SplitFirst(segment, "=")
        name == AttributeOf(Trim(parts[1]))
        last == links.val[Len(links.val)]
        value == ReadAttribute(name, parts[2], last.attrs)
    IN  IF ~links.ok THEN Err
        ELSE IF t # <<>> /\ t[1] = "<"
             THEN IF target.ok THEN Ok(Append(links.val, [link |-> target.val, attrs |-> <<>>])) ELSE Err
        ELSE IF links.val = <<>> \/ name = "unknown" THEN Err
        ELSE IF name \in FirstStays /\ name \in DOMAIN last.attrs THEN links
        ELSE IF Len(parts) < 2 \/ parts[2] = <<>> \/ ~value.ok THEN Err
        ELSE Ok([links.val EXCEPT ![Len(links.val)].attrs = name :> value.val @@ @])
LinksOf(t) == FoldLeft(AddSegment, Ok(<<>>), SplitUnquoted(t))

\* Every line is read on its own and all must be readable; their links are put together.
ParseLink(lines) ==
    LET links == [i \in DOMAIN lines |-> IF IsUtf8(lines[i]) THEN LinksOf(Trim(lines[i])) ELSE Err]
    IN  IF lines # <<>> /\ \A i \in DOMAIN links : links[i].ok THEN Ok(FlattenSeq(Oks(links))) ELSE Err

\* The attributes are written in one order, whatever the order they were read in.
PrintOrder == <<"rel", "anchor", "rev", "hreflang", "media", "title", "title*", "type">>
PrintAttribute(name, v) ==
    LET texts == [i \in DOMAIN v |-> v[i].text]
    IN  CASE name \in {"rel", "rev"} -> <<";", " ", name, "=">> \o Quoted(Joined(texts, <<" ">>))
          [] name = "media" -> <<";", " ", name, "=">> \o Quoted(Joined(texts, <<",", " ">>))
          [] name = "hreflang" ->
                FlattenSeq([i \in DOMAIN v |-> <<";", " ", name, "=">> \o v[i]])
          [] name = "title*" -> <<";", " ", "title", "*", "=">> \o v
          [] name \in {"anchor", "title", "type"} -> <<";", " ", name, "=">> \o Quoted(v)
PrintLinkValue(l) ==
    <<"<">> \o l.link \o <<">">> \o FlattenSeq(
        LET names == SelectSeq(PrintOrder, LAMBDA name : name \in DOMAIN l.attrs)
        IN  [i \in DOMAIN names |-> PrintAttribute(names[i], l.attrs[names[i]])])
PrintLink(links) == Joined([i \in DOMAIN links |-> PrintLinkValue(links[i])], <<",", " ">>)
=============================================================================
