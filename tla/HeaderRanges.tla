----------------------------- MODULE HeaderRanges -----------------------------
(***************************************************************************)
(* Range and Content-Range, and the ranges of a representation a server    *)
(* can serve (header/common/range.rs and content_range.rs).                *)
(***************************************************************************)
EXTENDS HeaderText

FromTo(from, to) == [kind |-> "from to", from |-> from, to |-> to]
AllFrom(from) == [kind |-> "all from", from |-> from]
LastBytes(count) == [kind |-> "last", count |-> count]

\* Mutant: the last position is one too high.
ToSatisfiableRange_Length(spec, full) ==
    IF full = 0 THEN <<>>
    ELSE CASE spec.kind = "from to" ->
                IF spec.from < full /\ spec.from <= spec.to
                THEN <<spec.from, IF spec.to < full THEN spec.to ELSE full>> ELSE <<>>
           [] spec.kind = "all from" ->
                IF spec.from < full THEN <<spec.from, full - 1>> ELSE <<>>
           [] spec.kind = "last" ->
                IF spec.count = 0 THEN <<>>
                ELSE IF spec.count > full THEN <<0, full - 1>>
                ELSE <<full - spec.count, full - 1>>
\* The positions from and to, if there is a byte to serve; <<>> otherwise.
ToSatisfiableRange(spec, full) ==
    IF full = 0 THEN <<>>
    ELSE CASE spec.kind = "from to" ->
                IF spec.from < full /\ spec.from <= spec.to
                THEN <<spec.from, IF spec.to < full - 1 THEN spec.to ELSE full - 1>> ELSE <<>>
           [] spec.kind = "all from" ->
                IF spec.from < full THEN <<spec.from, full - 1>> ELSE <<>>
           [] spec.kind = "last" ->
                IF spec.count = 0 THEN <<>>
                ELSE IF spec.count > full THEN <<0, full - 1>>
                ELSE <<full - spec.count, full - 1>>

\* Cut at the first dash: 1-2, 1- or -2.
ParseByteRangeSpec(t) ==
    LET parts == SplitFirst(t, "-")
        from == ParseNumber(parts[1])
        to == ParseNumber(parts[2])
    IN  IF Len(parts) < 2 THEN Err
        ELSE IF parts[1] = <<>> THEN IF to.ok THEN Ok(LastBytes(to.val)) ELSE Err
        ELSE IF parts[2] = <<>> THEN IF from.ok THEN Ok(AllFrom(from.val)) ELSE Err
        ELSE IF from.ok /\ to.ok /\ from.val <= to.val THEN Ok(FromTo(from.val, to.val))
        ELSE Err

PrintByteRangeSpec(spec) ==
    CASE spec.kind = "from to" -> Numeral(spec.from) \o <<"-">> \o Numeral(spec.to)
      [] spec.kind = "all from" -> Numeral(spec.from) \o <<"-">>
      [] spec.kind = "last" -> <<"-">> \o Numeral(spec.count)

\* Specs that cannot be read are left out, as long as one can be.
ParseRange(lines) ==
    LET text == OneRawStr(lines)
        parts == SplitFirst(text.val, "=")
        pieces == CommaDelimited(<<parts[2]>>).val
        specs == Oks([i \in DOMAIN pieces |-> ParseByteRangeSpec(pieces[i])])
    IN  IF ~text.ok \/ Len(parts) < 2 THEN Err
        ELSE IF parts[1] = <<"bytes">>
             THEN OkIf(specs # <<>>, [unit |-> parts[1], specs |-> specs])
        ELSE OkIf(parts[1] # <<>> /\ parts[2] # <<>>, [unit |-> parts[1], range |-> parts[2]])

PrintRange(r) ==
    r.unit \o <<"=">> \o
        IF r.unit = <<"bytes">>
        THEN Joined([i \in DOMAIN r.specs |-> PrintByteRangeSpec(r.specs[i])], <<",">>)
        ELSE r.range

-----------------------------------------------------------------------------
\* bytes 0-4/5, bytes 0-4/*, bytes */5; or another unit and any text.
BytesRange(range, length) == [unit |-> <<"bytes">>, range |-> range, length |-> length]

ParseBytesRange(t) ==
    LET parts == SplitFirst(t, "/")
        ends == SplitFirst(parts[1], "-")
        first == ParseNumber(ends[1])
        last == ParseNumber(ends[2])
        length == ParseNumber(parts[2])
        known == IF parts[2] = <<"*">> THEN <<>> ELSE <<length.val>>
    IN  IF Len(parts) < 2 \/ (parts[2] # <<"*">> /\ ~length.ok) THEN Err
        ELSE IF parts[1] = <<"*">> THEN Ok(BytesRange(<<>>, known))
        ELSE OkIf(Len(ends) = 2 /\ first.ok /\ last.ok /\ first.val <= last.val,
                  BytesRange(<<first.val, last.val>>, known))

ParseContentRange(lines) ==
    LET text == OneRawStr(lines)
        parts == SplitFirst(text.val, " ")
    IN  IF ~text.ok \/ Len(parts) < 2 THEN Err
        ELSE IF parts[1] = <<"bytes">> THEN ParseBytesRange(parts[2])
        ELSE Ok([unit |-> parts[1], resp |-> parts[2]])

PrintContentRange(c) ==
    c.unit \o <<" ">> \o
        IF c.unit # <<"bytes">> THEN c.resp
        ELSE (IF c.range = <<>> THEN <<"*">> ELSE Numeral(c.range[1]) \o <<"-">> \o Numeral(c.range[2]))
             \o <<"/">> \o (IF c.length = <<>> THEN <<"*">> ELSE Numeral(c.length[1]))
=============================================================================
