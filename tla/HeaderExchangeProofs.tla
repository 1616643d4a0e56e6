------------------------ MODULE HeaderExchangeProofs ------------------------
(* Proofs about headers on their way, for text of any length. *)
EXTENDS HeaderExchangeProps, NumberSets, SequenceTheorems

-----------------------------------------------------------------------------
(* Text.                                                                   *)

(* A function of the numbers up to some length is a text.                   *)
LEMMA TextOf ==
    ASSUME NEW n \in Nat, NEW t, t = [i \in 1..n |-> t[i]]
    PROVE  IsText(t) /\ Len(t) = n /\ DOMAIN t = 1..n
<1>1. DOMAIN t = 1..n
  OBVIOUS
<1>2. \A i \in 1..n : t[i] \in ToSet(t)
  BY <1>1 DEF ToSet
<1>3. t \in [1..n -> ToSet(t)]
  BY <1>2
<1> QED
  BY <1>1, <1>3 DEF IsText

(* What is known of a text.                                                 *)
LEMMA TextIs ==
    ASSUME NEW t, IsText(t)
    PROVE  /\ Len(t) \in Nat
           /\ DOMAIN t = 1..Len(t)
           /\ t = [i \in 1..Len(t) |-> t[i]]
           /\ \A S : ToSet(t) \subseteq S => t \in Seq(S)
<1>1. t \in Seq(ToSet(t))
  BY DEF IsText
<1>2. Len(t) \in Nat /\ DOMAIN t = 1..Len(t) /\ t = [i \in 1..Len(t) |-> t[i]]
  BY <1>1
<1>3. ASSUME NEW S, ToSet(t) \subseteq S PROVE t \in Seq(S)
  <2> DEFINE T == ToSet(t)
  <2>1. t \in Seq(T) /\ T \subseteq S
    BY <1>1, <1>3
  <2> HIDE DEF T
  <2> QED
    BY <2>1
<1> QED
  BY <1>2, <1>3

(* The elements of a sequence over any set make it a text.                  *)
LEMMA SeqIsText ==
    ASSUME NEW S, NEW t \in Seq(S)
    PROVE  IsText(t)
BY TextOf

(* Two texts make a text.                                                   *)
LEMMA TextAfterText ==
    ASSUME NEW s, NEW t, IsText(s), IsText(t)
    PROVE  /\ IsText(s \o t)
           /\ Len(s \o t) = Len(s) + Len(t)
<1> DEFINE S == ToSet(s) \cup ToSet(t)
<1>1. s \in Seq(S) /\ t \in Seq(S)
  BY TextIs
<1> HIDE DEF S
<1>2. s \o t \in Seq(S) /\ Len(s \o t) = Len(s) + Len(t)
  BY <1>1
<1> QED
  BY <1>2, SeqIsText

(* A piece of whatever there is, between two places, is a text.            *)
LEMMA PieceIsText ==
    ASSUME NEW t, NEW m \in Int, NEW n \in Int
    PROVE  /\ IsText(SubSeq(t, m, n))
           /\ Len(SubSeq(t, m, n)) = IF m <= n THEN n - m + 1 ELSE 0
<1> DEFINE S == {t[i] : i \in m..n}
<1>1. \A i \in m..n : t[i] \in S
  OBVIOUS
<1> HIDE DEF S
<1>2. /\ SubSeq(t, m, n) \in Seq(S)
      /\ Len(SubSeq(t, m, n)) = IF m <= n THEN n - m + 1 ELSE 0
  BY <1>1, SubSeqProperties
<1> QED
  BY <1>2, SeqIsText

(* A text, changed place by place, is a text.                               *)
LEMMA ChangedText ==
    ASSUME NEW t, IsText(t), NEW u, u = [i \in DOMAIN t |-> u[i]]
    PROVE  IsText(u) /\ Len(u) = Len(t)
BY TextIs, TextOf

-----------------------------------------------------------------------------
(* Cutting, trimming and selecting.                                        *)

(* Every place in the order of a set of numbers is one of them.             *)
LEMMA KthIsMember ==
    ASSUME NEW S \in SUBSET Nat, IsFiniteSet(S), NEW k \in 1..Cardinality(S)
    PROVE  Kth(S, k) \in S
BY KthMember DEF Kth

(* The places of a text are finitely many.                                  *)
LEMMA PlacesAreFinite ==
    ASSUME NEW t, IsText(t), NEW S \in SUBSET DOMAIN t
    PROVE  S \in SUBSET Nat /\ IsFiniteSet(S) /\ Cardinality(S) \in Nat
<1>1. IsFiniteSet(DOMAIN t) /\ DOMAIN t \subseteq Nat
  BY TextIs, FS_Interval
<1> QED
  BY <1>1, FS_Subset, FS_CardinalityType

(* The pieces of a text are texts, one more than there are cuts.            *)
LEMMA PiecesAreTexts ==
    ASSUME NEW t, IsText(t), NEW places \in SUBSET DOMAIN t
    PROVE  /\ IsText(CutAt(t, places))
           /\ Len(CutAt(t, places)) = Cardinality(places) + 1
           /\ \A k \in 1..(Cardinality(places) + 1) : IsText(CutAt(t, places)[k])
<1> DEFINE pieces == Cardinality(places) + 1
           End(k) == IF k = 0 THEN 0 ELSE IF k = pieces THEN Len(t) + 1 ELSE Kth(places, k)
<1>1. places \in SUBSET Nat /\ IsFiniteSet(places) /\ pieces \in Nat \ {0}
      /\ Cardinality(places) \in Nat
  <2>1. places \in SUBSET Nat /\ IsFiniteSet(places) /\ Cardinality(places) \in Nat
    BY PlacesAreFinite
  <2> QED
    BY <2>1
<1>2. \A k \in 0..pieces : End(k) \in Int
  <2> SUFFICES ASSUME NEW k \in 0..pieces PROVE End(k) \in Int
    OBVIOUS
  <2>1. CASE k \in {0, pieces}
    BY <2>1, TextIs
  <2>2. CASE k \notin {0, pieces}
    <3>1. k \in 1..Cardinality(places)
      BY <1>1, <2>2
    <3> QED
      BY <1>1, <2>2, <3>1, KthIsMember
  <2> QED
    BY <2>1, <2>2
<1>3. CutAt(t, places) = [k \in 1..pieces |-> SubSeq(t, End(k - 1) + 1, End(k) - 1)]
  BY DEF CutAt
<1> HIDE DEF pieces, End
<1>4. \A k \in 1..pieces : IsText(CutAt(t, places)[k])
  <2> SUFFICES ASSUME NEW k \in 1..pieces PROVE IsText(CutAt(t, places)[k])
    OBVIOUS
  <2>1. End(k - 1) + 1 \in Int /\ End(k) - 1 \in Int
    BY <1>1, <1>2
  <2> QED
    BY <1>3, <2>1, PieceIsText
<1>5. IsText(CutAt(t, places)) /\ Len(CutAt(t, places)) = pieces
  BY <1>1, <1>3, TextOf
<1> QED
  BY <1>4, <1>5 DEF pieces

(* What is left of a text when its ends are trimmed is a text.              *)
LEMMA TrimmedIsText ==
    ASSUME NEW t, IsText(t), NEW tokens
    PROVE  IsText(TrimAll(t, tokens))
<1> DEFINE kept == {i \in DOMAIN t : t[i] \notin tokens}
<1>1. CASE kept = {}
  BY <1>1, SeqIsText, EmptySeq DEF TrimAll
<1>2. CASE kept # {}
  <2>1. Min(kept) \in Int /\ Max(kept) \in Int
    BY <1>2, PlacesAreFinite, LeastMember, GreatestMember
  <2>2. TrimAll(t, tokens) = SubSeq(t, Min(kept), Max(kept))
    BY <1>2 DEF TrimAll
  <2> QED
    BY <2>1, <2>2, PieceIsText
<1> QED
  BY <1>1, <1>2

(* The selected elements of a text are as many as their places.             *)
LEMMA SelectedAreText ==
    ASSUME NEW t, IsText(t), NEW places \in SUBSET DOMAIN t
    PROVE  /\ IsText(ElementsAt(t, places))
           /\ Len(ElementsAt(t, places)) = Cardinality(places)
           /\ \A k \in 1..Cardinality(places) : \E i \in places : ElementsAt(t, places)[k] = t[i]
<1>1. places \in SUBSET Nat /\ IsFiniteSet(places) /\ Cardinality(places) \in Nat
  BY PlacesAreFinite
<1>2. ElementsAt(t, places) = [k \in 1..Cardinality(places) |-> t[Kth(places, k)]]
  BY DEF ElementsAt
<1>3. \A k \in 1..Cardinality(places) : Kth(places, k) \in places
  BY <1>1, KthIsMember
<1>4. IsText(ElementsAt(t, places)) /\ Len(ElementsAt(t, places)) = Cardinality(places)
  BY <1>1, <1>2, TextOf
<1> QED
  BY <1>2, <1>3, <1>4

-----------------------------------------------------------------------------
(* Joining.                                                                *)

(* Texts one after the other make a text.                                   *)
LEMMA FlatIsText ==
    ASSUME NEW texts, IsText(texts), \A i \in 1..Len(texts) : IsText(texts[i])
    PROVE  IsText(FlattenSeq(texts))
<1> DEFINE n == Len(texts)
           Step(g, i) == IF i = 1 THEN texts[i] ELSE g[i - 1] \o texts[i]
           flat == CHOOSE g : g = [i \in 1..n |-> Step(g, i)]
<1>1. n \in Nat
  BY TextIs
<1>2. CASE n = 0
  BY <1>2 DEF FlattenSeq
<1>3. CASE n # 0
  <2> HIDE DEF n
  <2> DEFINE Has(m) == \E g : g = [i \in 1..m |-> Step(g, i)]
             Missing == {m \in 1..n : ~Has(m)}
             Untyped == {i \in 1..n : ~IsText(flat[i])}
  <2>1. Missing = {}
    <3> SUFFICES ASSUME Missing # {} PROVE FALSE
      OBVIOUS
    <3>1. Missing \subseteq Nat
      <4> HIDE DEF Has
      <4> QED
        BY <1>1
    <3>2. PICK m \in Missing : \A k \in Missing : m <= k
      <4> HIDE DEF Missing
      <4> QED
        BY <3>1, LeastMember
    <3>3. m \in 1..n /\ ~Has(m)
      OBVIOUS
    <3>4. CASE m = 1
      <4> DEFINE g == [i \in 1..m |-> texts[1]]
      <4>1. g = [i \in 1..m |-> Step(g, i)]
        BY <3>4
      <4> QED
        BY <3>3, <4>1
    <3>5. CASE m # 1
      <4>1. m - 1 \in 1..n /\ ~(m <= m - 1)
        BY <1>1, <3>3, <3>5
      <4>2. Has(m - 1)
        <5> HIDE DEF Has
        <5> QED
          BY <3>2, <4>1
      <4>3. PICK g : g = [i \in 1..(m - 1) |-> Step(g, i)]
        BY <4>2
      <4> DEFINE h == [i \in 1..m |-> IF i = m THEN g[m - 1] \o texts[m] ELSE g[i]]
      <4>4. ASSUME NEW i \in 1..m PROVE h[i] = Step(h, i)
        <5>1. CASE i = m
          <6>1. m - 1 \in 1..m /\ m - 1 # m
            BY <1>1, <3>3, <3>5
          <6>2. h[m] = g[m - 1] \o texts[m] /\ h[m - 1] = g[m - 1]
            BY <5>1, <6>1
          <6> HIDE DEF h
          <6> QED
            BY <3>5, <5>1, <6>2
        <5>2. CASE i # m
          <6>1. i \in 1..(m - 1)
            BY <3>3, <5>2
          <6>2. g[i] = Step(g, i)
            BY <4>3, <6>1
          <6>3. i # 1 => i - 1 \in 1..m /\ i - 1 # m /\ h[i - 1] = g[i - 1]
            BY <3>3, <6>1
          <6> QED
            BY <5>2, <6>2, <6>3
        <5> QED
          BY <5>1, <5>2
      <4>5. h = [i \in 1..m |-> Step(h, i)]
        <5> HIDE DEF Step
        <5> QED
          BY <4>4
      <4>6. Has(m)
        <5> HIDE DEF h, Step
        <5> QED
          BY <4>5
      <4> QED
        BY <3>3, <4>6
    <3> QED
      BY <3>4, <3>5
  <2>2. flat = [i \in 1..n |-> Step(flat, i)]
    <3>1. Has(n)
      <4> HIDE DEF Has
      <4> QED
        BY <1>1, <1>3, <2>1
    <3> HIDE DEF Step
    <3> QED
      BY <3>1
  <2>3. Untyped = {}
    <3> SUFFICES ASSUME Untyped # {} PROVE FALSE
      OBVIOUS
    <3>1. Untyped \subseteq Nat
      <4> HIDE DEF flat
      <4> QED
        BY <1>1
    <3>2. PICK i \in Untyped : \A k \in Untyped : i <= k
      <4> HIDE DEF Untyped
      <4> QED
        BY <3>1, LeastMember
    <3>3. i \in 1..n /\ ~IsText(flat[i])
      OBVIOUS
    <3>4. flat[i] = Step(flat, i) /\ IsText(texts[i])
      <4> HIDE DEF Step, flat
      <4> QED
        BY <2>2, <3>3 DEF n
    <3>5. CASE i = 1
      BY <3>3, <3>4, <3>5
    <3>6. CASE i # 1
      <4>1. i - 1 \in 1..n /\ ~(i <= i - 1)
        BY <1>1, <3>3, <3>6
      <4>2. IsText(flat[i - 1])
        <5> HIDE DEF flat
        <5> QED
          BY <3>2, <4>1
      <4>3. flat[i] = flat[i - 1] \o texts[i]
        <5> HIDE DEF flat
        <5> QED
          BY <3>4, <3>6
      <4> HIDE DEF flat
      <4> QED
        BY <3>3, <3>4, <4>2, <4>3, TextAfterText
    <3> QED
      BY <3>5, <3>6
  <2>4. IsText(flat[n])
    <3> HIDE DEF flat
    <3> QED
      BY <1>1, <1>3, <2>3
  <2>5. FlattenSeq(texts) = flat[n]
    BY <1>3 DEF FlattenSeq, n
  <2> QED
    BY <2>4, <2>5
<1> QED
  BY <1>2, <1>3

(* Texts with a separator between them make a text.                         *)
LEMMA JoinedIsText ==
    ASSUME NEW texts, IsText(texts), \A i \in 1..Len(texts) : IsText(texts[i]),
           NEW separator, IsText(separator)
    PROVE  IsText(Joined(texts, separator))
<1> DEFINE parts == [i \in DOMAIN texts |-> IF i = 1 THEN texts[i] ELSE separator \o texts[i]]
<1>1. IsText(parts) /\ Len(parts) = Len(texts) /\ DOMAIN texts = 1..Len(texts)
  BY ChangedText, TextIs
<1>2. \A i \in 1..Len(parts) : IsText(parts[i])
  BY <1>1, TextAfterText
<1> HIDE DEF parts
<1>3. IsText(FlattenSeq(parts))
  BY <1>1, <1>2, FlatIsText
<1> QED
  BY <1>3 DEF Joined, parts

-----------------------------------------------------------------------------
(* What is read of a Content-Disposition header is text, and so is what is *)
(* printed of it.                                                          *)

(* The empty text, and texts of up to three tokens.                         *)
LEMMA ShortTexts ==
    /\ IsText(<<>>) /\ Len(<<>>) = 0
    /\ \A token : IsText(<<token>>) /\ Len(<<token>>) = 1
    /\ \A a, b : IsText(<<a, b>>)
    /\ \A a, b, c : IsText(<<a, b, c>>)
<1>1. IsText(<<>>) /\ Len(<<>>) = 0
  BY EmptySeq, SeqIsText
<1>2. ASSUME NEW token PROVE IsText(<<token>>) /\ Len(<<token>>) = 1
  <2>1. <<token>> \in Seq({token})
    OBVIOUS
  <2> QED
    BY <2>1, SeqIsText
<1>3. ASSUME NEW a, NEW b PROVE IsText(<<a, b>>)
  <2>1. <<a, b>> \in Seq({a, b})
    OBVIOUS
  <2> QED
    BY <2>1, SeqIsText
<1>4. ASSUME NEW a, NEW b, NEW c PROVE IsText(<<a, b, c>>)
  <2>1. <<a, b, c>> \in Seq({a, b, c})
    OBVIOUS
  <2> QED
    BY <2>1, SeqIsText
<1> QED
  BY <1>1, <1>2, <1>3, <1>4

(* Text in another case, or percent-encoded or decoded, is text.            *)
LEMMA CasedIsText ==
    ASSUME NEW t, IsText(t), NEW table
    PROVE  IsText(Cased(t, table)) /\ Len(Cased(t, table)) = Len(t)
<1>1. Cased(t, table) = [i \in DOMAIN t |-> Cased(t, table)[i]]
  BY DEF Cased
<1> QED
  BY <1>1, ChangedText

(* Splitting at every place of a token, or at the first, leaves at least    *)
(* one piece, and every piece is a text.                                    *)
LEMMA SplitAreTexts ==
    ASSUME NEW t, IsText(t), NEW token,
           NEW parts \in {Split(t, token), SplitFirst(t, token)}
    PROVE  /\ IsText(parts) /\ Len(parts) \in Nat \ {0} /\ DOMAIN parts = 1..Len(parts)
           /\ \A k \in 1..Len(parts) : IsText(parts[k])
<1>1. PICK places \in SUBSET DOMAIN t : parts = CutAt(t, places)
  <2> DEFINE at == Places(t, token)
  <2>1. at \in SUBSET DOMAIN t
    BY DEF Places
  <2>2. at # {} => Min(at) \in at
    BY <2>1, PlacesAreFinite, LeastMember
  <2> HIDE DEF at
  <2>3. (IF at = {} THEN {} ELSE {Min(at)}) \in SUBSET DOMAIN t
    BY <2>1, <2>2
  <2> QED
    BY <2>1, <2>3 DEF Split, SplitFirst, at
<1>2. Cardinality(places) \in Nat
  BY PlacesAreFinite
<1>3. /\ IsText(parts) /\ Len(parts) = Cardinality(places) + 1
      /\ \A k \in 1..(Cardinality(places) + 1) : IsText(parts[k])
  BY <1>1, PiecesAreTexts
<1> QED
  BY <1>2, <1>3, TextIs

(* A name and its value, trimmed.                                           *)
LEMMA NameAndValueAreTexts ==
    ASSUME NEW t, IsText(t)
    PROVE  /\ IsText(NameValue(t)) /\ Len(NameValue(t)) \in Nat \ {0}
           /\ \A k \in 1..Len(NameValue(t)) : IsText(NameValue(t)[k])
<1> DEFINE parts == SplitFirst(t, "=")
<1>1. /\ IsText(parts) /\ Len(parts) \in Nat \ {0} /\ DOMAIN parts = 1..Len(parts)
      /\ \A k \in 1..Len(parts) : IsText(parts[k])
  BY SplitAreTexts
<1>2. NameValue(t) = [i \in DOMAIN parts |-> Trim(parts[i])]
  BY DEF NameValue
<1> HIDE DEF parts
<1>3. IsText(NameValue(t)) /\ Len(NameValue(t)) = Len(parts)
  BY <1>1, <1>2, ChangedText
<1>4. \A k \in 1..Len(parts) : IsText(NameValue(t)[k])
  BY <1>1, <1>2, TrimmedIsText DEF Trim
<1> QED
  BY <1>1, <1>3, <1>4

(* A parameter of the header, as it is read.                                *)
TypedParam(p) ==
    IF IsFilename(p)
    THEN /\ IsText(p.charset) /\ IsText(p.bytes) /\ IsText(p.language)
         /\ \A i \in 1..Len(p.language) : IsText(p.language[i])
    ELSE IsText(p.name) /\ IsText(p.value)

(* An extended value is a file's name in some charset and language.         *)
LEMMA ExtendedValueIsTyped ==
    ASSUME NEW t, IsText(t), ParseExtendedValue(t).ok
    PROVE  TypedParam(ParseExtendedValue(t).val)
<1> DEFINE quotes == Places(t, "'")
           places == {i \in quotes : Cardinality({j \in quotes : j < i}) < 2}
           parts == CutAt(t, places)
           language == parts[2]
           value == [charset |-> ParseCharset(parts[1]),
                     language |-> IF language = <<>> THEN <<>> ELSE <<language>>,
                     bytes |-> PercentDecode(parts[3])]
<1>1. places \in SUBSET DOMAIN t
  BY DEF Places
<1> HIDE DEF places
<1>2. /\ Cardinality(places) \in Nat /\ Len(parts) = Cardinality(places) + 1
      /\ \A k \in 1..Len(parts) : IsText(parts[k])
  BY <1>1, PlacesAreFinite, PiecesAreTexts
<1> HIDE DEF parts
<1>3. Len(parts) >= 3 /\ ParseExtendedValue(t).val = value
  BY <1>2 DEF ParseExtendedValue, Err, Ok, parts, places
<1>4. IsText(parts[1]) /\ IsText(parts[2]) /\ IsText(parts[3])
  BY <1>2, <1>3
<1>5. IsText(value.charset) /\ IsText(value.bytes) /\ IsFilename(value)
  BY <1>4, CasedIsText DEF ParseCharset, Upper, PercentDecode, IsFilename
<1>6. IsText(value.language) /\ \A i \in 1..Len(value.language) : IsText(value.language[i])
  BY <1>4, ShortTexts
<1> HIDE DEF value
<1> QED
  BY <1>3, <1>5, <1>6 DEF TypedParam

(* A parameter that can be read.                                            *)
LEMMA ParamIsTyped ==
    ASSUME NEW t, IsText(t), DispositionParam(t).ok
    PROVE  TypedParam(DispositionParam(t).val)
<1> DEFINE nv == NameValue(t)
           name == Lower(nv[1])
           plain == Filename(<<"UTF-8">>, <<>>, TrimQuotes(nv[2]))
           other == [name |-> nv[1], value |-> TrimQuotes(nv[2])]
<1>1. Len(nv) \in Nat \ {0} /\ \A k \in 1..Len(nv) : IsText(nv[k])
  BY NameAndValueAreTexts
<1> HIDE DEF nv
<1>2. Len(nv) # 1
  BY DEF DispositionParam, Err, nv
<1>3. IsText(nv[1]) /\ IsText(nv[2]) /\ IsText(TrimQuotes(nv[2]))
  BY <1>1, <1>2, TrimmedIsText DEF TrimQuotes
<1>4. CASE name = <<"filename">>
  <2>1. DispositionParam(t).val = plain
    BY <1>2, <1>4 DEF DispositionParam, Ok, nv
  <2>2. IsFilename(plain) /\ plain.charset = <<"UTF-8">> /\ plain.language = <<>>
        /\ plain.bytes = TrimQuotes(nv[2])
    BY DEF Filename, IsFilename
  <2> HIDE DEF plain
  <2> QED
    BY <1>3, <2>1, <2>2, ShortTexts DEF TypedParam
<1>5. CASE name = <<"filename", "*">>
  <2>1. DispositionParam(t) = ParseExtendedValue(nv[2])
    <3>1. name # <<"filename">>
      BY <1>5
    <3> HIDE DEF name
    <3> QED
      BY <1>2, <1>5, <3>1 DEF DispositionParam, nv, name
  <2> QED
    BY <1>3, <2>1, ExtendedValueIsTyped
<1>6. CASE name \notin {<<"filename">>, <<"filename", "*">>}
  <2>1. DispositionParam(t).val = other
    BY <1>2, <1>6 DEF DispositionParam, Ok, nv
  <2>2. ~IsFilename(other) /\ other.name = nv[1] /\ other.value = TrimQuotes(nv[2])
    BY DEF IsFilename
  <2> HIDE DEF other
  <2> QED
    BY <1>3, <2>1, <2>2 DEF TypedParam
<1> QED
  BY <1>4, <1>5, <1>6

(* A Content-Disposition that can be read.                                  *)
TypedDisposition(c) ==
    /\ IsText(c.disposition) /\ IsText(c.parameters)
    /\ \A i \in 1..Len(c.parameters) : TypedParam(c.parameters[i])

LEMMA DispositionIsTyped ==
    ASSUME NEW lines, IsText(lines[1]), ParseContentDisposition(lines).ok
    PROVE  TypedDisposition(ParseContentDisposition(lines).val)
<1> DEFINE text == OneRawStr(lines)
           parts == Split(text.val, ";")
           type == Trim(parts[1])
           params == [i \in 1..(Len(parts) - 1) |-> DispositionParam(parts[i + 1])]
           value == [disposition |-> IF Lower(type) \in {<<"inline">>, <<"attachment">>}
                                     THEN Lower(type) ELSE type,
                     parameters |-> [i \in DOMAIN params |-> params[i].val]]
<1>1. text.ok
  BY DEF ParseContentDisposition, Err
<1>2. IsText(text.val)
  <2>1. text.val = Trim(lines[1])
    BY <1>1 DEF OneRawStr, OkIf, Ok, Err
  <2> QED
    BY <2>1, TrimmedIsText DEF Trim
<1> HIDE DEF text
<1>3. Len(parts) \in Nat \ {0} /\ \A k \in 1..Len(parts) : IsText(parts[k])
  BY <1>2, SplitAreTexts
<1> HIDE DEF parts
<1>4. (\A i \in DOMAIN params : params[i].ok) /\ ParseContentDisposition(lines).val = value
  BY <1>1 DEF ParseContentDisposition, Err, Ok, text, parts
<1>5. DOMAIN params = 1..(Len(parts) - 1)
  OBVIOUS
<1>6. ASSUME NEW i \in 1..(Len(parts) - 1) PROVE TypedParam(params[i].val)
  <2>1. IsText(parts[i + 1]) /\ params[i] = DispositionParam(parts[i + 1])
    BY <1>3
  <2> HIDE DEF params
  <2> QED
    BY <1>4, <1>5, <2>1, ParamIsTyped
<1> HIDE DEF params
<1>7. /\ IsText(value.parameters) /\ Len(value.parameters) = Len(parts) - 1
      /\ \A i \in 1..Len(value.parameters) : TypedParam(value.parameters[i])
  <2>1. value.parameters = [i \in 1..(Len(parts) - 1) |-> params[i].val]
    BY <1>5
  <2> HIDE DEF value
  <2>2. value.parameters = [i \in 1..(Len(parts) - 1) |-> value.parameters[i]]
    BY <2>1
  <2>3. IsText(value.parameters) /\ Len(value.parameters) = Len(parts) - 1
    BY <1>3, <2>2, TextOf
  <2> QED
    BY <1>6, <2>1, <2>3
<1>8. IsText(value.disposition)
  <2>1. IsText(type)
    <3>1. IsText(parts[1])
      BY <1>3
    <3> QED
      BY <3>1, TrimmedIsText DEF Trim
  <2> HIDE DEF type
  <2>2. IsText(Lower(type))
    BY <2>1, CasedIsText DEF Lower
  <2> QED
    BY <2>1, <2>2
<1> HIDE DEF value
<1> QED
  BY <1>4, <1>7, <1>8 DEF TypedDisposition

(* What is printed of a parameter.                                          *)
LEMMA PrintedParamIsText ==
    ASSUME NEW p, TypedParam(p)
    PROVE  IsText(PrintDispositionParam(p))
<1>1. ASSUME NEW t, IsText(t) PROVE IsText(Quoted(t))
  <2>1. Quoted(t) = <<Quote>> \o t \o <<Quote>>
    BY DEF Quoted
  <2> QED
    BY <1>1, <2>1, ShortTexts, TextAfterText
<1>2. CASE ~IsFilename(p)
  <2>1. PrintDispositionParam(p) = p.name \o <<"=">> \o Quoted(p.value)
    BY <1>2 DEF PrintDispositionParam
  <2> QED
    BY <1>1, <1>2, <2>1, ShortTexts, TextAfterText DEF TypedParam
<1>3. CASE IsFilename(p) /\ SimpleFormat(p)
  <2>1. PrintDispositionParam(p) = <<"filename", "=">> \o Quoted(p.bytes)
    BY <1>3 DEF PrintDispositionParam
  <2>2. IsText(<<"filename", "=">>)
    BY ShortTexts
  <2> QED
    BY <1>1, <1>3, <2>1, <2>2, TextAfterText DEF TypedParam
<1>4. CASE IsFilename(p) /\ ~SimpleFormat(p)
  <2>1. PrintDispositionParam(p) = <<"filename", "*", "=">> \o PrintExtendedValue(p)
    BY <1>4 DEF PrintDispositionParam
  <2>2. PrintExtendedValue(p)
        = p.charset \o <<"'">> \o FlattenSeq(p.language) \o <<"'">> \o HttpPercentEncode(p.bytes)
    BY DEF PrintExtendedValue
  <2>3. IsText(FlattenSeq(p.language)) /\ IsText(HttpPercentEncode(p.bytes)) /\ IsText(p.charset)
    BY <1>4, FlatIsText, CasedIsText DEF TypedParam, HttpPercentEncode
  <2>4. IsText(PrintExtendedValue(p))
    BY <2>2, <2>3, ShortTexts, TextAfterText
  <2>5. IsText(<<"filename", "*", "=">>)
    BY ShortTexts
  <2> QED
    BY <2>1, <2>4, <2>5, TextAfterText
<1> QED
  BY <1>2, <1>3, <1>4

(* What is printed of the whole header.                                     *)
LEMMA PrintedDispositionIsText ==
    ASSUME NEW c, TypedDisposition(c)
    PROVE  IsText(PrintContentDisposition(c))
<1> DEFINE n == Len(c.parameters)
           params == [i \in DOMAIN c.parameters |-> PrintDispositionParam(c.parameters[i])]
           all == <<c.disposition>> \o params
<1>1. n \in Nat /\ DOMAIN c.parameters = 1..n
  BY TextIs DEF TypedDisposition
<1>2. params = [i \in 1..n |-> PrintDispositionParam(c.parameters[i])]
  BY <1>1
<1>3. \A i \in 1..n : IsText(params[i])
  BY <1>1, <1>2, PrintedParamIsText DEF TypedDisposition
<1> HIDE DEF params
<1>4. IsText(params) /\ Len(params) = n
  BY <1>1, <1>2, TextOf
<1>5. IsText(all) /\ Len(all) = n + 1
  BY <1>1, <1>4, ShortTexts, TextAfterText
<1>6. \A i \in 1..Len(all) : IsText(all[i])
  <2> DEFINE S == ToSet(params) \cup {c.disposition}
  <2>1. params \in Seq(S) /\ <<c.disposition>> \in Seq(S)
    BY <1>4, TextIs
  <2>2. \A x \in S : IsText(x)
    <3>1. DOMAIN params = 1..n
      BY <1>4, TextIs
    <3> QED
      BY <1>3, <3>1 DEF ToSet, TypedDisposition
  <2> HIDE DEF S
  <2>3. all \in Seq(S)
    BY <2>1
  <2> HIDE DEF all
  <2> QED
    BY <2>2, <2>3
<1>7. IsText(<<";", " ">>)
  BY ShortTexts
<1>8. PrintContentDisposition(c) = Joined(all, <<";", " ">>)
  BY DEF PrintContentDisposition, params
<1> HIDE DEF all
<1> QED
  BY <1>5, <1>6, <1>7, <1>8, JoinedIsText

-----------------------------------------------------------------------------
(* A file's name.                                                          *)

(* Where a path leads whose pieces are one name and otherwise say nothing:  *)
(* the fold over its pieces ends at that name.                              *)
LEMMA PathOfOneName ==
    ASSUME NEW n \in Nat, NEW parts, DOMAIN parts = 1..n,
           NEW k \in 1..n, parts[k] \notin {<<>>, <<".">>, <<"..">>},
           \A i \in 1..n : i # k => parts[i] \in {<<>>, <<".">>}
    PROVE  FoldLeft(Descend, <<>>, parts) = <<parts[k]>>
<1> DEFINE S == 1..n
           At(s) == IF k \in s THEN <<parts[k]>> ELSE <<>>
           Step(g, s) == IF s = {} THEN <<>>
                         ELSE LET x == Max(s) IN Descend(g[s \ {x}], parts[x])
           iter == CHOOSE g : g = [s \in SUBSET S |-> Step(g, s)]
           path == [s \in SUBSET S |-> At(s)]
<1>1. FoldLeft(Descend, <<>>, parts) = iter[S]
  BY DEF FoldLeft, MapThenFoldSet
<1>2. ASSUME NEW s \in SUBSET S, s # {}
      PROVE  /\ Max(s) \in s /\ s \ {Max(s)} \in SUBSET S
             /\ Descend(At(s \ {Max(s)}), parts[Max(s)]) = At(s)
  <2> DEFINE x == Max(s)
  <2>1. x \in s /\ x \in 1..n
    <3>1. s \in SUBSET Nat /\ s # {}
      BY <1>2
    <3>2. IsFiniteSet(s)
      <4>1. IsFiniteSet(S)
        BY FS_Interval
      <4> HIDE DEF S
      <4> QED
        BY <4>1, FS_Subset
    <3> QED
      BY <3>1, <3>2, GreatestMember
  <2> HIDE DEF x
  <2>2. CASE x = k
    <3>1. At(s \ {x}) = <<>> /\ At(s) = <<parts[k]>>
      BY <2>1, <2>2
    <3>2. Descend(<<>>, parts[k]) = <<parts[k]>>
      BY DEF Descend, Outside
    <3> QED
      BY <2>1, <2>2, <3>1, <3>2 DEF x
  <2>3. CASE x # k
    <3>1. At(s \ {x}) = At(s) /\ parts[x] \in {<<>>, <<".">>}
      BY <2>1, <2>3
    <3>2. At(s) # Outside
      BY DEF Outside
    <3>3. Descend(At(s), parts[x]) = At(s)
      <4> HIDE DEF At
      <4> QED
        BY <3>1, <3>2 DEF Descend
    <3> HIDE DEF At
    <3> QED
      BY <2>1, <3>1, <3>3 DEF x
  <2> QED
    BY <2>2, <2>3
<1>3. path = [s \in SUBSET S |-> Step(path, s)]
  <2> SUFFICES ASSUME NEW s \in SUBSET S PROVE At(s) = Step(path, s)
    OBVIOUS
  <2>1. CASE s = {}
    BY <2>1
  <2>2. CASE s # {}
    <3>1. Step(path, s) = Descend(path[s \ {Max(s)}], parts[Max(s)])
      BY <2>2
    <3>2. path[s \ {Max(s)}] = At(s \ {Max(s)})
      BY <1>2, <2>2
    <3> HIDE DEF At, Step, path
    <3> QED
      BY <1>2, <2>2, <3>1, <3>2
  <2> QED
    BY <2>1, <2>2
<1>4. iter = [s \in SUBSET S |-> Step(iter, s)]
  <2> HIDE DEF Step, path
  <2> QED
    BY <1>3
<1>5. ASSUME NEW m \in Nat, m <= n PROVE iter[1..m] = At(1..m)
  <2> DEFINE Wrong == {j \in Nat : j <= n /\ iter[1..j] # At(1..j)}
  <2>1. SUFFICES ASSUME Wrong # {} PROVE FALSE
    <3> HIDE DEF iter, At
    <3> QED
      BY <1>5, <2>1
  <2>2. PICK j \in Wrong : \A i \in Wrong : j <= i
    <3>1. Wrong \subseteq Nat
      OBVIOUS
    <3> HIDE DEF Wrong
    <3> QED
      BY <2>1, <3>1, LeastMember
  <2> HIDE DEF iter, At
  <2>3. j \in Nat /\ j <= n /\ iter[1..j] # At(1..j) /\ 1..j \in SUBSET S
    OBVIOUS
  <2>4. iter[1..j] = Step(iter, 1..j)
    <3> HIDE DEF Step, Wrong
    <3> QED
      BY <1>4, <2>3
  <2>5. CASE j = 0
    <3>1. 1..j = {}
      BY <2>5
    <3> QED
      BY <2>3, <2>4, <3>1 DEF At
  <2>6. CASE j # 0
    <3> DEFINE s == 1..j
    <3>1. s # {} /\ j \in s /\ s \in SUBSET S
      <4>1. j \in s
        BY <2>3, <2>6
      <4> QED
        BY <2>3, <4>1
    <3>2. Max(s) = j
      <4>1. IsFiniteSet(s) /\ s \in SUBSET Nat
        <5>1. IsFiniteSet(s)
          BY <2>3, FS_Interval
        <5> QED
          BY <2>3, <5>1
      <4>2. Max(s) \in s /\ \A y \in s : Max(s) >= y
        <5> HIDE DEF s
        <5> QED
          BY <3>1, <4>1, GreatestMember
      <4> QED
        BY <2>3, <3>1, <4>2
    <3>3. s \ {j} = 1..(j - 1) /\ j - 1 \in Nat /\ j - 1 <= n /\ ~(j <= j - 1)
      BY <2>3, <2>6
    <3>4. iter[s \ {j}] = At(s \ {j})
      <4>1. j - 1 \notin Wrong
        <5> HIDE DEF Wrong, s
        <5> QED
          BY <2>2, <3>3
      <4> HIDE DEF s
      <4> QED
        BY <3>3, <4>1
    <3>5. iter[s] = Descend(iter[s \ {j}], parts[j])
      BY <2>4, <3>1, <3>2
    <3>6. Descend(At(s \ {j}), parts[j]) = At(s)
      <4> HIDE DEF s
      <4> QED
        BY <1>2, <3>1, <3>2
    <3> QED
      BY <2>3, <3>4, <3>5, <3>6
  <2> QED
    BY <2>5, <2>6
<1>6. iter[S] = At(S)
  <2> HIDE DEF iter, At
  <2> QED
    BY <1>5
<1> QED
  BY <1>1, <1>6

(* A name that validate_file_name accepts is that of one file of the        *)
(* destination directory, however it is spelled.                            *)
LEMMA AcceptedNameStays ==
    ASSUME NEW t, IsText(t), ValidateFileName(t)
    PROVE  /\ Len(Resolved(t)) = 1 /\ Resolved(t) # Outside
           /\ Resolved(t)[1] \notin CwdDirs
<1> DEFINE parts == Split(t, "/")
           kept == {i \in DOMAIN parts : parts[i] # <<>> /\ (parts[i] # <<".">> \/ i = 1)}
<1>1. IsText(parts) /\ Len(parts) \in Nat /\ DOMAIN parts = 1..Len(parts)
  BY SplitAreTexts
<1>2. Components(t) = ElementsAt(parts, kept)
  BY DEF Components
<1>3. /\ ~Rooted(t) /\ Len(Components(t)) = 1
      /\ Components(t)[1] \notin ({<<".">>, <<"..">>} \union CwdDirs)
  BY DEF ValidateFileName
<1> HIDE DEF parts
<1>4. kept \in SUBSET DOMAIN parts
  OBVIOUS
<1>5. PICK k : kept = {k}
  <2> HIDE DEF kept
  <2>1. IsFiniteSet(kept)
    BY <1>1, <1>4, PlacesAreFinite
  <2>2. Cardinality(kept) = 1
    BY <1>1, <1>2, <1>3, <1>4, SelectedAreText
  <2> QED
    BY <2>1, <2>2, FS_Singleton
<1>6. Components(t)[1] = parts[k]
  <2> HIDE DEF kept
  <2>1. Cardinality(kept) = 1
    BY <1>5, FS_Singleton
  <2>2. \E i \in kept : ElementsAt(parts, kept)[1] = parts[i]
    BY <1>1, <1>4, <2>1, SelectedAreText
  <2> QED
    BY <1>2, <1>5, <2>2
<1>7. k \in 1..Len(parts) /\ parts[k] # <<>>
  BY <1>1, <1>5
<1>8. \A i \in 1..Len(parts) : i # k => parts[i] \in {<<>>, <<".">>}
  BY <1>1, <1>5
<1>9. Resolved(t) = FoldLeft(Descend, <<>>, parts)
  BY <1>3 DEF Resolved, parts
<1> HIDE DEF kept
<1>10. Resolved(t) = <<parts[k]>> /\ parts[k] \notin CwdDirs
  BY <1>1, <1>3, <1>6, <1>7, <1>8, <1>9, PathOfOneName
<1> QED
  BY <1>7, <1>10 DEF Outside

(* The name the response's first Content-Disposition line gives its file.   *)
LEMMA ResponseNameStays ==
    ASSUME NEW lines, IsText(lines), lines # <<>>, IsText(lines[1]), ResponseFileName(lines).ok
    PROVE  LET name == ResponseFileName(lines).val
           IN  /\ Len(Resolved(name)) = 1 /\ Resolved(name) # Outside
               /\ Resolved(name)[1] \notin CwdDirs
<1> DEFINE disposition == ParseContentDisposition(<<Head(lines)>>)
           c == disposition.val
           names == {i \in DOMAIN c.parameters : IsFilename(c.parameters[i])}
           name == ContentDispositionFileName(c)
<1>1. Head(lines) = lines[1]
  <2> DEFINE S == ToSet(lines)
  <2>1. lines \in Seq(S)
    BY TextIs
  <2> HIDE DEF S
  <2> QED
    BY <2>1
<1>2. /\ disposition.ok /\ name.ok /\ ValidateFileName(name.val)
      /\ ResponseFileName(lines).val = name.val
  <2> HIDE DEF c
  <2>1. disposition.ok /\ ResponseFileName(lines) = Accepted(name)
    BY DEF ResponseFileName, Err, c
  <2>2. name.ok /\ ResponseFileName(lines) = OkIf(ValidateFileName(name.val), name.val)
    BY <2>1 DEF Accepted, Err
  <2>3. ValidateFileName(name.val)
    BY <2>2 DEF OkIf, Err
  <2> QED
    BY <2>1, <2>2, <2>3 DEF OkIf, Ok
<1>3. TypedDisposition(c)
  <2> DEFINE line == <<Head(lines)>>
  <2>1. IsText(line[1])
    BY <1>1
  <2> HIDE DEF line
  <2> QED
    BY <1>2, <2>1, DispositionIsTyped DEF line
<1> HIDE DEF c
<1>4. IsText(name.val)
  <2>1. names # {} /\ name = Ok(Lossy(c.parameters[Min(names)].bytes))
    BY <1>2 DEF ContentDispositionFileName, Err
  <2>2. Min(names) \in names
    <3>1. names \in SUBSET DOMAIN c.parameters
      OBVIOUS
    <3> HIDE DEF names
    <3> QED
      BY <1>3, <2>1, <3>1, PlacesAreFinite, LeastMember DEF TypedDisposition
  <2>3. IsText(c.parameters[Min(names)].bytes)
    <3>1. DOMAIN c.parameters = 1..Len(c.parameters)
      BY <1>3, TextIs DEF TypedDisposition
    <3> QED
      BY <1>3, <2>2, <3>1 DEF TypedDisposition, TypedParam
  <2> HIDE DEF names
  <2> DEFINE bytes == c.parameters[Min(names)].bytes
  <2>4. Lossy(bytes) = [i \in DOMAIN bytes |-> Lossy(bytes)[i]]
    BY DEF Lossy
  <2> HIDE DEF bytes
  <2>5. IsText(Lossy(bytes))
    BY <2>3, <2>4, ChangedText DEF bytes
  <2> QED
    BY <2>1, <2>5 DEF Ok, bytes
<1> QED
  BY <1>2, <1>4, AcceptedNameStays

-----------------------------------------------------------------------------
(* The lines on the wire.                                                  *)

(* The headers this needs, among those of the tables.                       *)
LEMMA HeaderTables ==
    /\ {"If-Match", "If-None-Match"} \subseteq HeaderNames
    /\ {"Cookie", "Content-Range"} \subseteq HeaderNames
    /\ \A name \in {"Content-Disposition", "Set-Cookie", "Content-Range", "Cookie"} :
          /\ name \notin DOMAIN MacroHeaders /\ name \notin DOMAIN Schemes
          /\ name \notin DOMAIN ProxySchemes /\ name \notin Combined
<1>1. DOMAIN Schemes = {"Authorization<String>", "Authorization<Basic>", "Authorization<Bearer>"}
  BY DEF Schemes, Table
<1>2. DOMAIN ProxySchemes = {"ProxyAuthorization<String>", "ProxyAuthorization<Basic>",
                             "ProxyAuthorization<Bearer>"}
  BY DEF ProxySchemes, Table
<1>3. {"If-Match", "If-None-Match"} \subseteq DOMAIN MacroHeaders
  BY DEF MacroHeaders, Table
<1>4. \A name \in {"Content-Disposition", "Set-Cookie", "Content-Range", "Cookie"} : name \notin DOMAIN MacroHeaders
  BY DEF MacroHeaders, Table
<1> QED
  BY <1>1, <1>2, <1>3, <1>4 DEF HeaderNames, Combined

(* The tokens of a sequence over a set are of that set.                     *)
LEMMA TokensOfSeq ==
    ASSUME NEW S, NEW t \in Seq(S)
    PROVE  ToSet(t) \subseteq S
BY DEF ToSet

(* Tokens of two texts, one after the other.                                *)
LEMMA TokensOfBoth ==
    ASSUME NEW s, NEW t, IsText(s), IsText(t)
    PROVE  ToSet(s \o t) = ToSet(s) \cup ToSet(t)
<1> DEFINE S == ToSet(s) \cup ToSet(t)
<1>1. s \in Seq(S) /\ t \in Seq(S)
  BY TextIs
<1> HIDE DEF S
<1>2. ToSet(s) = {s[i] : i \in 1..Len(s)} /\ ToSet(t) = {t[i] : i \in 1..Len(t)}
  BY <1>1 DEF ToSet
<1>3. s \o t \in Seq(S) /\ Len(s \o t) = Len(s) + Len(t) /\ Len(s) \in Nat /\ Len(t) \in Nat
  BY <1>1
<1>4. ToSet(s \o t) = {(s \o t)[i] : i \in 1..(Len(s) + Len(t))}
  BY <1>3 DEF ToSet
<1>5. \A i \in 1..Len(s) : (s \o t)[i] = s[i] /\ i \in 1..(Len(s) + Len(t))
  BY <1>1, <1>3
<1>6. \A i \in 1..Len(t) : (s \o t)[Len(s) + i] = t[i] /\ Len(s) + i \in 1..(Len(s) + Len(t))
  BY <1>1, <1>3
<1>7. \A i \in 1..(Len(s) + Len(t)) :
         i \in 1..Len(s) \/ (i - Len(s) \in 1..Len(t) /\ (s \o t)[i] = t[i - Len(s)])
  BY <1>1, <1>3
<1> QED
  BY <1>2, <1>4, <1>5, <1>6, <1>7

(* What fmt_header writes, of whatever value: one line without a line break *)
(* in it, and for Set-Cookie as many as there are cookies.                  *)
LEMMA PrintedLines ==
    ASSUME NEW name, NEW v, name = "Set-Cookie" => IsText(v) /\ v # <<>>
    PROVE  /\ IsText(PrintHeader(name, v)) /\ PrintHeader(name, v) # <<>>
           /\ NoLineBreak(PrintHeader(name, v))
           /\ name # "Set-Cookie" =>
                 /\ Len(PrintHeader(name, v)) = 1
                 /\ IsText(PrintedText(name, v)) =>
                       \A i \in DOMAIN PrintHeader(name, v) : IsText(PrintHeader(name, v)[i])
<1>1. ASSUME NEW t PROVE NewLine \notin ToSet(NewlineReplaced(t))
  BY DEF NewlineReplaced, ToSet, NewLine
<1>2. ASSUME NEW t, IsText(t) PROVE IsText(NewlineReplaced(t))
  <2>1. NewlineReplaced(t) = [i \in DOMAIN t |-> NewlineReplaced(t)[i]]
    BY DEF NewlineReplaced
  <2> QED
    BY <1>2, <2>1, ChangedText
<1>3. CASE name = "Set-Cookie"
  <2> DEFINE lines == PrintHeader(name, v)
  <2>1. lines = [i \in DOMAIN v |-> NewlineReplaced(v[i])]
    BY <1>3 DEF PrintHeader
  <2>2. DOMAIN v = 1..Len(v) /\ Len(v) \in Nat /\ v = [i \in 1..Len(v) |-> v[i]]
    BY <1>3, TextIs
  <2> HIDE DEF lines
  <2>3. lines = [i \in DOMAIN v |-> lines[i]] /\ DOMAIN lines = DOMAIN v
    BY <2>1
  <2>4. IsText(lines) /\ Len(lines) = Len(v)
    BY <1>3, <2>3, ChangedText
  <2>5. Len(v) # 0
    BY <1>3, <2>2
  <2>6. lines # <<>>
    BY <2>4, <2>5, ShortTexts
  <2>7. NoLineBreak(lines)
    BY <1>1, <2>1, <2>3 DEF NoLineBreak
  <2> QED
    BY <1>3, <2>4, <2>6, <2>7 DEF lines
<1>4. CASE name # "Set-Cookie"
  <2> DEFINE line == NewlineReplaced(PrintedText(name, v))
  <2>1. PrintHeader(name, v) = <<line>>
    BY <1>4 DEF PrintHeader
  <2>2. NewLine \notin ToSet(line) /\ (IsText(PrintedText(name, v)) => IsText(line))
    BY <1>1, <1>2
  <2> HIDE DEF line
  <2>3. IsText(<<line>>) /\ <<line>> # <<>> /\ Len(<<line>>) = 1
    BY ShortTexts
  <2>4. NoLineBreak(<<line>>) /\ (IsText(line) => \A i \in DOMAIN <<line>> : IsText(<<line>>[i]))
    BY <2>2 DEF NoLineBreak
  <2> QED
    BY <2>1, <2>2, <2>3, <2>4
<1> QED
  BY <1>3, <1>4

-----------------------------------------------------------------------------
(* Type correctness, for whatever is sent and whatever arrives.            *)

(* A header that is sent as the answer to another.                          *)
LEMMA SentIsTyped ==
    ASSUME NEW name \in {"Cookie", "Content-Range", "If-Match", "If-None-Match"},
           NEW value, NEW question, Send(name, value, question),
           name \in {"If-Match", "If-None-Match"} => question # <<>>
    PROVE  TypeOK'
<1>1. header' = name /\ got' = <<>> /\ hops' = 0 /\ asked' = question
      /\ wire' = PrintHeader(name, value)
  BY DEF Send
<1>2. /\ IsText(wire') /\ wire' # <<>> /\ NoLineBreak(wire') /\ Len(wire') = 1
  BY <1>1, PrintedLines
<1>3. header' # "Content-Disposition"
      /\ ~(header' \in Combined /\ (Len(wire') > 1 \/ (hops' = 0 /\ asked' = <<>>)))
  <2>1. CASE name \in {"Cookie", "Content-Range"}
    BY <1>1, <2>1, HeaderTables
  <2>2. CASE name \in {"If-Match", "If-None-Match"}
    BY <1>1, <1>2, <2>2
  <2> QED
    BY <2>1, <2>2
<1> QED
  BY <1>1, <1>2, <1>3, HeaderTables, BoundsAssumption DEF TypeOK

(* A program in between reads the header, and prints what it read.          *)
LEMMA RelayedIsTyped ==
    ASSUME TypeOK, Relay
    PROVE  TypeOK'
<1> DEFINE reading == ParseHeader(header, wire)
<1>1. /\ hops < MaxHops /\ got' = <<reading>> /\ hops' = hops + 1
      /\ wire' = IF reading.ok /\ CanPrint(header, reading.val)
                 THEN PrintHeader(header, reading.val) ELSE wire
      /\ UNCHANGED <<header, meant, asked>>
  BY DEF Relay
<1> HIDE DEF reading
<1>2. hops' \in 0..MaxHops /\ hops' > 0 /\ got' # <<>> /\ header' \in HeaderNames
  BY <1>1, BoundsAssumption DEF TypeOK
<1>3. CASE ~(reading.ok /\ CanPrint(header, reading.val))
  BY <1>1, <1>2, <1>3 DEF TypeOK
<1>4. CASE reading.ok /\ CanPrint(header, reading.val) /\ header = "Set-Cookie"
  <2> DEFINE good == {i \in DOMAIN wire : IsUtf8(wire[i])}
             texts == ElementsAt(wire, good)
  <2>1. reading = ParseSetCookie(wire)
    BY <1>4, HeaderTables DEF reading, ParseHeader
  <2>2. good # {} /\ reading.val = Trimmed(texts)
    BY <1>4, <2>1 DEF ParseSetCookie, OkIf, Ok, Err
  <2>3. good \in SUBSET DOMAIN wire
    OBVIOUS
  <2> HIDE DEF good
  <2>4. Cardinality(good) \in Nat \ {0}
    BY <2>2, <2>3, PlacesAreFinite, FS_EmptySet DEF TypeOK
  <2>5. IsText(texts) /\ Len(texts) = Cardinality(good)
    BY <2>3, SelectedAreText DEF TypeOK
  <2> HIDE DEF texts
  <2>6. Trimmed(texts) = [i \in DOMAIN texts |-> Trimmed(texts)[i]]
    BY DEF Trimmed
  <2>7. IsText(Trimmed(texts)) /\ Len(Trimmed(texts)) = Cardinality(good)
    BY <2>5, <2>6, ChangedText
  <2>8. Trimmed(texts) # <<>>
    BY <2>4, <2>7, ShortTexts
  <2>9. IsText(wire') /\ wire' # <<>> /\ NoLineBreak(wire')
    BY <1>1, <1>4, <2>2, <2>7, <2>8, PrintedLines
  <2> QED
    BY <1>1, <1>2, <1>4, <2>9, HeaderTables DEF TypeOK
<1>5. CASE reading.ok /\ CanPrint(header, reading.val) /\ header # "Set-Cookie"
  <2>1. IsText(wire') /\ wire' # <<>> /\ NoLineBreak(wire') /\ Len(wire') = 1
    BY <1>1, <1>5, PrintedLines
  <2>2. ASSUME header = "Content-Disposition" PROVE \A i \in DOMAIN wire' : IsText(wire'[i])
    <3>1. reading = ParseContentDisposition(wire)
      BY <2>2, HeaderTables DEF reading, ParseHeader
    <3>2. IsText(wire[1])
      <4>1. Len(wire) \in Nat /\ Len(wire) # 0 /\ DOMAIN wire = 1..Len(wire)
        <5>1. wire = [i \in 1..Len(wire) |-> wire[i]] /\ Len(wire) \in Nat
              /\ DOMAIN wire = 1..Len(wire)
          BY TextIs DEF TypeOK
        <5>2. Len(wire) # 0
          BY <5>1 DEF TypeOK
        <5> QED
          BY <5>1, <5>2
      <4> QED
        BY <2>2, <4>1 DEF TypeOK
    <3>3. IsText(PrintContentDisposition(reading.val))
      BY <1>5, <3>1, <3>2, DispositionIsTyped, PrintedDispositionIsText
    <3>4. PrintedText(header, reading.val) = PrintContentDisposition(reading.val)
      BY <2>2, HeaderTables DEF PrintedText
    <3> QED
      BY <1>1, <1>5, <3>3, <3>4, PrintedLines
  <2>3. ~(Len(wire') > 1) /\ hops' # 0 /\ header' = header
    <3>1. ~(Len(wire') > 1)
      BY <2>1
    <3>2. hops' # 0
      BY <1>2
    <3> QED
      BY <1>1, <3>1, <3>2
  <2>4. \/ header' = "Content-Disposition"
        \/ header' \in Combined /\ (Len(wire') > 1 \/ (hops' = 0 /\ asked' = <<>>))
        => \A i \in DOMAIN wire' : IsText(wire'[i])
    BY <2>2, <2>3
  <2>5. got' # <<>> <=> hops' > 0
    BY <1>2
  <2> QED
    BY <1>2, <2>1, <2>4, <2>5 DEF TypeOK
<1> QED
  BY <1>3, <1>4, <1>5

(* Two lines become one.                                                    *)
LEMMA MergedIsTyped ==
    ASSUME TypeOK, MergeLines
    PROVE  TypeOK'
<1> DEFINE comma == <<",", " ">>
           first == wire[1] \o comma \o wire[2]
           rest == SubSeq(wire, 3, Len(wire))
<1>1. /\ header \in Combined /\ Len(wire) > 1 /\ wire' = <<first>> \o rest
      /\ UNCHANGED <<header, meant, got, hops, asked>>
  BY DEF MergeLines
<1>2. Len(wire) \in Nat /\ DOMAIN wire = 1..Len(wire)
  BY TextIs DEF TypeOK
<1>3. \A i \in 1..Len(wire) : IsText(wire[i]) /\ NewLine \notin ToSet(wire[i])
  BY <1>1, <1>2 DEF TypeOK, NoLineBreak
<1>4. IsText(wire[1]) /\ IsText(wire[2]) /\ IsText(comma) /\ NewLine \notin ToSet(comma)
      /\ NewLine \notin ToSet(wire[1]) /\ NewLine \notin ToSet(wire[2])
  <2>1. 1 \in 1..Len(wire) /\ 2 \in 1..Len(wire)
    <3>1. Len(wire) > 1
      BY <1>1
    <3> QED
      BY <1>2, <3>1
  <2>2. IsText(comma) /\ NewLine \notin ToSet(comma)
    <3>1. comma \in Seq({",", " "})
      OBVIOUS
    <3>2. ToSet(comma) \subseteq {",", " "}
      <4> HIDE DEF comma
      <4> QED
        BY <3>1, TokensOfSeq
    <3>3. NewLine \notin {",", " "}
      BY DEF NewLine
    <3>4. IsText(comma)
      BY ShortTexts
    <3> QED
      BY <3>2, <3>3, <3>4
  <2> QED
    BY <1>3, <2>1, <2>2
<1> HIDE DEF comma
<1>5. IsText(first) /\ NewLine \notin ToSet(first)
  <2>1. IsText(wire[1] \o comma) /\ NewLine \notin ToSet(wire[1] \o comma)
    BY <1>4, TextAfterText, TokensOfBoth
  <2> QED
    BY <1>4, <2>1, TextAfterText, TokensOfBoth
<1> HIDE DEF first
<1>6. IsText(rest) /\ \A x \in ToSet(rest) : \E i \in 1..Len(wire) : x = wire[i]
  <2> DEFINE S == {wire[i] : i \in 3..Len(wire)}
  <2>1. \A i \in 3..Len(wire) : wire[i] \in S
    OBVIOUS
  <2>2. S \subseteq {wire[i] : i \in 1..Len(wire)}
    BY <1>2
  <2> HIDE DEF S
  <2>3. rest \in Seq(S)
    BY <1>2, <2>1, SubSeqProperties
  <2> HIDE DEF rest
  <2>4. IsText(rest) /\ ToSet(rest) \subseteq S
    BY <2>3, SeqIsText DEF ToSet
  <2> QED
    BY <2>2, <2>4
<1> HIDE DEF rest
<1>7. IsText(wire') /\ ToSet(wire') = {first} \cup ToSet(rest) /\ Len(wire') = 1 + Len(rest)
  <2>1. ToSet(<<first>>) = {first}
    BY DEF ToSet
  <2> QED
    BY <1>1, <1>6, <2>1, ShortTexts, TextAfterText, TokensOfBoth
<1>8. Len(rest) \in Nat
  BY <1>6, TextIs
<1>9. wire' # <<>>
  BY <1>7, <1>8, ShortTexts
<1>10. \A i \in DOMAIN wire' : IsText(wire'[i]) /\ NewLine \notin ToSet(wire'[i])
  <2>1. \A i \in DOMAIN wire' : wire'[i] \in ToSet(wire')
    BY DEF ToSet
  <2> QED
    BY <1>3, <1>5, <1>6, <1>7, <2>1
<1> QED
  BY <1>1, <1>7, <1>9, <1>10 DEF TypeOK, NoLineBreak

(* One more value, on a line of its own.                                    *)
LEMMA AppendedIsTyped ==
    ASSUME TypeOK, EncodeAppend
    PROVE  TypeOK'
<1>1. PICK m \in Appended :
         /\ NewLine \notin ToSet(PrintedText(header, m.value)) /\ m.header = header
         /\ wire' = Append(wire, PrintedText(header, m.value))
  BY DEF EncodeAppend
<1>2. /\ header \in Combined /\ hops = 0 /\ asked = <<>>
      /\ UNCHANGED <<header, got, hops, asked>>
  BY DEF EncodeAppend, EncodedLists
<1> DEFINE line == PrintedText(header, m.value)
<1>3. IsText(line) /\ NewLine \notin ToSet(line) /\ wire' = Append(wire, line)
  BY <1>1, AppendedAssumption
<1> HIDE DEF line
<1>4. \A i \in DOMAIN wire : IsText(wire[i]) /\ NewLine \notin ToSet(wire[i])
  BY <1>2 DEF TypeOK, NoLineBreak
<1>5. PICK S : S = ToSet(wire) \cup {line}
  OBVIOUS
<1>6. wire \in Seq(S) /\ line \in S
  BY <1>5, TextIs DEF TypeOK
<1>7. IsText(wire') /\ wire' # <<>>
  <2>1. wire' \in Seq(S) /\ wire' # <<>>
    BY <1>3, <1>6
  <2> QED
    BY <2>1, SeqIsText
<1>8. \A i \in DOMAIN wire' : (i \in DOMAIN wire /\ wire'[i] = wire[i]) \/ wire'[i] = line
  BY <1>3, <1>6
<1> QED
  BY <1>2, <1>3, <1>4, <1>7, <1>8 DEF TypeOK, NoLineBreak

(* The state is well typed, whatever values programs build and whatever     *)
(* lines arrive from elsewhere: every header is at least one line, none has *)
(* a line break in it, and the lines of those headers that are looked into  *)
(* again are text (PrintHeader of every header, TypedHeaders::encode_append *)
(* and the combination of lines).                                           *)
THEOREM ExchangeTypeCorrect == Spec => []TypeOK
<1>1. Init => TypeOK
  <2> SUFFICES ASSUME Init PROVE TypeOK
    OBVIOUS
  <2>1. hops = 0 /\ got = <<>> /\ hops \in 0..MaxHops
    BY BoundsAssumption DEF Init
  <2>2. CASE \E m \in Sent : header = m.header /\ wire = PrintHeader(m.header, m.value)
    <3>1. PICK m \in Sent : header = m.header /\ wire = PrintHeader(m.header, m.value)
      BY <2>2
    <3>2. /\ m.header \in HeaderNames /\ IsText(PrintedText(m.header, m.value))
          /\ m.header = "Set-Cookie" => m.value # <<>>
      BY SentAssumption
    <3>3. m.header = "Set-Cookie" => IsText(m.value)
      BY <3>2, HeaderTables DEF PrintedText
    <3>4. /\ IsText(wire) /\ wire # <<>> /\ NoLineBreak(wire)
          /\ header # "Set-Cookie" => \A i \in DOMAIN wire : IsText(wire[i])
      BY <3>1, <3>2, <3>3, PrintedLines
    <3> QED
      BY <2>1, <3>1, <3>2, <3>4, HeaderTables DEF TypeOK
  <2>3. CASE \E m \in Arrivals : header = m.header /\ wire = m.lines
    BY <2>1, <2>3, ArrivalsAssumption DEF TypeOK
  <2> QED
    BY <2>2, <2>3 DEF Init
<1>2. TypeOK /\ [Next]_vars => TypeOK'
  <2> SUFFICES ASSUME TypeOK, [Next]_vars PROVE TypeOK'
    OBVIOUS
  <2>1. CASE Relay
    BY <2>1, RelayedIsTyped
  <2>2. CASE MergeLines
    BY <2>2, MergedIsTyped
  <2>3. CASE EncodeAppend
    BY <2>3, AppendedIsTyped
  <2>4. CASE AddCookie
    <3>1. PICK p \in CookiePairs : Send("Cookie", CookieSet(meant.val, p[1], p[2]), p)
      BY <2>4 DEF AddCookie
    <3> QED
      BY <3>1, SentIsTyped
  <2>5. CASE ServeRange
    <3>1. PICK value, question : Send("Content-Range", value, question)
      BY <2>5 DEF ServeRange
    <3> QED
      BY <3>1, SentIsTyped
  <2>6. CASE Revalidate
    <3>0. PICK condition \in {"If-None-Match", "If-Match"} :
             \E value : Send(condition, value, [tag |-> meant.val])
      BY <2>6 DEF Revalidate
    <3>1. PICK value : Send(condition, value, [tag |-> meant.val])
      BY <3>0
    <3>2. [tag |-> meant.val] # <<>>
      OBVIOUS
    <3> QED
      BY <3>1, <3>2, SentIsTyped
  <2>7. CASE UNCHANGED vars
    BY <2>7 DEF vars, TypeOK
  <2> QED
    BY <2>1, <2>2, <2>3, <2>4, <2>5, <2>6, <2>7 DEF Next
<1> QED
  BY <1>1, <1>2, PTL DEF Spec

(* Whatever a response calls its file, and whichever programs relayed the   *)
(* header, a name that validate_file_name accepts is a file's in the        *)
(* destination directory itself, and no directory's of the current one.     *)
THEOREM FilesStayInDirectory == Spec => []SavedInDirectory
<1>1. TypeOK => SavedInDirectory
  <2> SUFFICES ASSUME TypeOK, header = "Content-Disposition", ResponseFileName(wire).ok
               PROVE  LET name == ResponseFileName(wire)
                      IN  /\ Len(Resolved(name.val)) = 1 /\ Resolved(name.val) # Outside
                          /\ Resolved(name.val)[1] \notin CwdDirs
    BY DEF SavedInDirectory
  <2>1. IsText(wire) /\ wire # <<>> /\ \A i \in DOMAIN wire : IsText(wire[i])
    BY DEF TypeOK
  <2>2. Len(wire) \in Nat /\ DOMAIN wire = 1..Len(wire) /\ wire = [i \in 1..Len(wire) |-> wire[i]]
    BY <2>1, TextIs
  <2>3. Len(wire) # 0
    BY <2>1, <2>2
  <2>4. IsText(wire[1])
    BY <2>1, <2>2, <2>3
  <2> QED
    BY <2>1, <2>4, ResponseNameStays
<1> QED
  BY <1>1, ExchangeTypeCorrect, PTL

-----------------------------------------------------------------------------
(* Answers.                                                                *)

(* The ranges ByteRangeSpec can hold; a program may build one from a later  *)
(* to an earlier position.                                                  *)
ByteRangeSpecs ==
    {FromTo(from, to) : from \in Nat, to \in Nat} \cup {AllFrom(from) : from \in Nat}
    \cup {LastBytes(count) : count \in Nat}

(* to_satisfiable_range names exactly the bytes that were asked for and     *)
(* that there are, for every range and every length; and only bytes there   *)
(* are, so that what it names can be served.                                *)
THEOREM SatisfiableIsWanted ==
    ASSUME NEW spec \in ByteRangeSpecs, NEW full \in Nat
    PROVE  LET range == ToSatisfiableRange(spec, full)
           IN  /\ (IF range = <<>> THEN {} ELSE range[1]..range[2])
                  = {p \in 0..(full - 1) : Wanted(spec, p, full)}
               /\ range # <<>> => 0 <= range[1] /\ range[1] <= range[2] /\ range[2] < full
<1> DEFINE range == ToSatisfiableRange(spec, full)
           Served == IF range = <<>> THEN {} ELSE range[1]..range[2]
           Fits == range # <<>> => 0 <= range[1] /\ range[1] <= range[2] /\ range[2] < full
<1>1. ASSUME full = 0
      PROVE  Served = {p \in 0..(full - 1) : Wanted(spec, p, full)} /\ Fits
  <2>1. range = <<>> /\ 0..(full - 1) = {}
    BY <1>1 DEF ToSatisfiableRange
  <2> HIDE DEF range
  <2> QED
    BY <2>1
<1>2. ASSUME full # 0, NEW from \in Nat, NEW to \in Nat, spec = FromTo(from, to)
      PROVE  Served = {p \in 0..(full - 1) : Wanted(spec, p, full)} /\ Fits
  <2>1. \A p \in 0..(full - 1) : Wanted(spec, p, full) <=> from <= p /\ p <= to
    BY <1>2 DEF Wanted, FromTo
  <2>2. range = IF from < full /\ from <= to
                THEN <<from, IF to < full - 1 THEN to ELSE full - 1>> ELSE <<>>
    BY <1>2 DEF ToSatisfiableRange, FromTo
  <2> QED
    BY <1>2, <2>1, <2>2
<1>3. ASSUME full # 0, NEW from \in Nat, spec = AllFrom(from)
      PROVE  Served = {p \in 0..(full - 1) : Wanted(spec, p, full)} /\ Fits
  <2>1. \A p \in 0..(full - 1) : Wanted(spec, p, full) <=> from <= p
    BY <1>3 DEF Wanted, AllFrom
  <2>2. range = IF from < full THEN <<from, full - 1>> ELSE <<>>
    BY <1>3 DEF ToSatisfiableRange, AllFrom
  <2> QED
    BY <1>3, <2>1, <2>2
<1>4. ASSUME full # 0, NEW count \in Nat, spec = LastBytes(count)
      PROVE  Served = {p \in 0..(full - 1) : Wanted(spec, p, full)} /\ Fits
  <2>1. \A p \in 0..(full - 1) : Wanted(spec, p, full) <=> full - p <= count
    BY <1>4 DEF Wanted, LastBytes
  <2>2. range = IF count = 0 THEN <<>>
                ELSE IF count > full THEN <<0, full - 1>> ELSE <<full - count, full - 1>>
    BY <1>4 DEF ToSatisfiableRange, LastBytes
  <2> QED
    BY <1>4, <2>1, <2>2
<1>5. Served = {p \in 0..(full - 1) : Wanted(spec, p, full)} /\ Fits
  <2> HIDE DEF Served, Fits
  <2> QED
    BY <1>1, <1>2, <1>3, <1>4 DEF ByteRangeSpecs
<1> QED
  BY <1>5

-----------------------------------------------------------------------------
(* Entity tags.                                                            *)

(* The headers that carry them, as the macros declare them.                 *)
LEMMA TagHeaders ==
    /\ MacroHeaders["ETag"] = ETag /\ "ETag" \in DOMAIN MacroHeaders
    /\ MacroHeaders["If-Match"] = IfMatch /\ "If-Match" \in DOMAIN MacroHeaders
    /\ MacroHeaders["If-None-Match"] = IfNoneMatch /\ "If-None-Match" \in DOMAIN MacroHeaders
BY DEF MacroHeaders, Table

(* An ETag header has one tag.                                              *)
LEMMA ETagIsAlone == MacroHeaders["ETag"].grammar = "single"
<1>1. ETag.grammar = "single"
  BY DEF ETag, Single
<1> QED
  BY <1>1, TagHeaders

(* A macro's header is read and printed as the macro has it.                *)
LEMMA TagDispatch ==
    ASSUME NEW name \in {"ETag", "If-Match", "If-None-Match"}, NEW v, NEW lines
    PROVE  /\ PrintedText(name, v) = PrintMacro(MacroHeaders[name], v)
           /\ ParseHeader(name, lines) = ParseMacro(MacroHeaders[name], lines)
<1>1. name \in DOMAIN MacroHeaders
  BY TagHeaders
<1>2. name \notin DOMAIN Schemes /\ name \notin DOMAIN ProxySchemes
  BY DEF Schemes, ProxySchemes, Table
<1>3. PrintedText(name, v) = PrintMacro(MacroHeaders[name], v)
  BY <1>1, <1>2 DEF PrintedText
<1>4. ParseHeader(name, lines) = ParseMacro(MacroHeaders[name], lines)
  BY <1>1, <1>2 DEF ParseHeader
<1> QED
  BY <1>3, <1>4

(* A text is all of itself, and nothing is trimmed from one that begins and *)
(* ends with other tokens.                                                  *)
LEMMA WholeText ==
    ASSUME NEW t, IsText(t)
    PROVE  /\ SubSeq(t, 1, Len(t)) = t
           /\ \A tokens : Len(t) > 0 /\ t[1] \notin tokens /\ t[Len(t)] \notin tokens
                 => TrimAll(t, tokens) = t
<1> DEFINE S == ToSet(t)
<1>1. t \in Seq(S)
  BY TextIs
<1> HIDE DEF S
<1>2. SubSeq(t, 1, Len(t)) = t /\ Len(t) \in Nat /\ DOMAIN t = 1..Len(t)
  BY <1>1
<1>3. ASSUME NEW tokens, Len(t) > 0, t[1] \notin tokens, t[Len(t)] \notin tokens
      PROVE  TrimAll(t, tokens) = t
  <2> DEFINE kept == {i \in DOMAIN t : t[i] \notin tokens}
  <2>1. 1 \in kept /\ Len(t) \in kept /\ kept \in SUBSET DOMAIN t
    BY <1>2, <1>3
  <2>2. TrimAll(t, tokens) = SubSeq(t, Min(kept), Max(kept))
    BY <2>1 DEF TrimAll
  <2> HIDE DEF kept
  <2>3. Min(kept) \in kept /\ Max(kept) \in kept /\ Min(kept) <= 1 /\ Max(kept) >= Len(t)
    <3>1. kept \in SUBSET Nat /\ IsFiniteSet(kept) /\ kept # {}
      BY <2>1, PlacesAreFinite
    <3>2. Min(kept) \in kept /\ \A y \in kept : Min(kept) <= y
      BY <3>1, LeastMember
    <3>3. Max(kept) \in kept /\ \A y \in kept : Max(kept) >= y
      BY <3>1, GreatestMember
    <3> QED
      BY <2>1, <3>2, <3>3
  <2>4. Min(kept) = 1 /\ Max(kept) = Len(t)
    BY <1>2, <2>1, <2>3
  <2> QED
    BY <1>2, <2>2, <2>4
<1> QED
  BY <1>2, <1>3

(* An entity tag, as it is printed.                                         *)
Opening(e) == (IF e.weak THEN <<"W", "/">> ELSE <<>>) \o <<Quote>>

(* How an entity tag is read.                                               *)
LEMMA ReadTag ==
    ASSUME NEW line, NEW tag, CheckSliceValidity(tag),
           Len(line) \in Nat, line[Len(line)] = Quote
    PROVE  /\ Len(line) >= 2 /\ line[1] = Quote /\ SubSeq(line, 2, Len(line) - 1) = tag
              => ParseEntityTag(line) = Ok([weak |-> FALSE, tag |-> tag])
           /\ Len(line) >= 4 /\ SubSeq(line, 1, 3) = <<"W", "/", Quote>> /\ line[1] = "W"
              /\ SubSeq(line, 4, Len(line) - 1) = tag
              => ParseEntityTag(line) = Ok([weak |-> TRUE, tag |-> tag])
<1>1. Len(line) >= 2 => ~ShorterThanTwo(line)
  BY DEF ShorterThanTwo
<1>2. "W" # Quote
  BY DEF Quote
<1>3. Len(line) >= 4 => Len(line) >= 2
  OBVIOUS
<1> QED
  BY <1>1, <1>2, <1>3 DEF ParseEntityTag

(* A piece is the text whose elements stand at its places.                  *)
LEMMA PieceIs ==
    ASSUME NEW all, NEW t, IsText(t), NEW from \in Nat,
           \A i \in 1..Len(t) : all[from + i] = t[i]
    PROVE  SubSeq(all, from + 1, from + Len(t)) = t
<1> DEFINE S == ToSet(t)
           piece == SubSeq(all, from + 1, from + Len(t))
<1>1. t \in Seq(S) /\ Len(t) \in Nat
  BY TextIs
<1>2. \A i \in 1..Len(t) : t[i] \in S
  BY <1>1
<1> HIDE DEF S
<1>3. ASSUME NEW j \in (from + 1)..(from + Len(t)) PROVE all[j] \in S
  <2>1. j - from \in 1..Len(t) /\ from + (j - from) = j
    BY <1>1
  <2> QED
    BY <1>2, <2>1
<1>4. from + 1 \in Int /\ from + Len(t) \in Int
  BY <1>1
<1>5. /\ piece \in Seq(S)
      /\ Len(piece) = IF from + 1 <= from + Len(t) THEN from + Len(t) - (from + 1) + 1 ELSE 0
      /\ \A i \in 1..(from + Len(t) - (from + 1) + 1) : piece[i] = all[from + 1 + i - 1]
  BY <1>3, <1>4, SubSeqProperties
<1> HIDE DEF piece
<1>6. Len(piece) = Len(t) /\ from + Len(t) - (from + 1) + 1 = Len(t)
  BY <1>1, <1>5
<1>7. \A i \in 1..Len(piece) : piece[i] = t[i]
  <2> SUFFICES ASSUME NEW i \in 1..Len(piece) PROVE piece[i] = t[i]
    OBVIOUS
  <2>1. from + 1 + i - 1 = from + i /\ i \in 1..Len(t)
    BY <1>1, <1>6
  <2> QED
    BY <1>5, <1>6, <2>1
<1> QED
  BY <1>1, <1>5, <1>6, <1>7, SeqEqual DEF piece

\* all is the text t between two others.
IsBetween(all, a, t, b) ==
    /\ IsText(all) /\ Len(all) = Len(a) + Len(t) + Len(b)
    /\ ToSet(all) = ToSet(a) \cup ToSet(t) \cup ToSet(b)
    /\ SubSeq(all, Len(a) + 1, Len(a) + Len(t)) = t
    /\ SubSeq(all, 1, Len(a)) = a
    /\ \A i \in 1..Len(a) : all[i] = a[i]
    /\ \A i \in 1..Len(b) : all[Len(a) + Len(t) + i] = b[i]

(* A text between two others is what is between their places.               *)
LEMMA MiddleOfText ==
    ASSUME NEW a, NEW t, NEW b, IsText(a), IsText(t), IsText(b)
    PROVE  IsBetween(a \o t \o b, a, t, b)
<1> DEFINE all == a \o t \o b
<1> DEFINE S == ToSet(a) \cup ToSet(t) \cup ToSet(b)
<1>1. a \in Seq(S) /\ t \in Seq(S) /\ b \in Seq(S)
  BY TextIs
<1>2. ToSet(all) = ToSet(a) \cup ToSet(t) \cup ToSet(b)
  BY TextAfterText, TokensOfBoth
<1> HIDE DEF S
<1>3. /\ all \in Seq(S) /\ Len(all) = Len(a) + Len(t) + Len(b) /\ Len(a) \in Nat
      /\ \A i \in 1..Len(a) : all[i] = a[i]
      /\ \A i \in 1..Len(t) : all[Len(a) + i] = t[i]
      /\ \A i \in 1..Len(b) : all[Len(a) + Len(t) + i] = b[i]
  BY <1>1
<1> HIDE DEF all
<1>4. SubSeq(all, Len(a) + 1, Len(a) + Len(t)) = t
  <2>1. PICK from \in Nat : from = Len(a)
    BY <1>3
  <2>2. \A i \in 1..Len(t) : all[from + i] = t[i]
    BY <1>3, <2>1
  <2>3. SubSeq(all, from + 1, from + Len(t)) = t
    BY <2>2, PieceIs
  <2> QED
    BY <2>1, <2>3
<1>5. SubSeq(all, 1, Len(a)) = a
  <2>1. PICK from \in Nat : from = 0
    OBVIOUS
  <2>2. \A i \in 1..Len(a) : all[from + i] = a[i]
    BY <1>3, <2>1
  <2>3. SubSeq(all, from + 1, from + Len(a)) = a
    BY <2>2, PieceIs
  <2>4. from + 1 = 1 /\ from + Len(a) = Len(a)
    BY <1>3, <2>1
  <2> QED
    BY <2>3, <2>4
<1>6. IsText(all)
  BY <1>3, SeqIsText
<1> QED
  BY <1>2, <1>3, <1>4, <1>5, <1>6 DEF IsBetween, all

(* What is printed of an entity tag is read as that entity tag.             *)
LEMMA PrintedTag ==
    ASSUME NEW e, IsEntityTag(e), NEW line, line = PrintEntityTag(e)
    PROVE  /\ IsText(line) /\ Len(line) >= 2 /\ line[1] \in {"W", Quote} /\ line[Len(line)] = Quote
           /\ ToSet(line) \subseteq ToSet(e.tag) \cup {"W", "/", Quote}
           /\ ParseEntityTag(line) = Ok(e)
<1>1. PICK tag, n, q : tag = e.tag /\ n = Len(tag) /\ q = <<Quote>>
  OBVIOUS
<1>2. IsText(tag) /\ n \in Nat /\ Len(tag) = n
  BY <1>1, TextIs DEF IsEntityTag
<1>3. CheckSliceValidity(tag) /\ e.weak \in BOOLEAN /\ e = [weak |-> e.weak, tag |-> tag]
  BY <1>1 DEF IsEntityTag
<1>4. IsText(q) /\ Len(q) = 1 /\ q[1] = Quote /\ ToSet(q) = {Quote}
  BY <1>1, ShortTexts DEF ToSet
<1>5. CASE ~e.weak
  <2>1. line = q \o tag \o q
    <3>1. line = (<<>> \o q) \o tag \o q
      BY <1>1, <1>5 DEF PrintEntityTag
    <3>2. <<>> \o q = q
      BY <1>1
    <3> QED
      BY <3>1, <3>2
  <2>2. IsBetween(line, q, tag, q)
    BY <1>2, <1>4, <2>1, MiddleOfText
  <2>3. /\ Len(line) = n + 2 /\ line[1] = Quote /\ line[n + 2] = Quote
        /\ SubSeq(line, 2, n + 1) = tag /\ ToSet(line) = ToSet(tag) \cup {Quote}
    <3>1. 1 + 1 = 2 /\ 1 + n = n + 1 /\ 1 + n + 1 = n + 2 /\ 1 \in 1..1
      BY <1>2
    <3> QED
      BY <1>2, <1>4, <2>2, <3>1 DEF IsBetween
  <2>4. Len(line) >= 2 /\ Len(line) - 1 = n + 1 /\ Len(line) \in Nat /\ line[Len(line)] = Quote
    BY <1>2, <2>3
  <2>5. ParseEntityTag(line) = Ok([weak |-> FALSE, tag |-> tag])
    BY <1>3, <2>3, <2>4, ReadTag
  <2>6. [weak |-> FALSE, tag |-> tag] = e
    BY <1>3, <1>5
  <2> QED
    BY <1>1, <2>2, <2>3, <2>4, <2>5, <2>6 DEF IsBetween
<1>6. CASE e.weak
  <2>1. PICK w : w = <<"W", "/", Quote>>
    OBVIOUS
  <2>2. w \in Seq({"W", "/", Quote}) /\ Len(w) = 3 /\ w[1] = "W"
    BY <2>1
  <2>3. IsText(w) /\ ToSet(w) \subseteq {"W", "/", Quote}
    BY <2>2, SeqIsText, TokensOfSeq
  <2>4. line = w \o tag \o q
    <3>1. PICK s : s = <<"W", "/">>
      OBVIOUS
    <3>2. line = (s \o q) \o tag \o q
      BY <1>1, <1>6, <3>1 DEF PrintEntityTag
    <3>3. s \in Seq({"W", "/", Quote}) /\ q \in Seq({"W", "/", Quote})
      BY <1>1, <3>1
    <3>4. s \o q \in Seq({"W", "/", Quote}) /\ Len(s \o q) = 3
      BY <1>4, <3>1, <3>3
    <3>5. (s \o q)[1] = s[1] /\ (s \o q)[2] = s[2] /\ (s \o q)[3] = q[1]
      <4>1. \A i \in 1..2 : (s \o q)[i] = s[i]
        BY <3>1, <3>3
      <4>2. (s \o q)[2 + 1] = q[1]
        BY <1>4, <3>1, <3>3
      <4>3. 2 + 1 = 3 /\ 1 \in 1..2 /\ 2 \in 1..2
        OBVIOUS
      <4> QED
        BY <4>1, <4>2, <4>3
    <3>6. \A i \in 1..3 : (s \o q)[i] = w[i]
      <4>1. w[1] = "W" /\ w[2] = "/" /\ w[3] = Quote /\ s[1] = "W" /\ s[2] = "/"
        BY <2>1, <3>1
      <4>2. (s \o q)[1] = w[1] /\ (s \o q)[2] = w[2] /\ (s \o q)[3] = w[3]
        BY <1>4, <3>5, <4>1
      <4>3. 1..3 = {1, 2, 3}
        OBVIOUS
      <4> QED
        BY <4>2, <4>3
    <3>7. s \o q = w
      BY <2>2, <3>4, <3>6, SeqEqual
    <3> QED
      BY <3>2, <3>7
  <2>5. IsBetween(line, w, tag, q)
    BY <1>2, <1>4, <2>3, <2>4, MiddleOfText
  <2>6. /\ Len(line) = n + 4 /\ line[1] = "W" /\ line[n + 4] = Quote
        /\ SubSeq(line, 4, n + 3) = tag /\ SubSeq(line, 1, 3) = w
        /\ ToSet(line) \subseteq ToSet(tag) \cup {"W", "/", Quote}
    <3>1. 3 + 1 = 4 /\ 3 + n = n + 3 /\ 3 + n + 1 = n + 4 /\ 1 \in 1..3 /\ 1 \in 1..1
      BY <1>2
    <3> QED
      BY <1>2, <1>4, <2>2, <2>3, <2>5, <3>1 DEF IsBetween
  <2>7. Len(line) >= 4 /\ Len(line) >= 2 /\ Len(line) - 1 = n + 3 /\ Len(line) \in Nat
        /\ line[Len(line)] = Quote
    BY <1>2, <2>6
  <2>8. ParseEntityTag(line) = Ok([weak |-> TRUE, tag |-> tag])
    BY <1>3, <2>1, <2>6, <2>7, ReadTag
  <2>9. [weak |-> TRUE, tag |-> tag] = e
    BY <1>3, <1>6
  <2> QED
    BY <1>1, <2>5, <2>6, <2>7, <2>8, <2>9 DEF IsBetween
<1> QED
  BY <1>3, <1>5, <1>6

(* A function of 1..1 is a text of one element.                             *)
LEMMA OneElement ==
    ASSUME NEW x, NEW s, s = [k \in 1..1 |-> x]
    PROVE  s = <<x>>
<1>1. s \in Seq({x}) /\ <<x>> \in Seq({x}) /\ Len(s) = 1 /\ Len(<<x>>) = 1
  OBVIOUS
<1>2. \A i \in 1..1 : s[i] = x
  OBVIOUS
<1>3. \A i \in 1..1 : <<x>>[i] = x
  <2>1. 1..1 = {1} /\ <<x>>[1] = x
    OBVIOUS
  <2> QED
    BY <2>1
<1> QED
  BY <1>1, <1>2, <1>3, SeqEqual

(* The one place of a text of one element.                                  *)
LEMMA OnePlace == \A x : DOMAIN <<x>> = {1} /\ <<x>>[1] = x
<1> SUFFICES ASSUME NEW x PROVE DOMAIN <<x>> = {1} /\ <<x>>[1] = x
  OBVIOUS
<1>1. DOMAIN <<x>> = 1..1 /\ <<x>>[1] = x
  OBVIOUS
<1>2. 1..1 = {1}
  OBVIOUS
<1> QED
  BY <1>1, <1>2

(* One text alone is joined to itself.                                      *)
LEMMA OneJoined ==
    ASSUME NEW t, NEW texts, texts = <<t>>
    PROVE  /\ FlattenSeq(texts) = t
           /\ \A separator : Joined(texts, separator) = t
<1>1. Len(texts) = 1 /\ DOMAIN texts = 1..1 /\ texts[1] = t
  OBVIOUS
<1>2. ASSUME NEW s, Len(s) = 1, s[1] = t PROVE FlattenSeq(s) = t
  <2> DEFINE Step(g, i) == IF i = 1 THEN s[i] ELSE g[i - 1] \o s[i]
             flat == CHOOSE g : g = [i \in 1..Len(s) |-> Step(g, i)]
  <2>1. \E g : g = [i \in 1..Len(s) |-> Step(g, i)]
    <3> DEFINE g == [i \in 1..1 |-> t]
    <3>1. \A i \in 1..1 : i = 1
      OBVIOUS
    <3>2. \A i \in 1..1 : Step(g, i) = t
      BY <1>2, <3>1
    <3>3. g = [i \in 1..Len(s) |-> Step(g, i)]
      <4> HIDE DEF Step
      <4> QED
        BY <1>2, <3>2
    <3> HIDE DEF g, Step
    <3> QED
      BY <3>3
  <2>2. flat = [i \in 1..Len(s) |-> Step(flat, i)]
    <3> HIDE DEF Step
    <3> QED
      BY <2>1
  <2>3. FlattenSeq(s) = flat[Len(s)]
    BY <1>2 DEF FlattenSeq
  <2> HIDE DEF flat
  <2>4. flat[1] = Step(flat, 1)
    <3>1. 1 \in 1..Len(s)
      BY <1>2
    <3> HIDE DEF Step
    <3> QED
      BY <2>2, <3>1
  <2> QED
    BY <1>2, <2>3, <2>4
<1>3. ASSUME NEW separator PROVE Joined(texts, separator) = t
  <2> DEFINE parts == [i \in DOMAIN texts |-> IF i = 1 THEN texts[i] ELSE separator \o texts[i]]
  <2>1. parts = [k \in 1..1 |-> t]
    BY <1>1
  <2>2. parts = <<t>>
    <3> HIDE DEF parts
    <3> QED
      BY <2>1, OneElement
  <2>3. Len(parts) = 1 /\ parts[1] = t
    <3> HIDE DEF parts
    <3> QED
      BY <2>2
  <2> HIDE DEF parts
  <2>4. FlattenSeq(parts) = t
    BY <1>2, <2>3
  <2> QED
    BY <2>4 DEF Joined, parts
<1> QED
  BY <1>1, <1>2, <1>3

(* Of one element that is selected, all is selected.                        *)
LEMMA OneSelected ==
    ASSUME NEW x, NEW s, s = <<x>>, NEW places, places = {1}
    PROVE  ElementsAt(s, places) = <<x>>
<1>1. Cardinality(places) = 1 /\ IsFiniteSet(places) /\ places \in SUBSET Nat
  <2>1. Cardinality({1}) = 1 /\ IsFiniteSet({1})
    BY FS_Singleton
  <2>2. {1} \in SUBSET Nat
    OBVIOUS
  <2> QED
    BY <2>1, <2>2
<1>2. Kth(places, 1) = 1
  BY <1>1, KthIsMember
<1>3. \A k \in 1..1 : s[Kth(places, k)] = x
  <2>1. 1..1 = {1} /\ s[1] = x
    OBVIOUS
  <2> QED
    BY <1>2, <2>1
<1>4. ElementsAt(s, places) = [k \in 1..1 |-> x]
  BY <1>1, <1>3 DEF ElementsAt
<1> QED
  BY <1>4, OneElement

(* A text without the token is not split at it.                             *)
LEMMA NotSplit ==
    ASSUME NEW t, IsText(t), NEW token, token \notin ToSet(t)
    PROVE  Split(t, token) = <<t>>
<1>1. Places(t, token) = {}
  BY DEF Places, ToSet
<1> DEFINE End(k) == IF k = 0 THEN 0 ELSE IF k = 1 THEN Len(t) + 1 ELSE Kth({}, k)
<1>2. CutAt(t, {}) = [k \in 1..1 |-> SubSeq(t, End(k - 1) + 1, End(k) - 1)]
  <2>1. Cardinality({}) + 1 = 1
    BY FS_EmptySet
  <2> QED
    BY <2>1 DEF CutAt
<1>3. ASSUME NEW k \in 1..1 PROVE End(k - 1) + 1 = 1 /\ End(k) - 1 = Len(t)
  <2>1. k = 1 /\ k - 1 = 0 /\ Len(t) \in Nat
    BY TextIs
  <2>2. End(0) = 0 /\ End(1) = Len(t) + 1
    OBVIOUS
  <2> HIDE DEF End
  <2> QED
    BY <2>1, <2>2
<1> HIDE DEF End
<1>4. CutAt(t, {}) = [k \in 1..1 |-> t]
  BY <1>2, <1>3, WholeText
<1>5. CutAt(t, {}) = <<t>>
  BY <1>4, OneElement
<1> QED
  BY <1>1, <1>5 DEF Split

(* What is printed of an entity tag is a line that fmt_line leaves as it    *)
(* is, and that is trimmed to itself when it is read.                       *)
LEMMA TagLine ==
    ASSUME NEW e, IsEntityTag(e), NEW line, line = PrintEntityTag(e)
    PROVE  /\ IsText(line) /\ line # <<>> /\ IsUtf8(line)
           /\ ParseEntityTag(line) = Ok(e)
           /\ NewlineReplaced(line) = line /\ Trim(line) = line
           /\ <<line>> # <<AnyLine>>
           /\ "," \notin ToSet(e.tag) => "," \notin ToSet(line)
<1>1. /\ IsText(line) /\ Len(line) >= 2 /\ line[1] \in {"W", Quote} /\ line[Len(line)] = Quote
      /\ ToSet(line) \subseteq ToSet(e.tag) \cup {"W", "/", Quote}
      /\ ParseEntityTag(line) = Ok(e)
  BY PrintedTag
<1>2. NewLine \notin ToSet(e.tag) /\ NotUtf8 \notin ToSet(e.tag)
  BY DEF IsEntityTag, CheckSliceValidity, IsUtf8
<1>3. NewLine \notin {"W", "/", Quote} /\ NotUtf8 \notin {"W", "/", Quote}
      /\ "," \notin {"W", "/", Quote} /\ " " \notin {"W", Quote}
  BY DEF NewLine, NotUtf8, Quote
<1>4. NewLine \notin ToSet(line) /\ IsUtf8(line)
      /\ ("," \notin ToSet(e.tag) => "," \notin ToSet(line))
  BY <1>1, <1>2, <1>3 DEF IsUtf8
<1>5. NewlineReplaced(line) = line
  <2>1. \A i \in DOMAIN line : line[i] # NewLine
    BY <1>4 DEF ToSet
  <2>2. line = [i \in DOMAIN line |-> line[i]]
    BY <1>1, TextIs
  <2> QED
    BY <2>1, <2>2 DEF NewlineReplaced
<1>6. Trim(line) = line
  <2>1. line[1] \notin {" ", NewLine} /\ line[Len(line)] \notin {" ", NewLine} /\ Len(line) > 0
    <3>1. Len(line) \in Nat
      BY <1>1, TextIs
    <3>2. line[1] \notin {" ", NewLine} /\ line[Len(line)] \notin {" ", NewLine}
      BY <1>1, <1>3
    <3>3. Len(line) > 0
      BY <1>1, <3>1
    <3> QED
      BY <3>2, <3>3
  <2> QED
    BY <1>1, <2>1, WholeText DEF Trim
<1>7. line # <<>> /\ line # AnyLine
  <2>1. Len(<<>>) = 0 /\ Len(AnyLine) = 1
    BY ShortTexts DEF AnyLine
  <2> QED
    BY <1>1, <2>1
<1>8. <<line>> # <<AnyLine>>
  BY <1>7
<1> QED
  BY <1>1, <1>4, <1>5, <1>6, <1>7, <1>8

(* An ETag header that is printed of an entity tag is read as that tag.     *)
LEMMA ETagIsReadBack ==
    ASSUME NEW e, IsEntityTag(e)
    PROVE  ParseHeader("ETag", PrintHeader("ETag", e)) = Ok(e)
<1>1. PICK line : line = PrintEntityTag(e)
  OBVIOUS
<1>2. ETag.grammar = "single" /\ ETag.item = "entity tag"
  BY DEF ETag, Single
<1>3. PrintedText("ETag", e) = line
  <2>1. PrintedText("ETag", e) = PrintMacro(ETag, e)
    BY TagHeaders, TagDispatch
  <2>2. PrintMacro(ETag, e) = PrintItem(ETag.item, e)
    BY <1>2 DEF PrintMacro
  <2>3. PrintItem("entity tag", e) = PrintEntityTag(e)
    BY DEF PrintItem
  <2> QED
    BY <1>1, <1>2, <2>1, <2>2, <2>3
<1>4. PrintHeader("ETag", e) = <<line>>
  BY <1>1, <1>3, TagLine DEF PrintHeader
<1>5. OneRawStr(<<line>>) = Ok(line)
  <2>1. Len(<<line>>) = 1 /\ <<line>>[1] = line
    OBVIOUS
  <2> QED
    BY <1>1, <2>1, TagLine DEF OneRawStr, OkIf
<1>6. ParseHeader("ETag", <<line>>) = ParseEntityTag(line)
  <2>1. ParseHeader("ETag", <<line>>) = ParseMacro(ETag, <<line>>)
    BY TagHeaders, TagDispatch
  <2>2. ParseMacro(ETag, <<line>>) = ParseOne(ETag, <<line>>)
    BY <1>2 DEF ParseMacro
  <2>3. ParseOne(ETag, <<line>>) = ParseItem(ETag.item, line)
    <3>1. OneRawStr(<<line>>).ok /\ OneRawStr(<<line>>).val = line
      BY <1>5 DEF Ok
    <3> QED
      BY <3>1 DEF ParseOne
  <2>4. ParseItem("entity tag", line) = ParseEntityTag(line)
    BY DEF ParseItem
  <2> QED
    BY <1>2, <2>1, <2>2, <2>3, <2>4
<1> QED
  BY <1>1, <1>4, <1>6, TagLine

(* If-Match and If-None-Match with one entity tag.                          *)
OneTag(e) == [any |-> FALSE, items |-> <<e>>]

(* They are one line, and if no comma is in the tag, they are read as that  *)
(* tag and nothing else.                                                    *)
LEMMA ConditionIsReadBack ==
    ASSUME NEW name \in {"If-Match", "If-None-Match"}, NEW e, IsEntityTag(e)
    PROVE  /\ Len(PrintHeader(name, OneTag(e))) = 1
           /\ "," \notin ToSet(e.tag)
                 => ParseHeader(name, PrintHeader(name, OneTag(e))) = Ok(OneTag(e))
<1>1. PICK line, h : line = PrintEntityTag(e) /\ h = MacroHeaders[name]
  OBVIOUS
<1>2. h.grammar = "any" /\ h.item = "entity tag" /\ ~h.weighted /\ name \in DOMAIN MacroHeaders
  <2>1. MacroHeaders[name] = AnyOrListOf("entity tag") /\ name \in DOMAIN MacroHeaders
    BY TagHeaders DEF IfMatch, IfNoneMatch
  <2>2. PICK g : g = AnyOrListOf("entity tag")
    OBVIOUS
  <2>3. g.grammar = "any" /\ g.item = "entity tag" /\ ~g.weighted
    BY <2>2 DEF AnyOrListOf
  <2> QED
    BY <1>1, <2>1, <2>2, <2>3
<1>3. /\ IsText(line) /\ line # <<>> /\ IsUtf8(line) /\ ParseEntityTag(line) = Ok(e)
      /\ NewlineReplaced(line) = line /\ Trim(line) = line /\ <<line>> # <<AnyLine>>
      /\ "," \notin ToSet(e.tag) => "," \notin ToSet(line)
  BY <1>1, TagLine
<1>4. PrintedText(name, OneTag(e)) = line
  <2> DEFINE texts == [i \in DOMAIN <<e>> |-> PrintEntityTag(<<e>>[i])]
  <2>1. texts = [k \in 1..1 |-> line]
    <3>1. DOMAIN <<e>> = 1..1 /\ <<e>>[1] = e /\ \A k \in 1..1 : k = 1
      OBVIOUS
    <3> QED
      BY <1>1, <3>1
  <2>2. texts = <<line>>
    <3> HIDE DEF texts
    <3> QED
      BY <2>1, OneElement
  <2>3. PrintListed(h, <<e>>) = FmtCommaDelimited(texts)
    <3>1. \A v : PrintItem("entity tag", v) = PrintEntityTag(v)
      BY DEF PrintItem
    <3>2. \A i \in DOMAIN <<e>> : PrintItem(h.item, <<e>>[i]) = PrintEntityTag(<<e>>[i])
      BY <1>2, <3>1
    <3>3. [i \in DOMAIN <<e>> |-> IF h.weighted THEN PrintQualityItem(h.item, <<e>>[i])
                                  ELSE PrintItem(h.item, <<e>>[i])] = texts
      BY <1>2, <3>2
    <3> HIDE DEF texts
    <3> QED
      BY <3>3 DEF PrintListed
  <2> HIDE DEF texts
  <2>4. FmtCommaDelimited(texts) = line
    BY <2>2, OneJoined DEF FmtCommaDelimited
  <2>5. PrintedText(name, OneTag(e)) = PrintMacro(h, OneTag(e))
    BY <1>1, TagDispatch
  <2>6. PrintMacro(h, OneTag(e)) = PrintListed(h, <<e>>)
    BY <1>2 DEF PrintMacro, OneTag
  <2> QED
    BY <2>3, <2>4, <2>5, <2>6
<1>5. PrintHeader(name, OneTag(e)) = <<line>>
  BY <1>3, <1>4 DEF PrintHeader
<1>6. ASSUME "," \notin ToSet(e.tag) PROVE ParseHeader(name, <<line>>) = Ok(OneTag(e))
  <2>1. Split(line, ",") = <<line>>
    BY <1>3, <1>6, NotSplit
  <2>2. CommaDelimited(<<line>>) = Ok(<<line>>)
    <3> DEFINE pieces == FlattenSeq([i \in DOMAIN <<line>> |-> Split(<<line>>[i], ",")])
               texts == [k \in DOMAIN pieces |-> Trim(pieces[k])]
    <3>1. DOMAIN <<line>> = 1..1 /\ <<line>>[1] = line /\ \A k \in 1..1 : k = 1
      OBVIOUS
    <3>2. [i \in DOMAIN <<line>> |-> Split(<<line>>[i], ",")] = [k \in 1..1 |-> <<line>>]
      BY <2>1, <3>1
    <3>3. [i \in DOMAIN <<line>> |-> Split(<<line>>[i], ",")] = <<<<line>>>>
      BY <3>2, OneElement
    <3>4. pieces = <<line>>
      BY <3>3, OneJoined
    <3> HIDE DEF pieces
    <3>5. texts = [k \in 1..1 |-> line]
      BY <1>3, <3>1, <3>4
    <3> HIDE DEF texts
    <3>6. texts = <<line>>
      BY <3>5, OneElement
    <3>7. {k \in DOMAIN texts : texts[k] # <<>>} = {1}
      <4>1. texts[1] = line
        BY <3>1, <3>6
      <4>2. DOMAIN texts = {1}
        BY <3>6
      <4> QED
        BY <1>3, <4>1, <4>2
    <3>8. ElementsAt(texts, {k \in DOMAIN texts : texts[k] # <<>>}) = <<line>>
      BY <3>6, <3>7, OneSelected
    <3>9. \A i \in DOMAIN <<line>> : IsUtf8(<<line>>[i])
      BY <1>3, <3>1
    <3> QED
      BY <3>8, <3>9 DEF CommaDelimited, OkIf, pieces, texts
  <2>3. ParseListed(h, <<line>>) = Ok(<<e>>)
    <3> DEFINE results == [i \in DOMAIN <<line>> |-> ParseEntityTag(<<line>>[i])]
               good == ElementsAt(results, {i \in DOMAIN results : results[i].ok})
    <3>1. DOMAIN <<line>> = 1..1 /\ <<line>>[1] = line /\ \A k \in 1..1 : k = 1
      OBVIOUS
    <3>2. results = [k \in 1..1 |-> Ok(e)]
      BY <1>3, <3>1
    <3>3. ParseListed(h, <<line>>) = Ok(Oks(results))
      <4>1. CommaDelimited(<<line>>).ok /\ CommaDelimited(<<line>>).val = <<line>>
        BY <2>2 DEF Ok
      <4>2. \A t : ParseItem("entity tag", t) = ParseEntityTag(t)
        BY DEF ParseItem
      <4>3. \A i \in DOMAIN <<line>> : ParseItem(h.item, <<line>>[i]) = ParseEntityTag(<<line>>[i])
        BY <1>2, <4>2
      <4>4. [i \in DOMAIN <<line>> |-> IF h.weighted THEN ParseQualityItem(h.item, <<line>>[i])
                                       ELSE ParseItem(h.item, <<line>>[i])] = results
        BY <1>2, <4>3
      <4> HIDE DEF results
      <4> QED
        BY <4>1, <4>4 DEF ParseListed
    <3> HIDE DEF results
    <3>4. results = <<Ok(e)>>
      BY <3>2, OneElement
    <3>5. {i \in DOMAIN results : results[i].ok} = {1}
      BY <3>2 DEF Ok
    <3>6. good = <<Ok(e)>>
      BY <3>4, <3>5, OneSelected
    <3>7. Oks(results) = [i \in DOMAIN good |-> good[i].val]
      BY DEF Oks
    <3> HIDE DEF good
    <3>8. [i \in DOMAIN good |-> good[i].val] = [k \in 1..1 |-> e]
      <4>1. DOMAIN good = 1..1 /\ good[1] = Ok(e) /\ \A k \in 1..1 : k = 1
        BY <3>6
      <4> QED
        BY <4>1 DEF Ok
    <3>9. Oks(results) = <<e>>
      BY <3>7, <3>8, OneElement
    <3> QED
      BY <3>3, <3>9
  <2>4. ParseHeader(name, <<line>>) = ParseAnyOr(h, <<line>>)
    <3>1. ParseHeader(name, <<line>>) = ParseMacro(h, <<line>>)
      BY <1>1, TagDispatch
    <3> QED
      BY <1>2, <3>1 DEF ParseMacro
  <2>5. ParseAnyOr(h, <<line>>) = Ok(OneTag(e))
    <3>1. ParseListed(h, <<line>>).ok /\ ParseListed(h, <<line>>).val = <<e>>
      BY <2>3 DEF Ok
    <3>2. <<line>> # <<AnyLine>>
      BY <1>3
    <3> QED
      BY <3>1, <3>2 DEF ParseAnyOr, OneTag
  <2> QED
    BY <2>4, <2>5
<1> QED
  BY <1>5, <1>6

(* A piece of a text has the text's tokens.                                 *)
LEMMA TokensOfPiece ==
    ASSUME NEW t, IsText(t), NEW m \in Nat \ {0}, NEW n \in Int, n <= Len(t)
    PROVE  IsText(SubSeq(t, m, n)) /\ ToSet(SubSeq(t, m, n)) \subseteq ToSet(t)
<1> DEFINE S == ToSet(t)
<1>1. t \in Seq(S) /\ Len(t) \in Nat
  BY TextIs
<1> HIDE DEF S
<1>2. \A i \in m..n : t[i] \in S
  <2> SUFFICES ASSUME NEW i \in m..n PROVE t[i] \in S
    OBVIOUS
  <2>1. i \in 1..Len(t)
    BY <1>1
  <2> QED
    BY <1>1, <2>1
<1>3. SubSeq(t, m, n) \in Seq(S)
  BY <1>2, SubSeqProperties
<1>4. ToSet(SubSeq(t, m, n)) \subseteq S
  BY <1>3, TokensOfSeq
<1> QED
  BY <1>3, <1>4, SeqIsText DEF S

(* What is left of a text when it is trimmed has the text's tokens.         *)
LEMMA TokensOfTrimmed ==
    ASSUME NEW t, IsText(t)
    PROVE  IsText(Trim(t)) /\ ToSet(Trim(t)) \subseteq ToSet(t)
<1> DEFINE kept == {i \in DOMAIN t : t[i] \notin {" ", NewLine}}
<1>1. CASE kept = {}
  <2>1. Trim(t) = <<>>
    BY <1>1 DEF Trim, TrimAll
  <2>2. ToSet(<<>>) = {}
    BY DEF ToSet
  <2> QED
    BY <2>1, <2>2, ShortTexts
<1>2. CASE kept # {}
  <2>1. Trim(t) = SubSeq(t, Min(kept), Max(kept))
    BY <1>2 DEF Trim, TrimAll
  <2>2. kept \in SUBSET DOMAIN t
    OBVIOUS
  <2> HIDE DEF kept
  <2>3. kept \in SUBSET Nat /\ IsFiniteSet(kept)
    BY <2>2, PlacesAreFinite
  <2>4. Min(kept) \in kept /\ Max(kept) \in kept
    BY <1>2, <2>3, LeastMember, GreatestMember
  <2>5. DOMAIN t = 1..Len(t) /\ Len(t) \in Nat
    BY TextIs
  <2>6. Min(kept) \in Nat \ {0} /\ Max(kept) \in Int /\ Max(kept) <= Len(t)
    BY <2>2, <2>4, <2>5
  <2> QED
    BY <2>1, <2>6, TokensOfPiece
<1> QED
  BY <1>1, <1>2

(* What is read as an entity tag is one.                                    *)
LEMMA ReadIsTag ==
    ASSUME NEW t, IsText(t), IsUtf8(t), NEW reading, reading = ParseEntityTag(t), reading.ok
    PROVE  reading = Ok(reading.val) /\ IsEntityTag(reading.val)
<1> DEFINE strong == SubSeq(t, 2, Len(t) - 1)
           weak == SubSeq(t, 4, Len(t) - 1)
<1>1. Len(t) \in Nat
  BY TextIs
<1>2. \/ reading = Ok([weak |-> FALSE, tag |-> strong]) /\ CheckSliceValidity(strong)
      \/ reading = Ok([weak |-> TRUE, tag |-> weak]) /\ CheckSliceValidity(weak)
  BY DEF ParseEntityTag, Err
<1>3. ASSUME NEW tag, IsText(tag), ToSet(tag) \subseteq ToSet(t), CheckSliceValidity(tag),
             NEW w \in BOOLEAN, reading = Ok([weak |-> w, tag |-> tag])
      PROVE  reading = Ok(reading.val) /\ IsEntityTag(reading.val)
  <2>1. reading.val = [weak |-> w, tag |-> tag]
    BY <1>3 DEF Ok
  <2>2. reading.val.weak = w /\ reading.val.tag = tag
    BY <2>1
  <2>3. reading.val = [weak |-> reading.val.weak, tag |-> reading.val.tag]
    BY <2>1, <2>2
  <2>4. IsUtf8(tag)
    BY <1>3 DEF IsUtf8
  <2> QED
    BY <1>3, <2>1, <2>2, <2>3, <2>4 DEF IsEntityTag
<1>4. IsText(strong) /\ ToSet(strong) \subseteq ToSet(t)
      /\ IsText(weak) /\ ToSet(weak) \subseteq ToSet(t)
  <2>1. Len(t) - 1 \in Int /\ Len(t) - 1 <= Len(t) /\ 2 \in Nat \ {0} /\ 4 \in Nat \ {0}
    BY <1>1
  <2> QED
    BY <2>1, TokensOfPiece
<1> HIDE DEF strong, weak
<1> QED
  BY <1>2, <1>3, <1>4

(* What is read of an ETag header, wherever it comes from, is an entity tag.*)
LEMMA ETagIsTag ==
    ASSUME NEW lines, \A i \in DOMAIN lines : IsText(lines[i]), IsText(lines),
           NEW reading, reading = ParseHeader("ETag", lines), reading.ok
    PROVE  reading = Ok(reading.val) /\ IsEntityTag(reading.val)
<1>1. ETag.grammar = "single" /\ ETag.item = "entity tag"
  BY DEF ETag, Single
<1>2. reading = ParseOne(ETag, lines)
  <2>1. reading = ParseMacro(ETag, lines)
    BY TagHeaders, TagDispatch
  <2> QED
    BY <1>1, <2>1 DEF ParseMacro
<1>3. ASSUME OneRawStr(lines).ok
      PROVE  Len(lines) = 1 /\ IsUtf8(lines[1]) /\ OneRawStr(lines).val = Trim(lines[1])
  BY <1>3 DEF OneRawStr, OkIf, Ok, Err
<1>4. OneRawStr(lines).ok /\ reading = ParseItem(ETag.item, OneRawStr(lines).val)
  BY <1>2 DEF ParseOne, Err
<1>5. PICK t : t = Trim(lines[1])
  OBVIOUS
<1>6. reading = ParseEntityTag(t)
  <2>1. ParseItem("entity tag", t) = ParseEntityTag(t)
    BY DEF ParseItem
  <2> QED
    BY <1>1, <1>3, <1>4, <1>5, <2>1
<1>7. IsText(lines[1])
  <2>1. DOMAIN lines = 1..Len(lines)
    BY TextIs
  <2> QED
    BY <1>3, <1>4, <2>1
<1>8. IsText(t) /\ IsUtf8(t)
  <2>1. IsText(t) /\ ToSet(t) \subseteq ToSet(lines[1])
    BY <1>5, <1>7, TokensOfTrimmed
  <2> QED
    BY <1>3, <1>4, <2>1 DEF IsUtf8
<1> QED
  BY <1>6, <1>8, ReadIsTag

-----------------------------------------------------------------------------
(* The inductive invariant: a header that carries an entity tag carries the *)
(* one that was meant, however often it has been relayed, and a condition   *)
(* asks for the one the client was given.                                   *)

\* An ETag header says what its sender means, and its reader reads that.
TagIsKept ==
    header = "ETag" /\ meant.ok =>
        /\ meant = Ok(meant.val) /\ IsEntityTag(meant.val)
        /\ ParseHeader("ETag", wire) = meant
        /\ got # <<>> => got[1] = meant

\* A condition is the entity tag that was asked about, on the wire and as it is read,
\* if the tag has no comma: lists are cut at commas, between quotes too.
ConditionIsKept ==
    header \in {"If-Match", "If-None-Match"} /\ asked # <<>> =>
        /\ IsEntityTag(asked.tag)
        /\ "," \notin ToSet(asked.tag.tag) =>
              /\ wire = PrintHeader(header, OneTag(asked.tag))
              /\ got # <<>> => got[1] = Ok(OneTag(asked.tag))

TagInv == TagIsKept /\ ConditionIsKept

(* The value of an ETag header is an entity tag.                            *)
LEMMA ETagIsOneTag ==
    ASSUME NEW v, HasType("ETag", v)
    PROVE  IsEntityTag(v)
<1>1. PICK h : h = MacroHeaders["ETag"]
  OBVIOUS
<1>2. h.grammar = "single" /\ h.item = "entity tag" /\ "ETag" \in DOMAIN MacroHeaders
  <2>1. PICK g : g = Single("entity tag")
    OBVIOUS
  <2>2. h = g /\ "ETag" \in DOMAIN MacroHeaders
    BY <1>1, <2>1, TagHeaders DEF ETag
  <2>3. g.grammar = "single" /\ g.item = "entity tag"
    BY <2>1 DEF Single
  <2> QED
    BY <2>2, <2>3
<1>3. IsValue(h, v)
  BY <1>1, <1>2 DEF HasType
<1>4. IsItem("entity tag", v)
  BY <1>2, <1>3 DEF IsValue
<1> QED
  BY <1>4 DEF IsItem

(* An ETag header that is sent, of whatever tag a program may build.        *)
LEMMA TagInit ==
    ASSUME Init
    PROVE  TagInv
<1>1. got = <<>> /\ asked = <<>>
  BY DEF Init
<1>2. ASSUME header = "ETag", meant.ok
      PROVE  meant = Ok(meant.val) /\ IsEntityTag(meant.val) /\ ParseHeader("ETag", wire) = meant
  <2>1. CASE \E m \in Sent : header = m.header /\ meant = Ok(m.value)
                             /\ wire = PrintHeader(m.header, m.value)
    <3>1. PICK m \in Sent : header = m.header /\ meant = Ok(m.value)
                            /\ wire = PrintHeader(m.header, m.value)
      BY <2>1
    <3>2. IsEntityTag(m.value) /\ meant.val = m.value
      BY <1>2, <3>1, SentAssumption, ETagIsOneTag DEF Ok
    <3>3. wire = PrintHeader("ETag", m.value)
      BY <1>2, <3>1
    <3> QED
      BY <3>1, <3>2, <3>3, ETagIsReadBack
  <2>2. CASE \E m \in Arrivals : header = m.header /\ wire = m.lines
                                 /\ meant = ParseHeader(m.header, m.lines)
    <3>1. PICK m \in Arrivals : header = m.header /\ wire = m.lines
                                /\ meant = ParseHeader(m.header, m.lines)
      BY <2>2
    <3>2. IsText(wire) /\ \A i \in DOMAIN wire : IsText(wire[i])
      BY <3>1, ArrivalsAssumption
    <3>3. meant = ParseHeader("ETag", wire)
      BY <1>2, <3>1
    <3> QED
      BY <1>2, <3>2, <3>3, ETagIsTag
  <2> QED
    BY <2>1, <2>2 DEF Init
<1> QED
  BY <1>1, <1>2 DEF TagInv, TagIsKept, ConditionIsKept

(* A relay reads what was meant, and prints it again.                       *)
LEMMA TagRelay ==
    ASSUME TagInv, Relay
    PROVE  TagInv'
<1>1. PICK reading : reading = ParseHeader(header, wire)
  OBVIOUS
<1>2. /\ got' = <<reading>> /\ header' = header /\ meant' = meant /\ asked' = asked
      /\ wire' = IF reading.ok /\ CanPrint(header, reading.val)
                 THEN PrintHeader(header, reading.val) ELSE wire
  BY <1>1 DEF Relay
<1>3. got'[1] = reading
  BY <1>2
<1>4. TagIsKept'
  <2> SUFFICES ASSUME header = "ETag", meant.ok
               PROVE  /\ meant = Ok(meant.val) /\ IsEntityTag(meant.val)
                      /\ ParseHeader("ETag", wire') = meant
                      /\ got'[1] = meant
    BY <1>2 DEF TagIsKept
  <2>1. meant = Ok(meant.val) /\ IsEntityTag(meant.val) /\ reading = meant
    BY <1>1 DEF TagInv, TagIsKept
  <2>2. wire' = PrintHeader("ETag", meant.val)
    BY <1>2, <2>1 DEF CanPrint
  <2> QED
    BY <1>3, <2>1, <2>2, ETagIsReadBack
<1>5. ConditionIsKept'
  <2> SUFFICES ASSUME header \in {"If-Match", "If-None-Match"}, asked # <<>>
               PROVE  /\ IsEntityTag(asked.tag)
                      /\ "," \notin ToSet(asked.tag.tag) =>
                            /\ wire' = PrintHeader(header, OneTag(asked.tag))
                            /\ got'[1] = Ok(OneTag(asked.tag))
    BY <1>2 DEF ConditionIsKept
  <2>1. IsEntityTag(asked.tag)
    BY DEF TagInv, ConditionIsKept
  <2>2. ASSUME "," \notin ToSet(asked.tag.tag)
        PROVE  wire' = PrintHeader(header, OneTag(asked.tag)) /\ reading = Ok(OneTag(asked.tag))
    <3>1. wire = PrintHeader(header, OneTag(asked.tag))
      BY <2>2 DEF TagInv, ConditionIsKept
    <3>2. reading = Ok(OneTag(asked.tag))
      BY <1>1, <2>1, <2>2, <3>1, ConditionIsReadBack
    <3>3. reading.ok /\ reading.val = OneTag(asked.tag)
      BY <3>2 DEF Ok
    <3> QED
      BY <1>2, <3>2, <3>3 DEF CanPrint
  <2> QED
    BY <1>3, <2>1, <2>2
<1> QED
  BY <1>4, <1>5 DEF TagInv

(* A client asks about the tag it was given, which is the one that was      *)
(* meant.                                                                   *)
LEMMA TagRevalidate ==
    ASSUME TagInv, Revalidate
    PROVE  TagInv'
<1>1. header = "ETag" /\ got # <<>> /\ meant.ok
  BY DEF Revalidate
<1>2. IsEntityTag(meant.val) /\ meant = Ok(meant.val) /\ got[1] = meant
  BY <1>1 DEF TagInv, TagIsKept
<1>3. PICK condition \in {"If-None-Match", "If-Match"} :
         Send(condition, [any |-> FALSE, items |-> <<got[1].val>>], [tag |-> meant.val])
  BY DEF Revalidate
<1>4. /\ header' = condition /\ got' = <<>> /\ asked' = [tag |-> meant.val]
      /\ wire' = PrintHeader(condition, OneTag(meant.val))
  BY <1>2, <1>3 DEF Send, OneTag
<1>5. asked'.tag = meant.val /\ header' # "ETag"
  BY <1>4
<1>6. TagIsKept'
  BY <1>5 DEF TagIsKept
<1>7. ConditionIsKept'
  BY <1>2, <1>4, <1>5 DEF ConditionIsKept
<1> QED
  BY <1>6, <1>7 DEF TagInv

(* Lines are combined of headers with several lines only, which neither an  *)
(* ETag nor a condition that asks for one tag without a comma is.           *)
LEMMA TagMerge ==
    ASSUME TagInv, MergeLines
    PROVE  TagInv'
<1>1. header \in Combined /\ Len(wire) > 1
      /\ header' = header /\ meant' = meant /\ got' = got /\ asked' = asked
  BY DEF MergeLines
<1>2. header # "ETag"
  <2>1. MacroHeaders["ETag"].grammar = "single"
    BY ETagIsAlone
  <2> QED
    BY <1>1, <2>1 DEF Combined
<1>3. TagIsKept'
  BY <1>1, <1>2 DEF TagIsKept
<1>4. ConditionIsKept'
  <2> SUFFICES ASSUME header \in {"If-Match", "If-None-Match"}, asked # <<>>
               PROVE  IsEntityTag(asked.tag) /\ "," \in ToSet(asked.tag.tag)
    BY <1>1 DEF ConditionIsKept
  <2>1. IsEntityTag(asked.tag)
    BY DEF TagInv, ConditionIsKept
  <2>2. ASSUME "," \notin ToSet(asked.tag.tag) PROVE FALSE
    <3>1. wire = PrintHeader(header, OneTag(asked.tag))
      BY <2>2 DEF TagInv, ConditionIsKept
    <3>2. Len(wire) = 1
      BY <2>1, <3>1, ConditionIsReadBack
    <3> QED
      BY <1>1, <3>2
  <2> QED
    BY <2>1, <2>2
<1> QED
  BY <1>3, <1>4 DEF TagInv

(* Headers with an entity tag are kept, from what is sent or arrives to     *)
(* what is read after any number of hops (fmt_header and parse_header of    *)
(* ETag, If-Match and If-None-Match).                                       *)
THEOREM EntityTagsAreKept == Spec => []TagInv
<1>1. Init => TagInv
  BY TagInit
<1>2. TagInv /\ [Next]_vars => TagInv'
  <2> SUFFICES ASSUME TagInv, [Next]_vars PROVE TagInv'
    OBVIOUS
  <2>1. CASE Relay
    BY <2>1, TagRelay
  <2>2. CASE MergeLines
    BY <2>2, TagMerge
  <2>3. CASE EncodeAppend
    <3>1. header' = header /\ asked' = <<>> /\ header \in Combined
      BY <2>3 DEF EncodeAppend, EncodedLists
    <3>2. header # "ETag"
      <4>1. MacroHeaders["ETag"].grammar = "single"
        BY ETagIsAlone
      <4> QED
        BY <3>1, <4>1 DEF Combined
    <3> QED
      BY <3>1, <3>2 DEF TagInv, TagIsKept, ConditionIsKept
  <2>4. CASE AddCookie
    <3>1. header' = "Cookie"
      BY <2>4 DEF AddCookie, Send
    <3> QED
      BY <3>1 DEF TagInv, TagIsKept, ConditionIsKept
  <2>5. CASE ServeRange
    <3>1. header' = "Content-Range"
      BY <2>5 DEF ServeRange, Send
    <3> QED
      BY <3>1 DEF TagInv, TagIsKept, ConditionIsKept
  <2>6. CASE Revalidate
    BY <2>6, TagRevalidate
  <2>7. CASE UNCHANGED vars
    BY <2>7 DEF vars, TagInv, TagIsKept, ConditionIsKept
  <2> QED
    BY <2>1, <2>2, <2>3, <2>4, <2>5, <2>6, <2>7 DEF Next
<1> QED
  BY <1>1, <1>2, PTL DEF Spec

(* A client that presents the entity tag it was given is recognised by a    *)
(* server whose tag is still the same, however often both headers were      *)
(* relayed, for every tag without a comma; by If-Match only if neither is   *)
(* weak (entity.rs strong_eq and weak_eq).                                  *)
THEOREM ClientsAreRecognised == Spec => []RevalidationMatches
<1>1. TagInv => RevalidationMatches
  <2> SUFFICES ASSUME TagInv, header \in {"If-None-Match", "If-Match"}, asked # <<>>, got # <<>>,
                      "," \notin ToSet(asked.tag.tag)
               PROVE  /\ got[1].ok
                      /\ \A weakened \in BOOLEAN :
                            LET current == [asked.tag EXCEPT !.weak = @ \/ weakened]
                                Matches(e) == IF header = "If-Match" THEN StrongEq(e, current)
                                              ELSE WeakEq(e, current)
                            IN  (\E i \in DOMAIN got[1].val.items : Matches(got[1].val.items[i]))
                                    <=> (header = "If-Match" => ~current.weak)
    BY DEF RevalidationMatches
  <2>1. PICK e : e = asked.tag
    OBVIOUS
  <2>2. IsEntityTag(e) /\ got[1] = Ok(OneTag(e))
    BY <2>1 DEF TagInv, ConditionIsKept
  <2>3. got[1].ok /\ got[1].val.items = <<e>>
    <3>1. PICK v : v = OneTag(e)
      OBVIOUS
    <3>2. Ok(v).ok /\ Ok(v).val = v
      BY DEF Ok
    <3>3. v.items = <<e>>
      BY <3>1 DEF OneTag
    <3> QED
      BY <2>2, <3>1, <3>2, <3>3
  <2>4. e.weak \in BOOLEAN /\ e = [weak |-> e.weak, tag |-> e.tag]
    BY <2>2 DEF IsEntityTag
  <2>5. ASSUME NEW weakened \in BOOLEAN, NEW current, current = [e EXCEPT !.weak = @ \/ weakened]
        PROVE  (IF header = "If-Match" THEN StrongEq(e, current) ELSE WeakEq(e, current))
                  <=> (header = "If-Match" => ~current.weak)
    <3>1. current.tag = e.tag /\ current.weak = (e.weak \/ weakened)
      BY <2>4, <2>5
    <3> QED
      BY <2>4, <2>5, <3>1 DEF StrongEq, WeakEq
  <2>6. DOMAIN <<e>> = {1} /\ <<e>>[1] = e
    BY OnePlace
  <2>7. ASSUME NEW weakened \in BOOLEAN
        PROVE  LET current == [e EXCEPT !.weak = @ \/ weakened]
                   Matches(f) == IF header = "If-Match" THEN StrongEq(f, current)
                                 ELSE WeakEq(f, current)
               IN  (\E i \in DOMAIN <<e>> : Matches(<<e>>[i]))
                       <=> (header = "If-Match" => ~current.weak)
    <3>1. PICK current : current = [e EXCEPT !.weak = @ \/ weakened]
      OBVIOUS
    <3>2. (IF header = "If-Match" THEN StrongEq(e, current) ELSE WeakEq(e, current))
             <=> (header = "If-Match" => ~current.weak)
      BY <2>5, <3>1
    <3> QED
      BY <2>6, <3>1, <3>2
  <2> QED
    BY <2>1, <2>3, <2>7
<1> QED
  BY <1>1, EntityTagsAreKept, PTL

-----------------------------------------------------------------------------
(* Lists of texts, printed with commas between them and split again.       *)

\* One text after the other, and a text of one token.
Both(s, t) == s \o t
Alone(token) == <<token>>

(* What is known of a text of one token.                                    *)
LEMMA AloneIs ==
    ASSUME NEW token
    PROVE  /\ IsText(Alone(token)) /\ Len(Alone(token)) = 1
           /\ Alone(token)[1] = token /\ ToSet(Alone(token)) = {token}
<1>1. IsText(<<token>>) /\ Len(<<token>>) = 1 /\ <<token>>[1] = token
  BY ShortTexts
<1>2. ToSet(<<token>>) = {token}
  BY DEF ToSet
<1> QED
  BY <1>1, <1>2 DEF Alone

\* A text has the places and the tokens of two others.
AreBoth(all, s, t) ==
    /\ IsText(all) /\ Len(all) = Len(s) + Len(t) /\ ToSet(all) = ToSet(s) \cup ToSet(t)
    /\ \A i \in 1..Len(s) : all[i] = s[i]
    /\ \A i \in 1..Len(t) : all[Len(s) + i] = t[i]

(* The places and the tokens of two texts, one after the other.             *)
LEMMA PlacesOfBoth ==
    ASSUME NEW s, NEW t, IsText(s), IsText(t)
    PROVE  AreBoth(Both(s, t), s, t)
<1> DEFINE S == ToSet(s) \cup ToSet(t)
<1>1. s \in Seq(S) /\ t \in Seq(S)
  BY TextIs
<1> HIDE DEF S
<1>2. s \o t \in Seq(S) /\ Len(s \o t) = Len(s) + Len(t)
  BY <1>1
<1>3. \A i \in 1..Len(s) : (s \o t)[i] = s[i]
  BY <1>1
<1>4. \A i \in 1..Len(t) : (s \o t)[Len(s) + i] = t[i]
  BY <1>1
<1>5. IsText(s \o t) /\ ToSet(s \o t) = ToSet(s) \cup ToSet(t)
  BY <1>2, SeqIsText, TokensOfBoth
<1>6. Both(s, t) = s \o t
  BY DEF Both
<1> QED
  BY <1>2, <1>3, <1>4, <1>5, <1>6, Zenon DEF AreBoth

(* It is the same in which order three texts are put together.              *)
LEMMA TextsTogether ==
    ASSUME NEW s, NEW t, NEW u, IsText(s), IsText(t), IsText(u)
    PROVE  Both(Both(s, t), u) = Both(s, Both(t, u))
<1> DEFINE S == ToSet(s) \cup ToSet(t) \cup ToSet(u)
<1>1. s \in Seq(S) /\ t \in Seq(S) /\ u \in Seq(S)
  BY TextIs
<1> HIDE DEF S
<1>2. (s \o t) \o u = s \o (t \o u)
  BY <1>1, ConcatAssociative
<1> QED
  BY <1>2, Zenon DEF Both

(* Texts are joined one by one.                                             *)
LEMMA JoinedOneByOne ==
    ASSUME NEW texts, Len(texts) \in Nat \ {0}
    PROVE  \E flat : /\ flat = [i \in 1..Len(texts) |-> IF i = 1 THEN texts[i] ELSE Both(flat[i - 1], texts[i])]
                     /\ FlattenSeq(texts) = flat[Len(texts)]
<1> DEFINE n == Len(texts)
           Step(g, i) == IF i = 1 THEN texts[i] ELSE Both(g[i - 1], texts[i])
           flat == CHOOSE g : g = [i \in 1..n |-> Step(g, i)]
           Has(m) == \E g : g = [i \in 1..m |-> Step(g, i)]
           Missing == {m \in 1..n : ~Has(m)}
<1>1. n \in Nat \ {0}
  OBVIOUS
<1>2. FlattenSeq(texts) = flat[n]
  BY DEF FlattenSeq, Both
<1> HIDE DEF n
<1>3. Missing = {}
  <2> SUFFICES ASSUME Missing # {} PROVE FALSE
    OBVIOUS
  <2>1. Missing \subseteq Nat
    <3> HIDE DEF Has
    <3> QED
      BY <1>1
  <2>2. PICK m \in Missing : \A k \in Missing : m <= k
    <3> HIDE DEF Missing
    <3> QED
      BY <2>1, LeastMember
  <2>3. m \in 1..n /\ ~Has(m)
    OBVIOUS
  <2>4. CASE m = 1
    <3> DEFINE g == [i \in 1..m |-> texts[1]]
    <3>1. g = [i \in 1..m |-> Step(g, i)]
      BY <2>4
    <3> QED
      BY <2>3, <3>1
  <2>5. CASE m # 1
    <3>1. m - 1 \in 1..n /\ ~(m <= m - 1)
      BY <1>1, <2>3, <2>5
    <3>2. Has(m - 1)
      <4> HIDE DEF Has
      <4> QED
        BY <2>2, <3>1
    <3>3. PICK g : g = [i \in 1..(m - 1) |-> Step(g, i)]
      BY <3>2
    <3> DEFINE h == [i \in 1..m |-> IF i = m THEN Both(g[m - 1], texts[m]) ELSE g[i]]
    <3>4. ASSUME NEW i \in 1..m PROVE h[i] = Step(h, i)
      <4>1. CASE i = m
        <5>1. m - 1 \in 1..m /\ m - 1 # m
          BY <1>1, <2>3, <2>5
        <5>2. h[m] = Both(g[m - 1], texts[m]) /\ h[m - 1] = g[m - 1]
          BY <4>1, <5>1
        <5> HIDE DEF h
        <5> QED
          BY <2>5, <4>1, <5>2
      <4>2. CASE i # m
        <5>1. i \in 1..(m - 1)
          BY <2>3, <4>2
        <5>2. g[i] = Step(g, i)
          BY <3>3, <5>1
        <5>3. i # 1 => i - 1 \in 1..m /\ i - 1 # m /\ h[i - 1] = g[i - 1]
          BY <2>3, <5>1
        <5> QED
          BY <4>2, <5>2, <5>3
      <4> QED
        BY <4>1, <4>2
    <3>5. h = [i \in 1..m |-> Step(h, i)]
      <4> HIDE DEF Step
      <4> QED
        BY <3>4
    <3>6. Has(m)
      <4> HIDE DEF h, Step
      <4> QED
        BY <3>5
    <3> QED
      BY <2>3, <3>6
  <2> QED
    BY <2>4, <2>5
<1>4. flat = [i \in 1..n |-> Step(flat, i)]
  <2>1. Has(n)
    <3> HIDE DEF Has
    <3> QED
      BY <1>1, <1>3
  <2> HIDE DEF Step
  <2> QED
    BY <2>1
<1> HIDE DEF flat
<1> QED
  BY <1>2, <1>4 DEF n

(* There is one number for each place in the order of a set.                *)
LEMMA KthIs ==
    ASSUME NEW S \in SUBSET Nat, IsFiniteSet(S), NEW k \in 1..Cardinality(S),
           NEW i \in S, Cardinality({j \in S : j < i}) = k - 1
    PROVE  Kth(S, k) = i
<1> DEFINE Below(x) == {j \in S : j < x}
<1>1. PICK x : x = Kth(S, k)
  OBVIOUS
<1>2. x \in S /\ Cardinality(Below(x)) = k - 1
  BY <1>1, KthMember DEF Kth
<1>3. ASSUME NEW y \in S, NEW z \in S, y < z PROVE Cardinality(Below(y)) # Cardinality(Below(z))
  <2>1. Below(y) \in SUBSET Below(z) /\ y \in Below(z) /\ y \notin Below(y)
    <3>1. y \in Int /\ z \in Int /\ \A j \in S : j \in Int
      OBVIOUS
    <3>2. ~(y < y) /\ \A j \in S : j < y => j < z
      BY <1>3, <3>1
    <3> QED
      BY <1>3, <3>2
  <2>2. IsFiniteSet(Below(z))
    BY FS_Subset
  <2> HIDE DEF Below
  <2> QED
    BY <2>1, <2>2, FS_Subset
<1>4. ~(x < i) /\ ~(i < x)
  BY <1>2, <1>3
<1> QED
  BY <1>1, <1>2, <1>4

\* Between two places the texts are the same.
Agree(s, t, m, n) == \A i \in m..n : s[i] = t[i]

(* Pieces of two texts that agree there are the same.                       *)
LEMMA SamePiece ==
    ASSUME NEW s, NEW t, NEW m \in Int, NEW n \in Int, Agree(s, t, m, n)
    PROVE  SubSeq(s, m, n) = SubSeq(t, m, n)
<1>0. \A i \in m..n : s[i] = t[i]
  BY DEF Agree
<1> DEFINE S == {t[i] : i \in m..n}
<1>1. \A i \in m..n : t[i] \in S /\ s[i] \in S
  BY <1>0
<1> HIDE DEF S
<1>2. PICK u, v : u = SubSeq(s, m, n) /\ v = SubSeq(t, m, n)
  OBVIOUS
<1>3. /\ u \in Seq(S) /\ Len(u) = IF m <= n THEN n - m + 1 ELSE 0
      /\ \A i \in 1..(n - m + 1) : u[i] = s[m + i - 1]
  BY <1>1, <1>2, SubSeqProperties
<1>4. /\ v \in Seq(S) /\ Len(v) = IF m <= n THEN n - m + 1 ELSE 0
      /\ \A i \in 1..(n - m + 1) : v[i] = t[m + i - 1]
  BY <1>1, <1>2, SubSeqProperties
<1>5. ASSUME NEW i \in 1..Len(u) PROVE u[i] = v[i]
  <2>1. i \in 1..(n - m + 1) /\ m + i - 1 \in m..n
    BY <1>3
  <2> QED
    BY <1>0, <1>3, <1>4, <2>1
<1> QED
  BY <1>2, <1>3, <1>4, <1>5, SeqEqual

\* Split at the token, all has the pieces of t and one more.
SplitsFurther(all, t, token, piece) ==
    /\ Len(Split(t, token)) \in Nat \ {0}
    /\ Len(Split(all, token)) = Len(Split(t, token)) + 1
    /\ \A k \in 1..Len(Split(t, token)) : Split(all, token)[k] = Split(t, token)[k]
    /\ Split(all, token)[Len(Split(t, token)) + 1] = piece

(* A separator and a text without one are one more piece.                   *)
LEMMA SplitGrows ==
    ASSUME NEW t, IsText(t), NEW token, NEW x, IsText(x), token \notin ToSet(x),
           NEW all, all = Both(Both(t, Alone(token)), x)
    PROVE  IsText(all) /\ SplitsFurther(all, t, token, x)
<1>0. PICK m, n, S, T : /\ m = Len(t) + 1 /\ n = Cardinality(S)
                        /\ S = Places(t, token) /\ T = Places(all, token)
  OBVIOUS
<1>1. Len(t) \in Nat /\ DOMAIN t = 1..Len(t) /\ Len(x) \in Nat /\ DOMAIN x = 1..Len(x)
  BY TextIs
<1>2. /\ IsText(all) /\ Len(all) = m + Len(x) /\ DOMAIN all = 1..(m + Len(x))
      /\ \A i \in 1..Len(t) : all[i] = t[i]
      /\ all[m] = token
      /\ \A i \in 1..Len(x) : all[m + i] = x[i]
  <2>1. PICK u : u = Both(t, Alone(token))
    OBVIOUS
  <2>2. /\ IsText(u) /\ Len(u) = m /\ \A i \in 1..Len(t) : u[i] = t[i]
        /\ \A i \in 1..1 : u[Len(t) + i] = Alone(token)[i]
    <3>1. IsText(Alone(token)) /\ Len(Alone(token)) = 1
      BY AloneIs
    <3>2. AreBoth(u, t, Alone(token))
      BY <2>1, <3>1, PlacesOfBoth
    <3> QED
      BY <1>0, <3>1, <3>2 DEF AreBoth
  <2>3. u[m] = token
    BY <1>0, <2>2, AloneIs
  <2>4. /\ IsText(all) /\ Len(all) = m + Len(x) /\ \A i \in 1..m : all[i] = u[i]
        /\ \A i \in 1..Len(x) : all[m + i] = x[i]
    BY <2>1, <2>2, PlacesOfBoth DEF AreBoth
  <2>5. DOMAIN all = 1..(m + Len(x))
    BY <2>4, TextIs
  <2>6. m \in 1..m /\ \A i \in 1..Len(t) : i \in 1..m
    BY <1>0, <1>1
  <2> QED
    BY <2>2, <2>3, <2>4, <2>5, <2>6
<1>3. S \in SUBSET DOMAIN t /\ T = S \cup {m}
  <2>1. \A i \in 1..Len(x) : x[i] # token
    BY <1>1 DEF ToSet
  <2>2. \A i \in 1..(m + Len(x)) : i \in 1..Len(t) \/ i = m \/ (i - m \in 1..Len(x) /\ m + (i - m) = i)
    BY <1>0, <1>1
  <2>3. ASSUME NEW i \in 1..(m + Len(x))
        PROVE  all[i] = token <=> i = m \/ (i \in 1..Len(t) /\ t[i] = token)
    <3>1. CASE i \in 1..Len(t)
      <4>1. i # m /\ all[i] = t[i]
        BY <1>0, <1>1, <1>2, <3>1
      <4> QED
        BY <3>1, <4>1
    <3>2. CASE i = m
      BY <1>2, <3>2
    <3>3. CASE i - m \in 1..Len(x) /\ m + (i - m) = i
      <4>1. all[m + (i - m)] = x[i - m] /\ x[i - m] # token
        BY <1>2, <2>1, <3>3
      <4>2. i # m /\ i \notin 1..Len(t)
        BY <1>0, <1>1, <3>3
      <4> QED
        BY <3>3, <4>1, <4>2
    <3> QED
      BY <2>2, <3>1, <3>2, <3>3
  <2>4. m \in 1..(m + Len(x)) /\ 1..Len(t) \subseteq 1..(m + Len(x))
    BY <1>0, <1>1
  <2> QED
    BY <1>0, <1>1, <1>2, <2>3, <2>4 DEF Places
<1>4. /\ S \in SUBSET Nat /\ IsFiniteSet(S) /\ n \in Nat /\ m \in Nat
      /\ \A y \in S : y < m
  <2>1. S \in SUBSET Nat /\ IsFiniteSet(S) /\ n \in Nat
    BY <1>0, <1>3, PlacesAreFinite
  <2>2. m \in Nat /\ \A y \in S : y < m
    BY <1>0, <1>1, <1>3
  <2> QED
    BY <2>1, <2>2
<1>5. /\ Cardinality(T) = n + 1
      /\ \A k \in 1..n : Kth(T, k) = Kth(S, k) /\ Kth(S, k) \in S
      /\ Kth(T, n + 1) = m
  <2>1. Cardinality(S) \in Nat /\ m \notin S /\ T = S \cup {m}
    BY <1>0, <1>3, <1>4
  <2>3. T \in SUBSET Nat /\ IsFiniteSet(T) /\ Cardinality(T) = Cardinality(S) + 1
    BY <1>4, <2>1, FS_AddElement
  <2>4. ASSUME NEW k \in 1..Cardinality(S) PROVE Kth(T, k) = Kth(S, k)
    <3>1. PICK i : i = Kth(S, k)
      OBVIOUS
    <3>2. i \in S /\ Cardinality({j \in S : j < i}) = k - 1
      BY <1>4, <3>1, KthMember DEF Kth
    <3>3. i \in Nat /\ i < m /\ ~(m < i)
      BY <1>4, <3>2
    <3>4. {j \in T : j < i} = {j \in S : j < i}
      BY <2>1, <3>3
    <3>5. k \in 1..Cardinality(T) /\ i \in T
      BY <2>1, <2>3, <3>2
    <3> QED
      BY <2>3, <3>1, <3>2, <3>4, <3>5, KthIs
  <2>5. Kth(T, Cardinality(S) + 1) = m
    <3>1. \A j \in T : j < m <=> j \in S
      BY <1>4, <2>1
    <3>2. {j \in T : j < m} = S
      BY <2>1, <3>1
    <3>3. PICK k : k = Cardinality(S) + 1
      OBVIOUS
    <3>4. k \in 1..Cardinality(T) /\ m \in T /\ Cardinality(S) = k - 1
      BY <2>1, <2>3, <3>3
    <3>5. Cardinality({j \in T : j < m}) = k - 1
      BY <3>2, <3>4, Zenon
    <3> QED
      BY <2>3, <3>3, <3>4, <3>5, KthIs
  <2>2. \A k \in 1..Cardinality(S) : Kth(S, k) \in S
    BY <1>4, KthIsMember
  <2> QED
    BY <1>0, <2>2, <2>3, <2>4, <2>5
<1> DEFINE End(k) == IF k = 0 THEN 0 ELSE IF k = n + 1 THEN Len(t) + 1 ELSE Kth(S, k)
           Till(k) == IF k = 0 THEN 0 ELSE IF k = n + 1 + 1 THEN Len(all) + 1 ELSE Kth(T, k)
<1>6. Split(t, token) = [k \in 1..(n + 1) |-> SubSeq(t, End(k - 1) + 1, End(k) - 1)]
  BY <1>0 DEF Split, CutAt
<1>7. Split(all, token) = [k \in 1..(n + 1 + 1) |-> SubSeq(all, Till(k - 1) + 1, Till(k) - 1)]
  <2>1. Split(all, token) = CutAt(all, T)
    BY <1>0 DEF Split
  <2> QED
    BY <1>5, <2>1 DEF CutAt
<1>8. ASSUME NEW k \in 0..(n + 1) PROVE Till(k) = End(k) /\ End(k) \in 0..m
  <2>1. CASE k = 0
    BY <1>0, <1>1, <2>1
  <2>2. CASE k = n + 1
    BY <1>0, <1>1, <1>4, <1>5, <2>2
  <2>3. CASE k \in 1..n
    <3>1. Kth(S, k) \in 1..Len(t)
      BY <1>0, <1>1, <1>3, <1>5, <2>3
    <3>2. k # 0 /\ k # n + 1 /\ k # n + 1 + 1 /\ Kth(T, k) = Kth(S, k)
      BY <1>4, <1>5, <2>3
    <3>3. Kth(S, k) \in 0..m
      BY <1>0, <1>1, <3>1
    <3> QED
      BY <3>2, <3>3
  <2> QED
    BY <1>4, <2>1, <2>2, <2>3
<1>9. Till(n + 1 + 1) = Len(all) + 1 /\ Till(n + 1) = m
  BY <1>0, <1>4, <1>5
<1>10. Len(Split(t, token)) = n + 1 /\ Len(Split(all, token)) = n + 1 + 1
  BY <1>4, <1>6, <1>7
<1> HIDE DEF End, Till
<1>11. ASSUME NEW k \in 1..(n + 1) PROVE Split(all, token)[k] = Split(t, token)[k]
  <2>1. PICK a, b : a = End(k - 1) + 1 /\ b = End(k) - 1
    OBVIOUS
  <2>2. k - 1 \in 0..(n + 1) /\ k \in 0..(n + 1) /\ k \in 1..(n + 1 + 1)
    BY <1>4
  <2>3. a \in Int /\ b \in Int /\ a >= 1 /\ b <= Len(t) /\ a = Till(k - 1) + 1 /\ b = Till(k) - 1
    BY <1>0, <1>1, <1>8, <2>1, <2>2
  <2>4. Agree(all, t, a, b)
    <3>1. \A i \in a..b : i \in 1..Len(t)
      BY <1>0, <1>1, <2>3
    <3> QED
      BY <1>2, <3>1 DEF Agree
  <2>5. SubSeq(all, a, b) = SubSeq(t, a, b)
    BY <2>3, <2>4, SamePiece
  <2> QED
    BY <1>6, <1>7, <2>1, <2>2, <2>3, <2>5
<1>12. Split(all, token)[n + 1 + 1] = x
  <2>1. n + 1 + 1 \in 1..(n + 1 + 1) /\ n + 1 + 1 - 1 = n + 1
    BY <1>4
  <2>2. Split(all, token)[n + 1 + 1] = SubSeq(all, m + 1, Len(all) + 1 - 1)
    <3>1. PICK k, j : k = n + 1 + 1 /\ j = n + 1
      OBVIOUS
    <3>2. k \in 1..k /\ k - 1 = j
      BY <2>1, <3>1
    <3>3. Till(k - 1) + 1 = m + 1 /\ Till(k) - 1 = Len(all) + 1 - 1
      BY <1>9, <3>1, <3>2
    <3>4. Split(all, token) = [i \in 1..k |-> SubSeq(all, Till(i - 1) + 1, Till(i) - 1)]
      BY <1>7, <3>1
    <3>5. Split(all, token)[k] = SubSeq(all, Till(k - 1) + 1, Till(k) - 1)
      BY <3>2, <3>4
    <3>6. SubSeq(all, Till(k - 1) + 1, Till(k) - 1) = SubSeq(all, m + 1, Len(all) + 1 - 1)
      BY <3>3
    <3>7. Split(all, token)[k] = SubSeq(all, m + 1, Len(all) + 1 - 1)
      BY <3>5, <3>6, Zenon
    <3> QED
      BY <3>1, <3>7, Zenon
  <2>3. Len(all) + 1 - 1 = m + Len(x)
    BY <1>0, <1>1, <1>2
  <2>4. m \in Nat /\ \A i \in 1..Len(x) : all[m + i] = x[i]
    BY <1>2, <1>4
  <2>5. SubSeq(all, m + 1, m + Len(x)) = x
    BY <2>4, PieceIs
  <2> QED
    BY <2>2, <2>3, <2>5
<1>13. Len(Split(t, token)) \in Nat \ {0}
  BY <1>4, <1>10
<1> QED
  BY <1>2, <1>10, <1>11, <1>12, <1>13 DEF SplitsFurther

(* Pieces of two texts that agree there, one place apart, are the same.     *)
LEMMA NextPiece ==
    ASSUME NEW u, NEW t, NEW m \in Int, NEW n \in Int, \A i \in m..n : u[1 + i] = t[i]
    PROVE  SubSeq(u, m + 1, n + 1) = SubSeq(t, m, n)
<1> DEFINE S == {t[i] : i \in m..n}
<1>1. \A i \in m..n : t[i] \in S /\ u[1 + i] \in S
  OBVIOUS
<1> HIDE DEF S
<1>2. \A i \in (m + 1)..(n + 1) : u[i] \in S
  <2> SUFFICES ASSUME NEW i \in (m + 1)..(n + 1) PROVE u[i] \in S
    OBVIOUS
  <2>1. i - 1 \in m..n /\ 1 + (i - 1) = i
    OBVIOUS
  <2>2. u[1 + (i - 1)] \in S
    BY <1>1, <2>1
  <2> QED
    BY <2>1, <2>2
<1>3. PICK v, w : v = SubSeq(u, m + 1, n + 1) /\ w = SubSeq(t, m, n)
  OBVIOUS
<1>4. /\ v \in Seq(S) /\ Len(v) = IF m + 1 <= n + 1 THEN n + 1 - (m + 1) + 1 ELSE 0
      /\ \A i \in 1..(n + 1 - (m + 1) + 1) : v[i] = u[m + 1 + i - 1]
  <2>1. m + 1 \in Int /\ n + 1 \in Int
    OBVIOUS
  <2> QED
    BY <1>2, <1>3, <2>1, SubSeqProperties
<1>5. /\ w \in Seq(S) /\ Len(w) = IF m <= n THEN n - m + 1 ELSE 0
      /\ \A i \in 1..(n - m + 1) : w[i] = t[m + i - 1]
  BY <1>1, <1>3, SubSeqProperties
<1>6. ASSUME NEW i \in 1..Len(v) PROVE v[i] = w[i]
  <2>1. i \in 1..(n - m + 1) /\ i \in 1..(n + 1 - (m + 1) + 1)
    BY <1>4
  <2>2. m + 1 + i - 1 = 1 + (m + i - 1) /\ m + i - 1 \in m..n
    BY <2>1
  <2>3. v[i] = u[1 + (m + i - 1)]
    BY <1>4, <2>1, <2>2
  <2> QED
    BY <1>5, <2>1, <2>2, <2>3
<1>7. Len(v) = Len(w)
  BY <1>4, <1>5
<1> QED
  BY <1>3, <1>4, <1>5, <1>6, <1>7, SeqEqual

(* A token to trim makes no difference before a text that is trimmed.       *)
LEMMA FirstIsTrimmed ==
    ASSUME NEW tokens, NEW t, IsText(t),
           NEW u, IsText(u), Len(u) = Len(t) + 1, u[1] \in tokens, \A i \in 1..Len(t) : u[1 + i] = t[i]
    PROVE  TrimAll(u, tokens) = TrimAll(t, tokens)
<1>1. Len(t) \in Nat /\ DOMAIN t = 1..Len(t)
  BY TextIs
<1>2. /\ IsText(u) /\ Len(u) = Len(t) + 1 /\ DOMAIN u = 1..(Len(t) + 1)
      /\ u[1] \in tokens /\ \A i \in 1..Len(t) : u[1 + i] = t[i]
  BY TextIs
<1> DEFINE kept == {i \in DOMAIN t : t[i] \notin tokens}
           left == {i \in DOMAIN u : u[i] \notin tokens}
<1>3. /\ TrimAll(t, tokens) = IF kept = {} THEN <<>> ELSE SubSeq(t, Min(kept), Max(kept))
      /\ TrimAll(u, tokens) = IF left = {} THEN <<>> ELSE SubSeq(u, Min(left), Max(left))
  BY DEF TrimAll
<1>4. \A i \in kept : i + 1 \in left
  <2> SUFFICES ASSUME NEW i \in kept PROVE i + 1 \in left
    OBVIOUS
  <2>1. i \in 1..Len(t) /\ t[i] \notin tokens /\ i + 1 = 1 + i
    BY <1>1
  <2>2. u[i + 1] = t[i] /\ i + 1 \in DOMAIN u
    BY <1>1, <1>2, <2>1
  <2> QED
    BY <2>1, <2>2
<1>5. \A i \in left : i \in Int /\ i - 1 \in kept
  <2> SUFFICES ASSUME NEW i \in left PROVE i \in Int /\ i - 1 \in kept
    OBVIOUS
  <2>1. i \in 1..(Len(t) + 1) /\ i # 1 /\ u[i] \notin tokens
    BY <1>2
  <2>2. i - 1 \in 1..Len(t) /\ 1 + (i - 1) = i
    BY <1>1, <2>1
  <2>3. t[i - 1] = u[1 + (i - 1)]
    BY <1>2, <2>2
  <2> QED
    BY <1>1, <2>1, <2>2, <2>3
<1>6. kept \in SUBSET DOMAIN t /\ left \in SUBSET DOMAIN u
  OBVIOUS
<1> HIDE DEF kept, left
<1>7. CASE kept = {}
  BY <1>3, <1>5, <1>7
<1>8. CASE kept # {}
  <2>1. /\ Min(kept) \in kept /\ Max(kept) \in kept
        /\ \A y \in kept : Min(kept) <= y /\ Max(kept) >= y
    <3>1. kept \in SUBSET Nat /\ IsFiniteSet(kept)
      BY <1>6, PlacesAreFinite
    <3> QED
      BY <1>8, <3>1, LeastMember, GreatestMember
  <2>2. left # {} /\ Min(left) \in left /\ Max(left) \in left
        /\ \A y \in left : Min(left) <= y /\ Max(left) >= y
    <3>1. left \in SUBSET Nat /\ IsFiniteSet(left) /\ left # {}
      BY <1>2, <1>4, <1>6, <2>1, PlacesAreFinite
    <3> QED
      BY <3>1, LeastMember, GreatestMember
  <2>3. PICK a, b, c, d : a = Min(kept) /\ b = Max(kept) /\ c = Min(left) /\ d = Max(left)
    OBVIOUS
  <2>4. a \in 1..Len(t) /\ b \in 1..Len(t)
    BY <1>1, <1>6, <2>1, <2>3
  <2>5. c - 1 \in kept /\ d - 1 \in kept /\ a + 1 \in left /\ b + 1 \in left /\ c \in Int /\ d \in Int
    BY <1>4, <1>5, <2>1, <2>2, <2>3
  <2>6. a <= c - 1 /\ c <= a + 1 /\ b >= d - 1 /\ d >= b + 1
    BY <2>1, <2>2, <2>3, <2>5
  <2>7. c = a + 1 /\ d = b + 1
    BY <2>4, <2>5, <2>6
  <2>8. SubSeq(u, a + 1, b + 1) = SubSeq(t, a, b)
    <3>1. a \in Int /\ b \in Int /\ \A i \in a..b : i \in 1..Len(t)
      BY <1>1, <2>4
    <3>2. \A i \in a..b : u[1 + i] = t[i]
      BY <1>2, <3>1
    <3> QED
      BY <3>1, <3>2, NextPiece
  <2> QED
    BY <1>3, <1>8, <2>2, <2>3, <2>7, <2>8
<1> QED
  BY <1>7, <1>8

(* All the elements of a text are the text.                                 *)
LEMMA AllSelected ==
    ASSUME NEW s, IsText(s), NEW places, places = DOMAIN s
    PROVE  ElementsAt(s, places) = s
<1>1. Len(s) \in Nat /\ places = 1..Len(s) /\ s = [i \in 1..Len(s) |-> s[i]]
  BY TextIs
<1>2. places \in SUBSET Nat /\ IsFiniteSet(places) /\ Cardinality(places) = Len(s)
  <2>1. IsFiniteSet(1..Len(s)) /\ Cardinality(1..Len(s)) = Len(s)
    BY <1>1, FS_Interval
  <2> QED
    BY <1>1, <2>1
<1>3. ASSUME NEW k \in 1..Len(s) PROVE Kth(places, k) = k
  <2>1. {j \in places : j < k} = 1..(k - 1)
    BY <1>1
  <2>2. Cardinality(1..(k - 1)) = k - 1
    <3>1. k - 1 \in Int /\ (1 > k - 1 => k - 1 = 0)
      BY <1>1
    <3> QED
      BY <3>1, FS_Interval
  <2>3. Cardinality({j \in places : j < k}) = k - 1
    BY <2>1, <2>2, Zenon
  <2>4. k \in 1..Cardinality(places) /\ k \in places
    BY <1>1, <1>2
  <2> QED
    BY <1>2, <2>3, <2>4, KthIs
<1>4. ElementsAt(s, places) = [k \in 1..Len(s) |-> s[k]]
  BY <1>2, <1>3 DEF ElementsAt
<1> QED
  BY <1>1, <1>4

(* One more text is joined, after a separator that begins with a token.     *)
LEMMA OneMorePiece ==
    ASSUME NEW t, IsText(t), NEW token,
           NEW rest, IsText(rest), token \notin ToSet(rest), NEW u, IsText(u), token \notin ToSet(u),
           NEW f, f = Both(t, Both(Both(Alone(token), rest), u))
    PROVE  /\ IsText(f) /\ ToSet(f) = ToSet(t) \cup {token} \cup ToSet(rest) \cup ToSet(u)
           /\ SplitsFurther(f, t, token, Both(rest, u))
<1>1. PICK x, y : x = Both(rest, u) /\ y = Both(t, Alone(token))
  OBVIOUS
<1>2. IsText(x) /\ ToSet(x) = ToSet(rest) \cup ToSet(u)
  BY <1>1, PlacesOfBoth DEF AreBoth
<1>3. IsText(y) /\ ToSet(y) = ToSet(t) \cup ToSet(Alone(token))
  BY <1>1, AloneIs, PlacesOfBoth DEF AreBoth
<1>4. IsText(Alone(token)) /\ ToSet(Alone(token)) = {token}
  BY AloneIs
<1>5. f = Both(y, x)
  <2>1. Both(Both(Alone(token), rest), u) = Both(Alone(token), x)
    BY <1>1, AloneIs, TextsTogether
  <2>2. Both(t, Both(Alone(token), x)) = Both(y, x)
    BY <1>1, <1>2, AloneIs, TextsTogether
  <2> QED
    BY <2>1, <2>2
<1>6. IsText(f) /\ ToSet(f) = ToSet(y) \cup ToSet(x)
  BY <1>2, <1>3, <1>5, PlacesOfBoth DEF AreBoth
<1>7. f = Both(Both(t, Alone(token)), x) /\ token \notin ToSet(x)
  BY <1>1, <1>2, <1>5
<1>8. SplitsFurther(f, t, token, x)
  BY <1>2, <1>7, SplitGrows
<1> QED
  BY <1>1, <1>2, <1>3, <1>4, <1>6, <1>8

\* Texts over S without the token.
Whole(texts, token, S) ==
    \A i \in 1..Len(texts) : IsText(texts[i]) /\ token \notin ToSet(texts[i]) /\ ToSet(texts[i]) \subseteq S

\* A text over S whose pieces at the token are texts, after the rest of a separator.
SplitsInto(all, texts, token, rest, S) ==
    /\ IsText(all) /\ ToSet(all) \subseteq S
    /\ Len(Split(all, token)) = Len(texts)
    /\ Split(all, token)[1] = texts[1]
    /\ \A i \in 2..Len(texts) : Split(all, token)[i] = Both(rest, texts[i])

(* Texts joined by a separator that begins with a token are the pieces at   *)
(* that token, the rest of the separator before each but the first.         *)
LEMMA JoinedIsSplit ==
    ASSUME NEW texts, IsText(texts), Len(texts) # 0, NEW token, NEW rest, IsText(rest), token \notin ToSet(rest),
           NEW separator, separator = Both(Alone(token), rest),
           NEW S, token \in S, ToSet(rest) \subseteq S,
           Whole(texts, token, S), NEW all, all = Joined(texts, separator)
    PROVE  SplitsInto(all, texts, token, rest, S)
<1> DEFINE n == Len(texts)
           parts == [i \in DOMAIN texts |-> IF i = 1 THEN texts[i] ELSE Both(separator, texts[i])]
<1>1. n \in Nat \ {0} /\ DOMAIN texts = 1..n
  BY TextIs
<1>2. Len(parts) = n /\ DOMAIN parts = 1..n /\ all = FlattenSeq(parts)
  BY <1>1 DEF Joined, Both
<1>3. parts[1] = texts[1] /\ \A i \in 2..n : parts[i] = Both(separator, texts[i])
  <2>1. 1 \in 1..n /\ \A i \in 2..n : i \in 1..n /\ i # 1
    BY <1>1
  <2> QED
    BY <1>1, <2>1
<1>4. \A i \in 1..n : IsText(texts[i]) /\ token \notin ToSet(texts[i]) /\ ToSet(texts[i]) \subseteq S
  BY DEF Whole
<1> HIDE DEF parts, n
<1>5. PICK flat : /\ flat = [i \in 1..n |-> IF i = 1 THEN parts[i] ELSE Both(flat[i - 1], parts[i])]
                  /\ all = flat[n]
  BY <1>1, <1>2, JoinedOneByOne
<1> DEFINE Good(k) ==
               /\ IsText(flat[k]) /\ ToSet(flat[k]) \subseteq S
               /\ Len(Split(flat[k], token)) = k
               /\ Split(flat[k], token)[1] = texts[1]
               /\ \A i \in 2..k : Split(flat[k], token)[i] = Both(rest, texts[i])
           Bad == {k \in 1..n : ~Good(k)}
<1>6. Good(1)
  <2>1. flat[1] = texts[1] /\ 1 \in 1..n
    BY <1>1, <1>3, <1>5
  <2>2. PICK t : t = texts[1]
    OBVIOUS
  <2>3. IsText(t) /\ token \notin ToSet(t) /\ ToSet(t) \subseteq S
    BY <1>4, <2>1, <2>2
  <2>4. Split(t, token) = <<t>>
    BY <2>3, NotSplit
  <2>5. Len(<<t>>) = 1 /\ <<t>>[1] = t /\ 2..1 = {}
    OBVIOUS
  <2> QED
    BY <2>1, <2>2, <2>3, <2>4, <2>5
<1>7. ASSUME NEW m \in 2..n, Good(m - 1) PROVE Good(m)
  <2>1. PICK j, t, u, f : j = m - 1 /\ t = flat[j] /\ u = texts[m] /\ f = flat[m]
    OBVIOUS
  <2>2. m \in 1..n /\ m # 1 /\ j \in 1..n /\ j + 1 = m
    BY <1>1, <2>1
  <2>3. IsText(t) /\ ToSet(t) \subseteq S /\ Len(Split(t, token)) = j /\ Split(t, token)[1] = texts[1]
        /\ \A i \in 2..j : Split(t, token)[i] = Both(rest, texts[i])
    BY <1>7, <2>1
  <2>4. IsText(u) /\ token \notin ToSet(u) /\ ToSet(u) \subseteq S
    BY <1>4, <2>1, <2>2
  <2>5. f = Both(t, Both(Both(Alone(token), rest), u))
    BY <1>3, <1>5, <2>1, <2>2
  <2>6. /\ IsText(f) /\ ToSet(f) = ToSet(t) \cup {token} \cup ToSet(rest) \cup ToSet(u)
        /\ SplitsFurther(f, t, token, Both(rest, u))
    BY <2>3, <2>4, <2>5, OneMorePiece
  <2>7. /\ Len(Split(f, token)) = j + 1
        /\ \A k \in 1..j : Split(f, token)[k] = Split(t, token)[k]
        /\ Split(f, token)[j + 1] = Both(rest, u)
    BY <2>3, <2>6 DEF SplitsFurther
  <2>8. IsText(f) /\ ToSet(f) \subseteq S
    BY <2>3, <2>4, <2>6
  <2>9. Split(f, token)[1] = texts[1]
    BY <1>1, <2>2, <2>3, <2>7
  <2>10. ASSUME NEW i \in 2..m PROVE Split(f, token)[i] = Both(rest, texts[i])
    <3>1. CASE i = m
      BY <2>1, <2>2, <2>7, <3>1
    <3>2. CASE i # m
      <4>1. i \in 2..j /\ i \in 1..j
        BY <1>1, <2>2, <3>2
      <4> QED
        BY <2>3, <2>7, <4>1
    <3> QED
      BY <3>1, <3>2
  <2> QED
    BY <2>1, <2>2, <2>7, <2>8, <2>9, <2>10
<1>8. Bad = {}
  <2> SUFFICES ASSUME Bad # {} PROVE FALSE
    OBVIOUS
  <2>1. Bad \subseteq Nat
    <3> HIDE DEF Good
    <3> QED
      BY <1>1
  <2>2. PICK m \in Bad : \A k \in Bad : m <= k
    <3> HIDE DEF Bad
    <3> QED
      BY <2>1, LeastMember
  <2>3. m \in 1..n /\ ~Good(m)
    <3> HIDE DEF Good
    <3> QED
      OBVIOUS
  <2> HIDE DEF Good
  <2>4. m \in 2..n /\ m - 1 \in 1..n /\ ~(m <= m - 1)
    BY <1>1, <1>6, <2>3
  <2>5. Good(m - 1)
    BY <2>2, <2>4
  <2> QED
    BY <1>7, <2>3, <2>4, <2>5
<1>9. Good(n)
  <2> HIDE DEF Good
  <2> QED
    BY <1>1, <1>8
<1> QED
  BY <1>5, <1>9 DEF n, SplitsInto

\* What stands between two texts of a list.
Comma == ","
Blank == " "

\* The text is not changed when it is written into a line, or split from it.
ListText(t) == IsText(t) /\ Bare(t) /\ IsUtf8(t) /\ Comma \notin ToSet(t)

(* A text of two tokens.                                                    *)
LEMMA TwoAre ==
    ASSUME NEW a, NEW b
    PROVE  <<a, b>> = Both(Alone(a), Alone(b))
<1>1. PICK s, t, u : s = <<a, b>> /\ t = Alone(a) /\ u = Both(Alone(a), Alone(b))
  OBVIOUS
<1>2. s \in Seq({a, b}) /\ Len(s) = 2 /\ s[1] = a /\ s[2] = b
  BY <1>1
<1>3. IsText(u) /\ Len(u) = 2 /\ u[1] = a /\ u[2] = b /\ ToSet(u) \subseteq {a, b}
  <2>1. AreBoth(u, Alone(a), Alone(b))
    BY <1>1, AloneIs, PlacesOfBoth
  <2>2. 1 \in 1..1 /\ 1 + 1 = 2
    OBVIOUS
  <2> QED
    BY <2>1, <2>2, AloneIs DEF AreBoth
<1>4. u \in Seq({a, b})
  BY <1>3, TextIs
<1>5. \A i \in 1..2 : s[i] = u[i]
  <2>1. 1..2 = {1, 2}
    OBVIOUS
  <2> QED
    BY <1>2, <1>3, <2>1
<1>6. s = u
  BY <1>2, <1>3, <1>4, <1>5, SeqEqual
<1> QED
  BY <1>1, <1>6

(* The separator is a comma and a blank.                                    *)
LEMMA SeparatorIs == <<",", " ">> = Both(Alone(Comma), Alone(Blank))
BY TwoAre DEF Comma, Blank

(* The separator of a list: a comma, and the rest of it is a blank.         *)
LEMMA ListSeparator ==
    /\ \A texts : FmtCommaDelimited(texts) = Joined(texts, Both(Alone(Comma), Alone(Blank)))
    /\ Comma \notin {Blank, NewLine, NotUtf8} /\ Blank \notin {NewLine, NotUtf8}
    /\ \A t : Trim(t) = TrimAll(t, {Blank, NewLine})
    /\ AnyLine = Alone("*") /\ Comma # "*"
<1>3. \A texts : FmtCommaDelimited(texts) = Joined(texts, Both(Alone(Comma), Alone(Blank)))
  BY SeparatorIs DEF FmtCommaDelimited
<1>4. Comma \notin {Blank, NewLine, NotUtf8} /\ Blank \notin {NewLine, NotUtf8} /\ Comma # "*"
  BY DEF Comma, Blank, NewLine, NotUtf8
<1>5. \A t : Trim(t) = TrimAll(t, {Blank, NewLine})
  BY DEF Trim, Blank
<1>6. AnyLine = Alone("*")
  BY DEF AnyLine, Alone
<1> QED
  BY <1>3, <1>4, <1>5, <1>6

(* A list of texts, printed in one line with commas and blanks between      *)
(* them, is cut into those texts again.                                     *)
LEMMA LineIsCut ==
    ASSUME NEW texts, IsText(texts), Len(texts) # 0, \A i \in 1..Len(texts) : ListText(texts[i]),
           NEW line, line = FmtCommaDelimited(texts)
    PROVE  /\ IsText(line) /\ NewLine \notin ToSet(line) /\ IsUtf8(line)
           /\ Trimmed(Split(line, Comma)) = texts
           /\ line = AnyLine => texts = <<AnyLine>>
<1>1. PICK n, rest, S : /\ n = Len(texts) /\ rest = Alone(Blank)
                        /\ S = (UNION {ToSet(texts[i]) : i \in 1..Len(texts)}) \cup {Comma, Blank}
  OBVIOUS
<1>2. n \in Nat \ {0} /\ DOMAIN texts = 1..n
  BY <1>1, TextIs
<1>3. IsText(rest) /\ Len(rest) = 1 /\ rest[1] = Blank /\ ToSet(rest) = {Blank}
  BY <1>1, AloneIs
<1>4. \A i \in 1..n : ListText(texts[i]) /\ IsText(texts[i]) /\ Comma \notin ToSet(texts[i])
                      /\ NewLine \notin ToSet(texts[i]) /\ NotUtf8 \notin ToSet(texts[i])
  BY <1>1 DEF ListText, Bare, IsUtf8
<1>5. NewLine \notin S /\ NotUtf8 \notin S /\ Comma \in S /\ ToSet(rest) \subseteq S
      /\ Comma \notin ToSet(rest)
  BY <1>1, <1>3, <1>4, ListSeparator
<1>6. Whole(texts, Comma, S)
  BY <1>1, <1>4 DEF Whole
<1>7. line = Joined(texts, Both(Alone(Comma), rest))
  BY <1>1, ListSeparator
<1>8. PICK pieces : pieces = Split(line, Comma)
  OBVIOUS
<1>9. /\ IsText(line) /\ ToSet(line) \subseteq S
      /\ Len(pieces) = n /\ pieces[1] = texts[1]
      /\ \A i \in 2..n : pieces[i] = Both(rest, texts[i])
  <2>1. SplitsInto(line, texts, Comma, rest, S)
    BY <1>3, <1>5, <1>6, <1>7, JoinedIsSplit
  <2> QED
    BY <1>1, <1>8, <2>1 DEF SplitsInto
<1>10. NewLine \notin ToSet(line) /\ IsUtf8(line)
  BY <1>5, <1>9 DEF IsUtf8
<1>11. DOMAIN pieces = 1..n
  BY <1>8, <1>9, SplitAreTexts
<1>12. ASSUME NEW i \in 1..n PROVE Trim(pieces[i]) = texts[i]
  <2>1. IsText(texts[i]) /\ texts[i] # <<>> /\ Trim(texts[i]) = texts[i]
    BY <1>4 DEF ListText, Bare
  <2>2. CASE i = 1
    BY <1>9, <2>1, <2>2
  <2>3. CASE i # 1
    <3>1. PICK t, u : t = texts[i] /\ u = pieces[i]
      OBVIOUS
    <3>2. u = Both(rest, t)
      <4>1. i \in 2..n
        BY <1>2, <2>3
      <4> QED
        BY <1>9, <3>1, <4>1
    <3>3. AreBoth(u, rest, t)
      BY <1>3, <2>1, <3>1, <3>2, PlacesOfBoth
    <3>4. Len(t) \in Nat
      BY <2>1, <3>1, TextIs
    <3>5. IsText(u) /\ Len(u) = Len(t) + 1 /\ u[1] = Blank /\ \A j \in 1..Len(t) : u[1 + j] = t[j]
      <4>1. 1 + Len(t) = Len(t) + 1 /\ 1 \in 1..1
        BY <3>4
      <4> QED
        BY <1>3, <3>3, <4>1 DEF AreBoth
    <3>6. PICK tokens : tokens = {Blank, NewLine}
      OBVIOUS
    <3>7. t # <<>> /\ IsText(t) /\ TrimAll(t, tokens) = t /\ Blank \in tokens
      BY <2>1, <3>1, <3>6, ListSeparator
    <3>8. TrimAll(u, tokens) = t
      BY <3>5, <3>7, FirstIsTrimmed
    <3> QED
      BY <3>1, <3>6, <3>8, ListSeparator
  <2> QED
    BY <2>2, <2>3
<1>13. Trimmed(pieces) = texts
  <2>1. Trimmed(pieces) = [k \in 1..n |-> texts[k]]
    BY <1>11, <1>12 DEF Trimmed
  <2> QED
    BY <1>1, <2>1, TextIs
<1>14. ASSUME line = AnyLine PROVE texts = <<AnyLine>>
  <2>1. IsText(line) /\ Comma \notin ToSet(line)
    BY <1>14, AloneIs, ListSeparator
  <2>2. pieces = <<line>>
    BY <1>8, <2>1, NotSplit
  <2>3. PICK one : one = <<line>>
    OBVIOUS
  <2>4. Len(one) = 1 /\ one[1] = line
    BY <2>3, ShortTexts
  <2>5. n = 1 /\ texts[1] = line
    BY <1>9, <2>2, <2>3, <2>4
  <2>6. texts = [k \in 1..1 |-> line]
    <3>1. texts = [k \in 1..n |-> texts[k]] /\ \A k \in 1..1 : k = 1
      BY <1>1, TextIs
    <3> QED
      BY <2>5, <3>1
  <2> QED
    BY <1>14, <2>6, OneElement
<1> QED
  BY <1>8, <1>9, <1>10, <1>13, <1>14

(* A text without a line break is a line as it is.                          *)
LEMMA LineIsKept ==
    ASSUME NEW t, IsText(t), NewLine \notin ToSet(t)
    PROVE  NewlineReplaced(t) = t
<1>1. \A i \in DOMAIN t : t[i] # NewLine
  BY DEF ToSet
<1>2. t = [i \in DOMAIN t |-> t[i]]
  BY TextIs
<1> QED
  BY <1>1, <1>2 DEF NewlineReplaced

-----------------------------------------------------------------------------
(* Lines combined.                                                         *)

(* A text with the token in it is a text before its last place, the token,  *)
(* and a text without it.                                                   *)
LEMMA LastCut ==
    ASSUME NEW x, IsText(x), NEW token, token \in ToSet(x)
    PROVE  \E y, z : /\ IsText(y) /\ IsText(z) /\ token \notin ToSet(z)
                     /\ x = Both(Both(y, Alone(token)), z)
                     /\ Len(y) < Len(x)
<1>1. PICK n : n = Len(x)
  OBVIOUS
<1>2. n \in Nat /\ DOMAIN x = 1..n
  BY <1>1, TextIs
<1> DEFINE after == {d \in Nat : n - d \in 1..n /\ x[n - d] = token}
<1>3. after # {} /\ after \subseteq Nat
  <2>1. PICK i \in 1..n : x[i] = token
    BY <1>2 DEF ToSet
  <2>2. n - i \in Nat /\ n - (n - i) = i
    BY <1>2
  <2>3. n - i \in after
    BY <2>1, <2>2
  <2> QED
    BY <2>3
<1>4. PICK d \in after : \A e \in after : d <= e
  <2> HIDE DEF after
  <2> QED
    BY <1>3, LeastMember
<1>5. PICK j : j = n - d
  OBVIOUS
<1>6. j \in 1..n /\ x[j] = token /\ d \in Nat
  BY <1>4, <1>5
<1>7. \A i \in (j + 1)..n : x[i] # token
  <2> SUFFICES ASSUME NEW i \in (j + 1)..n, x[i] = token PROVE FALSE
    OBVIOUS
  <2>1. n - i \in Nat /\ n - (n - i) = i /\ i \in 1..n
    BY <1>2, <1>6
  <2>2. n - i \in after
    BY <2>1
  <2>3. d <= n - i
    BY <1>4, <2>2
  <2>4. i <= d + j - d /\ j + 1 <= i
    BY <1>2, <1>5, <1>6, <2>3
  <2> QED
    BY <1>6, <2>4
<1> HIDE DEF after
<1>8. PICK y, z : y = SubSeq(x, 1, j - 1) /\ z = SubSeq(x, j + 1, n)
  OBVIOUS
<1>9. \A i \in 1..n : x[i] \in ToSet(x)
  BY <1>2 DEF ToSet
<1>10. /\ IsText(y) /\ Len(y) = j - 1 /\ \A i \in 1..(j - 1) : y[i] = x[i]
  <2>1. IsText(y) /\ Len(y) = IF 1 <= j - 1 THEN j - 1 - 1 + 1 ELSE 0
    BY <1>6, <1>8, PieceIsText
  <2>2. \A i \in 1..(j - 1 - 1 + 1) : y[i] = x[1 + i - 1]
    <3>1. 1 \in Int /\ j - 1 \in Int /\ \A i \in 1..(j - 1) : x[i] \in ToSet(x)
      BY <1>2, <1>6, <1>9
    <3> QED
      BY <1>8, <3>1, SubSeqProperties
  <2> QED
    BY <1>2, <1>6, <2>1, <2>2
<1>11. IsText(z) /\ Len(z) = n - j /\ \A i \in 1..(n - j) : z[i] = x[j + i]
  <2>1. IsText(z) /\ Len(z) = IF j + 1 <= n THEN n - (j + 1) + 1 ELSE 0
    BY <1>2, <1>6, <1>8, PieceIsText
  <2>2. \A i \in 1..(n - (j + 1) + 1) : z[i] = x[(j + 1) + i - 1]
    <3>1. j + 1 \in Int /\ n \in Int /\ \A i \in (j + 1)..n : x[i] \in ToSet(x)
      BY <1>2, <1>6, <1>9
    <3> QED
      BY <1>8, <3>1, SubSeqProperties
  <2> QED
    BY <1>2, <1>6, <2>1, <2>2
<1>12. token \notin ToSet(z)
  <2>1. DOMAIN z = 1..(n - j)
    BY <1>11, TextIs
  <2>2. \A i \in 1..(n - j) : j + i \in (j + 1)..n
    BY <1>2, <1>6
  <2> QED
    BY <1>7, <1>11, <2>1, <2>2 DEF ToSet
<1>13. x = Both(Both(y, Alone(token)), z)
  <2>1. PICK u, w : u = Both(y, Alone(token)) /\ w = Both(u, z)
    OBVIOUS
  <2>2. AreBoth(u, y, Alone(token))
    BY <1>10, <2>1, AloneIs, PlacesOfBoth
  <2>3. IsText(u) /\ Len(u) = j /\ \A i \in 1..(j - 1) : u[i] = x[i]
    <3>1. (j - 1) + 1 = j
      BY <1>6
    <3> QED
      BY <1>10, <2>2, <3>1, AloneIs DEF AreBoth
  <2>4. u[j] = token
    <3>1. u[(j - 1) + 1] = Alone(token)[1]
      <4>1. 1 \in 1..1
        OBVIOUS
      <4> QED
        BY <1>10, <2>2, <4>1, AloneIs DEF AreBoth
    <3> QED
      BY <1>6, <3>1, AloneIs
  <2>5. AreBoth(w, u, z)
    BY <1>11, <2>1, <2>3, PlacesOfBoth
  <2>6. IsText(w) /\ Len(w) = n
    BY <1>2, <1>6, <1>11, <2>3, <2>5 DEF AreBoth
  <2>7. ASSUME NEW i \in 1..n PROVE w[i] = x[i]
    <3>1. CASE i \in 1..(j - 1)
      <4>1. i \in 1..j
        BY <1>6, <3>1
      <4> QED
        BY <2>3, <2>5, <3>1, <4>1 DEF AreBoth
    <3>2. CASE i = j
      <4>1. i \in 1..j
        BY <1>6, <3>2
      <4> QED
        BY <1>6, <2>3, <2>4, <2>5, <3>2, <4>1 DEF AreBoth
    <3>3. CASE i \in (j + 1)..n
      <4>1. i - j \in 1..(n - j) /\ j + (i - j) = i
        BY <1>2, <1>6, <3>3
      <4>2. w[j + (i - j)] = z[i - j]
        BY <1>11, <2>3, <2>5, <4>1 DEF AreBoth
      <4>3. z[i - j] = x[j + (i - j)]
        BY <1>11, <4>1
      <4> QED
        BY <4>1, <4>2, <4>3
    <3> QED
      BY <1>2, <1>6, <3>1, <3>2, <3>3
  <2>8. w = [i \in 1..n |-> w[i]] /\ x = [i \in 1..n |-> x[i]]
    BY <1>1, <2>6, TextIs
  <2>9. w = x
    BY <2>7, <2>8
  <2> QED
    BY <2>1, <2>9
<1>14. Len(y) < Len(x)
  BY <1>1, <1>2, <1>6, <1>10
<1> QED
  BY <1>10, <1>11, <1>12, <1>13, <1>14

\* Split at the token, all has the pieces of s and then those of x, the first of them after rest.
SplitsAsBoth(all, s, rest, x, token) ==
    /\ Len(Split(all, token)) = Len(Split(s, token)) + Len(Split(x, token))
    /\ \A k \in 1..Len(Split(s, token)) : Split(all, token)[k] = Split(s, token)[k]
    /\ Split(all, token)[Len(Split(s, token)) + 1] = Both(rest, Split(x, token)[1])
    /\ \A k \in 2..Len(Split(x, token)) : Split(all, token)[Len(Split(s, token)) + k] = Split(x, token)[k]

(* One more piece at the end of x is one more piece of the whole.           *)
LEMMA BothGrow ==
    ASSUME NEW s, IsText(s), NEW token, NEW rest, IsText(rest),
           NEW y, IsText(y), NEW z, IsText(z), token \notin ToSet(z),
           NEW start, start = Both(Both(s, Alone(token)), Both(rest, y)),
           SplitsAsBoth(start, s, rest, y, token),
           NEW x, x = Both(Both(y, Alone(token)), z),
           NEW all, all = Both(Both(s, Alone(token)), Both(rest, x))
    PROVE  SplitsAsBoth(all, s, rest, x, token)
<1>1. PICK t, before : t = Alone(token) /\ before = Both(s, t)
  OBVIOUS
<1>2. IsText(t)
  BY <1>1, AloneIs
<1>3. IsText(before) /\ IsText(Both(rest, y)) /\ IsText(Both(y, t))
  BY <1>1, <1>2, PlacesOfBoth DEF AreBoth
<1>4. PICK middle : middle = Both(Both(rest, y), t)
  OBVIOUS
<1>5. IsText(middle)
  BY <1>2, <1>3, <1>4, PlacesOfBoth DEF AreBoth
<1>6. Both(rest, x) = Both(middle, z)
  <2>1. Both(rest, x) = Both(Both(rest, Both(y, t)), z)
    BY <1>1, <1>3, TextsTogether
  <2>2. Both(rest, Both(y, t)) = middle
    BY <1>2, <1>4, TextsTogether
  <2> QED
    BY <2>1, <2>2
<1>7. all = Both(Both(start, t), z)
  <2>1. all = Both(before, Both(middle, z))
    BY <1>1, <1>6
  <2>2. all = Both(Both(before, middle), z)
    BY <1>3, <1>5, <2>1, TextsTogether
  <2>3. Both(before, middle) = Both(Both(before, Both(rest, y)), t)
    BY <1>2, <1>3, <1>4, TextsTogether
  <2> QED
    BY <1>1, <2>2, <2>3
<1>8. IsText(start)
  BY <1>1, <1>3, PlacesOfBoth DEF AreBoth
<1>9. PICK p, q, r, u : p = Split(s, token) /\ q = Split(y, token) /\ r = Split(x, token) /\ u = Split(all, token)
  OBVIOUS
<1>10. PICK v, a, b : v = Split(start, token) /\ a = Len(p) /\ b = Len(q)
  OBVIOUS
<1>11. a \in Nat \ {0} /\ b \in Nat \ {0}
  BY <1>9, <1>10, SplitAreTexts
<1>12. Len(r) = b + 1 /\ (\A k \in 1..b : r[k] = q[k]) /\ r[b + 1] = z
  <2>1. SplitsFurther(x, y, token, z)
    BY SplitGrows
  <2> QED
    BY <1>9, <1>10, <2>1 DEF SplitsFurther
<1>13. /\ Len(v) = a + b /\ \A k \in 1..a : v[k] = p[k]
       /\ v[a + 1] = Both(rest, q[1]) /\ \A k \in 2..b : v[a + k] = q[k]
  BY <1>9, <1>10 DEF SplitsAsBoth
<1>14. Len(u) = a + b + 1 /\ (\A k \in 1..(a + b) : u[k] = v[k]) /\ u[a + b + 1] = z
  <2>1. SplitsFurther(all, start, token, z)
    BY <1>1, <1>7, <1>8, SplitGrows
  <2> QED
    BY <1>9, <1>10, <1>13, <2>1 DEF SplitsFurther
<1>15. Len(u) = a + (b + 1) /\ (\A k \in 1..a : u[k] = p[k]) /\ u[a + 1] = Both(rest, r[1])
  <2>1. a + 1 \in 1..(a + b) /\ 1 \in 1..b /\ \A k \in 1..a : k \in 1..(a + b)
    BY <1>11
  <2>2. a + b + 1 = a + (b + 1)
    BY <1>11
  <2> QED
    BY <1>12, <1>13, <1>14, <2>1, <2>2
<1>16. ASSUME NEW k \in 2..(b + 1) PROVE u[a + k] = r[k]
  <2>1. CASE k = b + 1
    <3>1. a + k = a + b + 1
      BY <1>11, <2>1
    <3> QED
      BY <1>12, <1>14, <2>1, <3>1
  <2>2. CASE k # b + 1
    <3>1. k \in 2..b /\ k \in 1..b /\ a + k \in 1..(a + b)
      BY <1>11, <2>2
    <3> QED
      BY <1>12, <1>13, <1>14, <3>1
  <2> QED
    BY <2>1, <2>2
<1> QED
  BY <1>9, <1>10, <1>12, <1>15, <1>16 DEF SplitsAsBoth

(* Two texts with the token between them are split into the pieces of both. *)
LEMMA SplitOfBoth ==
    ASSUME NEW s, IsText(s), NEW token, NEW rest, IsText(rest), token \notin ToSet(rest),
           NEW x, IsText(x), NEW all, all = Both(Both(s, Alone(token)), Both(rest, x))
    PROVE  IsText(all) /\ SplitsAsBoth(all, s, rest, x, token)
<1> DEFINE Together(y) == Both(Both(s, Alone(token)), Both(rest, y))
           Good(y) == SplitsAsBoth(Together(y), s, rest, y, token)
           Wrong == {k \in Nat : \E y : IsText(y) /\ Len(y) = k /\ ~Good(y)}
<1>1. IsText(Both(s, Alone(token)))
  BY AloneIs, PlacesOfBoth DEF AreBoth
<1>2. ASSUME NEW y, IsText(y) PROVE IsText(Both(rest, y)) /\ ToSet(Both(rest, y)) = ToSet(rest) \cup ToSet(y)
  BY <1>2, PlacesOfBoth DEF AreBoth
<1>3. ASSUME NEW y, IsText(y), token \notin ToSet(y) PROVE Good(y)
  <2>1. PICK w, piece : w = Together(y) /\ piece = Both(rest, y)
    OBVIOUS
  <2>2. IsText(piece) /\ token \notin ToSet(piece)
    BY <1>2, <1>3, <2>1
  <2>3. w = Both(Both(s, Alone(token)), piece)
    BY <2>1
  <2>4. SplitsFurther(w, s, token, piece)
    BY <2>2, <2>3, SplitGrows
  <2>5. Split(y, token) = Alone(y)
    BY <1>3, NotSplit DEF Alone
  <2>6. Len(Split(y, token)) = 1 /\ Split(y, token)[1] = y /\ 2..1 = {}
    BY <2>5, AloneIs
  <2>7. SplitsAsBoth(w, s, rest, y, token)
    BY <2>1, <2>4, <2>6 DEF SplitsAsBoth, SplitsFurther
  <2> QED
    BY <2>1, <2>7
<1>4. Wrong = {}
  <2> SUFFICES ASSUME Wrong # {} PROVE FALSE
    OBVIOUS
  <2>1. Wrong \subseteq Nat
    OBVIOUS
  <2>2. PICK k \in Wrong : \A m \in Wrong : k <= m
    <3> HIDE DEF Wrong
    <3> QED
      BY <2>1, LeastMember
  <2>3. PICK w : IsText(w) /\ Len(w) = k /\ ~Good(w)
    OBVIOUS
  <2>4. token \in ToSet(w)
    <3> HIDE DEF Good
    <3> QED
      BY <1>3, <2>3
  <2>5. PICK y, z : /\ IsText(y) /\ IsText(z) /\ token \notin ToSet(z)
                    /\ w = Both(Both(y, Alone(token)), z)
                    /\ Len(y) < Len(w)
    BY <2>3, <2>4, LastCut
  <2>6. Good(y)
    <3>1. Len(y) \in Nat /\ k \in Nat
      BY <2>5, TextIs
    <3>2. Len(y) \notin Wrong
      <4> HIDE DEF Wrong
      <4> QED
        BY <2>2, <2>3, <2>5, <3>1
    <3> HIDE DEF Good
    <3> QED
      BY <2>5, <3>1, <3>2
  <2>7. Good(w)
    BY <2>5, <2>6, BothGrow
  <2> HIDE DEF Good
  <2> QED
    BY <2>3, <2>7
<1>5. Good(x)
  <2>1. Len(x) \in Nat /\ Len(x) \notin Wrong
    <3> HIDE DEF Wrong
    <3> QED
      BY <1>4, TextIs
  <2> HIDE DEF Good
  <2> QED
    BY <2>1
<1>6. IsText(all)
  <2>1. PICK a, b : a = Both(s, Alone(token)) /\ b = Both(rest, x)
    OBVIOUS
  <2>2. AreBoth(Both(a, b), a, b)
    BY <1>1, <1>2, <2>1, PlacesOfBoth
  <2> QED
    BY <2>1, <2>2 DEF AreBoth
<1> QED
  BY <1>5, <1>6

(* A piece is of the tokens of the text, without the one it was cut at.     *)
LEMMA PiecesAreWhole ==
    ASSUME NEW x, IsText(x), NEW token
    PROVE  Whole(Split(x, token), token, ToSet(x))
<1> DEFINE Good(y) == Whole(Split(y, token), token, ToSet(y))
           Wrong == {k \in Nat : \E y : IsText(y) /\ Len(y) = k /\ ~Good(y)}
<1>1. ASSUME NEW y, IsText(y), token \notin ToSet(y) PROVE Good(y)
  <2>1. Split(y, token) = Alone(y)
    BY <1>1, NotSplit DEF Alone
  <2>2. Len(Split(y, token)) = 1 /\ Split(y, token)[1] = y /\ 1..1 = {1}
    BY <2>1, AloneIs
  <2> QED
    BY <1>1, <2>2 DEF Whole
<1>2. ASSUME NEW y, IsText(y), NEW z, IsText(z), token \notin ToSet(z), Good(y),
             NEW w, w = Both(Both(y, Alone(token)), z)
      PROVE  Good(w)
  <2>1. ToSet(y) \subseteq ToSet(w) /\ ToSet(z) \subseteq ToSet(w)
    <3>1. PICK v : v = Both(y, Alone(token))
      OBVIOUS
    <3>2. AreBoth(v, y, Alone(token)) /\ IsText(v)
      BY <1>2, <3>1, AloneIs, PlacesOfBoth DEF AreBoth
    <3>3. AreBoth(w, v, z)
      BY <1>2, <3>1, <3>2, PlacesOfBoth
    <3>4. ToSet(v) = ToSet(y) \cup ToSet(Alone(token)) /\ ToSet(w) = ToSet(v) \cup ToSet(z)
      BY <3>2, <3>3 DEF AreBoth
    <3> QED
      BY <3>4
  <2>2. PICK p, q, n : p = Split(y, token) /\ q = Split(w, token) /\ n = Len(p)
    OBVIOUS
  <2>3. n \in Nat \ {0} /\ Len(q) = n + 1 /\ (\A k \in 1..n : q[k] = p[k]) /\ q[n + 1] = z
    <3>1. SplitsFurther(w, y, token, z)
      BY <1>2, SplitGrows
    <3> QED
      BY <2>2, <3>1 DEF SplitsFurther
  <2>4. ASSUME NEW k \in 1..Len(q) PROVE IsText(q[k]) /\ token \notin ToSet(q[k]) /\ ToSet(q[k]) \subseteq ToSet(w)
    <3>1. CASE k = n + 1
      BY <1>2, <2>1, <2>3, <3>1
    <3>2. CASE k # n + 1
      <4>1. k \in 1..n
        BY <2>3, <3>2
      <4>2. q[k] = p[k] /\ IsText(p[k]) /\ token \notin ToSet(p[k]) /\ ToSet(p[k]) \subseteq ToSet(y)
        BY <1>2, <2>2, <2>3, <4>1 DEF Whole
      <4> QED
        BY <2>1, <4>2
    <3> QED
      BY <3>1, <3>2
  <2> QED
    BY <2>2, <2>4 DEF Whole
<1> HIDE DEF Good
<1>3. Wrong = {}
  <2> SUFFICES ASSUME Wrong # {} PROVE FALSE
    OBVIOUS
  <2>1. Wrong \subseteq Nat
    OBVIOUS
  <2>2. PICK k \in Wrong : \A m \in Wrong : k <= m
    <3> HIDE DEF Wrong
    <3> QED
      BY <2>1, LeastMember
  <2>3. PICK w : IsText(w) /\ Len(w) = k /\ ~Good(w)
    OBVIOUS
  <2>4. PICK y, z : /\ IsText(y) /\ IsText(z) /\ token \notin ToSet(z)
                    /\ w = Both(Both(y, Alone(token)), z)
                    /\ Len(y) < Len(w)
    BY <1>1, <2>3, LastCut
  <2>5. Good(y)
    <3>1. Len(y) \in Nat /\ k \in Nat
      BY <2>4, TextIs
    <3>2. Len(y) \notin Wrong
      <4> HIDE DEF Wrong
      <4> QED
        BY <2>2, <2>3, <2>4, <3>1
    <3> QED
      BY <2>4, <3>1, <3>2
  <2>6. Good(w)
    BY <1>2, <2>4, <2>5
  <2> QED
    BY <2>3, <2>6
<1>4. Good(x)
  <2>1. Len(x) \in Nat /\ Len(x) \notin Wrong
    <3> HIDE DEF Wrong
    <3> QED
      BY <1>3, TextIs
  <2> QED
    BY <2>1
<1> QED
  BY <1>4 DEF Good

(* A text is trimmed once and for all.                                      *)
LEMMA TrimmedOnce ==
    ASSUME NEW t, IsText(t)
    PROVE  Trim(Trim(t)) = Trim(t)
<1> DEFINE tokens == {Blank, NewLine}
           kept == {i \in DOMAIN t : t[i] \notin tokens}
<1>1. \A u : Trim(u) = TrimAll(u, tokens)
  BY ListSeparator
<1> HIDE DEF tokens
<1>2. TrimAll(t, tokens) = IF kept = {} THEN <<>> ELSE SubSeq(t, Min(kept), Max(kept))
  BY DEF TrimAll
<1>3. kept \in SUBSET DOMAIN t /\ \A i \in kept : t[i] \notin tokens
  OBVIOUS
<1> HIDE DEF kept
<1>4. Len(t) \in Nat /\ DOMAIN t = 1..Len(t)
  BY TextIs
<1>5. CASE kept = {}
  <2>1. TrimAll(<<>>, tokens) = <<>>
    <3>1. {i \in DOMAIN <<>> : <<>>[i] \notin tokens} = {}
      OBVIOUS
    <3> QED
      BY <3>1 DEF TrimAll
  <2> QED
    BY <1>1, <1>2, <1>5, <2>1
<1>6. CASE kept # {}
  <2>1. /\ Min(kept) \in kept /\ Max(kept) \in kept
        /\ \A y \in kept : Min(kept) <= y /\ Max(kept) >= y
    <3>1. kept \in SUBSET Nat /\ IsFiniteSet(kept)
      BY <1>3, PlacesAreFinite
    <3> QED
      BY <1>6, <3>1, LeastMember, GreatestMember
  <2>2. PICK a, b, u : a = Min(kept) /\ b = Max(kept) /\ u = SubSeq(t, a, b)
    OBVIOUS
  <2>3. a \in 1..Len(t) /\ b \in 1..Len(t) /\ a <= b /\ t[a] \notin tokens /\ t[b] \notin tokens
    BY <1>3, <1>4, <2>1, <2>2
  <2>4. IsText(u) /\ Len(u) = b - a + 1
    BY <2>2, <2>3, PieceIsText
  <2>5. u[1] = t[a] /\ u[b - a + 1] = t[b]
    <3>1. a \in Int /\ b \in Int /\ \A i \in a..b : t[i] \in ToSet(t)
      BY <1>4, <2>3 DEF ToSet
    <3>2. \A i \in 1..(b - a + 1) : u[i] = t[a + i - 1]
      BY <2>2, <3>1, SubSeqProperties
    <3>3. 1 \in 1..(b - a + 1) /\ b - a + 1 \in 1..(b - a + 1) /\ a + 1 - 1 = a /\ a + (b - a + 1) - 1 = b
      BY <2>3
    <3> QED
      BY <3>2, <3>3
  <2>6. Len(u) > 0 /\ u[1] \notin tokens /\ u[Len(u)] \notin tokens
    BY <2>3, <2>4, <2>5
  <2>7. TrimAll(u, tokens) = u
    BY <2>4, <2>6, WholeText
  <2> QED
    BY <1>1, <1>2, <1>6, <2>2, <2>7
<1> QED
  BY <1>5, <1>6

(* A blank before a text is trimmed with it.                                *)
LEMMA BlankIsTrimmed ==
    ASSUME NEW t, IsText(t)
    PROVE  Trim(Both(Alone(Blank), t)) = Trim(t)
<1>1. PICK tokens, u : tokens = {Blank, NewLine} /\ u = Both(Alone(Blank), t)
  OBVIOUS
<1>2. AreBoth(u, Alone(Blank), t)
  BY <1>1, AloneIs, PlacesOfBoth
<1>3. Len(t) \in Nat /\ 1 + Len(t) = Len(t) + 1 /\ 1 \in 1..1
  BY TextIs
<1>4. IsText(u) /\ Len(u) = Len(t) + 1 /\ u[1] = Blank /\ \A i \in 1..Len(t) : u[1 + i] = t[i]
  BY <1>2, <1>3, AloneIs DEF AreBoth
<1>5. Blank \in tokens
  BY <1>1
<1>6. TrimAll(u, tokens) = TrimAll(t, tokens)
  BY <1>4, <1>5, FirstIsTrimmed
<1> QED
  BY <1>1, <1>6, ListSeparator

(* Texts put together one after the other hold nothing that none of them    *)
(* holds.                                                                   *)
LEMMA TokensOfFlat ==
    ASSUME NEW texts, IsText(texts), \A i \in 1..Len(texts) : IsText(texts[i]),
           NEW P, \A i \in 1..Len(texts) : ToSet(texts[i]) \subseteq P
    PROVE  IsText(FlattenSeq(texts)) /\ ToSet(FlattenSeq(texts)) \subseteq P
<1>1. PICK n : n = Len(texts)
  OBVIOUS
<1>2. n \in Nat /\ DOMAIN texts = 1..n
  BY <1>1, TextIs
<1>3. CASE n = 0
  <2>1. FlattenSeq(texts) = texts
    BY <1>1, <1>3 DEF FlattenSeq
  <2>2. ToSet(texts) = {}
    BY <1>2, <1>3 DEF ToSet
  <2> QED
    BY <2>1, <2>2
<1>4. CASE n # 0
  <2>1. PICK flat : /\ flat = [i \in 1..n |-> IF i = 1 THEN texts[i] ELSE Both(flat[i - 1], texts[i])]
                    /\ FlattenSeq(texts) = flat[n]
    BY <1>1, <1>2, <1>4, JoinedOneByOne
  <2> DEFINE Good(i) == IsText(flat[i]) /\ ToSet(flat[i]) \subseteq P
             Wrong == {i \in 1..n : ~Good(i)}
  <2>2. \A i \in 1..n : flat[i] = IF i = 1 THEN texts[i] ELSE Both(flat[i - 1], texts[i])
    BY <2>1
  <2>3. Wrong = {}
    <3> SUFFICES ASSUME Wrong # {} PROVE FALSE
      OBVIOUS
    <3>1. Wrong \subseteq Nat
      <4> HIDE DEF Good
      <4> QED
        BY <1>2
    <3>2. PICK m \in Wrong : \A i \in Wrong : m <= i
      <4> HIDE DEF Wrong
      <4> QED
        BY <3>1, LeastMember
    <3>3. m \in 1..n /\ ~Good(m)
      OBVIOUS
    <3>4. CASE m = 1
      BY <1>1, <2>2, <3>3, <3>4
    <3>5. CASE m # 1
      <4>1. m - 1 \in 1..n /\ ~(m <= m - 1)
        BY <1>2, <3>3, <3>5
      <4>2. Good(m - 1)
        <5> HIDE DEF Good
        <5> QED
          BY <3>2, <4>1
      <4>3. PICK a, b, c : a = flat[m - 1] /\ b = texts[m] /\ c = Both(a, b)
        OBVIOUS
      <4>4. IsText(a) /\ IsText(b) /\ ToSet(a) \subseteq P /\ ToSet(b) \subseteq P /\ flat[m] = c
        BY <1>1, <2>2, <3>3, <3>5, <4>2, <4>3
      <4>5. IsText(c) /\ ToSet(c) = ToSet(a) \cup ToSet(b)
        BY <4>3, <4>4, PlacesOfBoth DEF AreBoth
      <4> QED
        BY <3>3, <4>4, <4>5
    <3> QED
      BY <3>4, <3>5
  <2>4. Good(n)
    <3>1. n \in 1..n
      BY <1>2, <1>4
    <3> HIDE DEF Good
    <3> QED
      BY <2>3, <3>1
  <2> QED
    BY <2>1, <2>4
<1> QED
  BY <1>3, <1>4

(* Two texts are put together one after the other.                          *)
LEMMA FlatOfTwo ==
    ASSUME NEW texts, Len(texts) = 2
    PROVE  FlattenSeq(texts) = Both(texts[1], texts[2])
<1>1. PICK flat : /\ flat = [i \in 1..2 |-> IF i = 1 THEN texts[i] ELSE Both(flat[i - 1], texts[i])]
                  /\ FlattenSeq(texts) = flat[2]
  <2>1. PICK n : n = Len(texts)
    OBVIOUS
  <2>2. Len(texts) \in Nat \ {0}
    OBVIOUS
  <2>3. \E h : /\ h = [i \in 1..n |-> IF i = 1 THEN texts[i] ELSE Both(h[i - 1], texts[i])]
               /\ FlattenSeq(texts) = h[n]
    BY <2>1, <2>2, JoinedOneByOne
  <2>4. n = 2
    BY <2>1
  <2> QED
    BY <2>3, <2>4
<1>2. 1 \in 1..2 /\ 2 \in 1..2 /\ 2 - 1 = 1 /\ 2 # 1
  OBVIOUS
<1>3. \A i \in 1..2 : flat[i] = IF i = 1 THEN texts[i] ELSE Both(flat[i - 1], texts[i])
  BY <1>1
<1>4. flat[1] = texts[1]
  BY <1>2, <1>3
<1>5. flat[2] = Both(flat[2 - 1], texts[2])
  BY <1>2, <1>3
<1> QED
  BY <1>1, <1>2, <1>4, <1>5

\* As many texts, the same but for what trimming takes away.
Alike(s, t) ==
    /\ IsText(s) /\ IsText(t) /\ Len(s) = Len(t)
    /\ \A k \in 1..Len(t) : Trim(s[k]) = Trim(t[k])

(* Texts that are alike remain so when the same texts are added.            *)
LEMMA AlikeGrow ==
    ASSUME NEW s, NEW t, Alike(s, t), NEW u, IsText(u)
    PROVE  Alike(Both(s, u), Both(t, u))
<1>1. PICK a, b, m, n : a = Both(s, u) /\ b = Both(t, u) /\ m = Len(t) /\ n = Len(u)
  OBVIOUS
<1>2. IsText(s) /\ IsText(t) /\ Len(s) = m /\ \A k \in 1..m : Trim(s[k]) = Trim(t[k])
  BY <1>1 DEF Alike
<1>3. m \in Nat /\ n \in Nat
  BY <1>1, <1>2, TextIs
<1>4. AreBoth(a, s, u) /\ AreBoth(b, t, u)
  BY <1>1, <1>2, PlacesOfBoth
<1>5. /\ IsText(a) /\ Len(a) = m + n /\ (\A k \in 1..m : a[k] = s[k]) /\ \A k \in 1..n : a[m + k] = u[k]
      /\ IsText(b) /\ Len(b) = m + n /\ (\A k \in 1..m : b[k] = t[k]) /\ \A k \in 1..n : b[m + k] = u[k]
  BY <1>1, <1>2, <1>4 DEF AreBoth
<1>6. ASSUME NEW k \in 1..(m + n) PROVE Trim(a[k]) = Trim(b[k])
  <2>1. CASE k \in 1..m
    BY <1>2, <1>5, <2>1
  <2>2. CASE k \notin 1..m
    <3>1. k - m \in 1..n /\ m + (k - m) = k
      BY <1>3, <2>2
    <3>2. a[m + (k - m)] = b[m + (k - m)]
      BY <1>5, <3>1
    <3> QED
      BY <3>1, <3>2
  <2> QED
    BY <2>1, <2>2
<1> QED
  BY <1>1, <1>5, <1>6 DEF Alike

(* If the first two of several lists of texts are replaced by one that is   *)
(* alike, all of them together are.                                         *)
LEMMA AlikeFlat ==
    ASSUME NEW n \in Nat, n > 1, NEW texts, IsText(texts), Len(texts) = n, \A i \in 1..n : IsText(texts[i]),
           NEW others, IsText(others), Len(others) = n - 1,
           Alike(others[1], Both(texts[1], texts[2])),
           \A i \in 2..(n - 1) : others[i] = texts[i + 1]
    PROVE  Alike(FlattenSeq(others), FlattenSeq(texts))
<1>1. PICK flat : /\ flat = [i \in 1..n |-> IF i = 1 THEN texts[i] ELSE Both(flat[i - 1], texts[i])]
                  /\ FlattenSeq(texts) = flat[n]
  <2>1. Len(texts) \in Nat \ {0}
    OBVIOUS
  <2>2. \E h : /\ h = [i \in 1..Len(texts) |-> IF i = 1 THEN texts[i] ELSE Both(h[i - 1], texts[i])]
               /\ FlattenSeq(texts) = h[Len(texts)]
    BY <2>1, JoinedOneByOne
  <2> QED
    BY <2>2
<1>2. PICK g : /\ g = [i \in 1..(n - 1) |-> IF i = 1 THEN others[i] ELSE Both(g[i - 1], others[i])]
               /\ FlattenSeq(others) = g[n - 1]
  <2>1. PICK p : p = n - 1
    OBVIOUS
  <2>2. Len(others) = p /\ p \in Nat \ {0}
    BY <2>1
  <2>3. \E h : /\ h = [i \in 1..p |-> IF i = 1 THEN others[i] ELSE Both(h[i - 1], others[i])]
               /\ FlattenSeq(others) = h[p]
    BY <2>2, JoinedOneByOne
  <2> QED
    BY <2>1, <2>3
<1>3. \A i \in 1..n : flat[i] = IF i = 1 THEN texts[i] ELSE Both(flat[i - 1], texts[i])
  BY <1>1
<1>4. \A i \in 1..(n - 1) : g[i] = IF i = 1 THEN others[i] ELSE Both(g[i - 1], others[i])
  BY <1>2
<1> DEFINE Good(i) == Alike(g[i], flat[i + 1])
           Wrong == {i \in 1..(n - 1) : ~Good(i)}
<1>5. Wrong = {}
  <2> SUFFICES ASSUME Wrong # {} PROVE FALSE
    OBVIOUS
  <2>1. Wrong \subseteq Nat
    <3> HIDE DEF Good
    <3> QED
      OBVIOUS
  <2>2. PICK m \in Wrong : \A i \in Wrong : m <= i
    <3> HIDE DEF Wrong
    <3> QED
      BY <2>1, LeastMember
  <2>3. m \in 1..(n - 1) /\ ~Good(m)
    OBVIOUS
  <2>4. CASE m = 1
    <3>1. 1 \in 1..n /\ 2 \in 1..n /\ 2 # 1 /\ 2 - 1 = 1 /\ 1 \in 1..(n - 1) /\ 1 + 1 = 2
      OBVIOUS
    <3>2. flat[1] = texts[1] /\ g[1] = others[1]
      BY <1>3, <1>4, <3>1
    <3>3. flat[2] = Both(flat[2 - 1], texts[2])
      BY <1>3, <3>1
    <3>4. flat[2] = Both(texts[1], texts[2])
      BY <3>1, <3>2, <3>3
    <3> QED
      BY <2>3, <2>4, <3>1, <3>2, <3>4
  <2>5. CASE m # 1
    <3>1. m - 1 \in 1..(n - 1) /\ ~(m <= m - 1) /\ m \in 2..(n - 1) /\ m + 1 \in 1..n /\ m + 1 # 1
          /\ m + 1 - 1 = m /\ m - 1 + 1 = m
      BY <2>3, <2>5
    <3>2. Good(m - 1)
      <4> HIDE DEF Good
      <4> QED
        BY <2>2, <3>1
    <3>3. Alike(g[m - 1], flat[m])
      BY <3>1, <3>2
    <3>4. IsText(texts[m + 1])
      BY <3>1
    <3>5. g[m] = Both(g[m - 1], texts[m + 1])
      BY <1>4, <2>3, <2>5, <3>1
    <3>6. PICK p : p = m + 1
      OBVIOUS
    <3>7. flat[m + 1] = Both(flat[m], texts[m + 1])
      <4>1. p \in 1..n /\ p # 1 /\ p - 1 = m
        BY <3>1, <3>6
      <4>2. flat[p] = Both(flat[p - 1], texts[p])
        BY <1>3, <4>1
      <4> QED
        BY <3>6, <4>1, <4>2
    <3>8. Alike(g[m], flat[m + 1])
      BY <3>3, <3>4, <3>5, <3>7, AlikeGrow
    <3> QED
      BY <2>3, <3>8
  <2> QED
    BY <2>4, <2>5
<1>6. Good(n - 1)
  <2>1. n - 1 \in 1..(n - 1)
    OBVIOUS
  <2> HIDE DEF Good
  <2> QED
    BY <1>5, <2>1
<1>7. n - 1 + 1 = n
  OBVIOUS
<1> QED
  BY <1>1, <1>2, <1>6, <1>7

\* The lines' texts that are not empty, the pieces each line is cut into, and whether all are UTF-8.
NotEmpty(texts) == ElementsAt(texts, {k \in DOMAIN texts : texts[k] # <<>>})
Cut(lines) == [i \in DOMAIN lines |-> Split(lines[i], Comma)]
AllUtf8(lines) == \A i \in DOMAIN lines : IsUtf8(lines[i])
AllTexts(lines) == IsText(lines) /\ \A i \in 1..Len(lines) : IsText(lines[i])

(* What CommaDelimited gives, in these words.                               *)
LEMMA CommaDelimitedIs ==
    ASSUME NEW lines
    PROVE  CommaDelimited(lines) = OkIf(AllUtf8(lines), NotEmpty(Trimmed(FlattenSeq(Cut(lines)))))
<1>1. PICK cut : cut = Cut(lines)
  OBVIOUS
<1>2. cut = [i \in DOMAIN lines |-> Split(lines[i], ",")]
  BY <1>1 DEF Cut, Comma
<1>3. CommaDelimited(lines)
      = OkIf(AllUtf8(lines), NotEmpty([k \in DOMAIN FlattenSeq(cut) |-> Trim(FlattenSeq(cut)[k])]))
  BY <1>2, Zenon DEF CommaDelimited, NotEmpty, AllUtf8
<1>4. Trimmed(FlattenSeq(cut)) = [k \in DOMAIN FlattenSeq(cut) |-> Trim(FlattenSeq(cut)[k])]
  BY DEF Trimmed
<1> QED
  BY <1>1, <1>3, <1>4

(* Lines are cut into lists of texts.                                       *)
LEMMA CutAreTexts ==
    ASSUME NEW lines, AllTexts(lines)
    PROVE  /\ IsText(Cut(lines)) /\ Len(Cut(lines)) = Len(lines)
           /\ \A i \in 1..Len(lines) : Cut(lines)[i] = Split(lines[i], Comma) /\ IsText(Cut(lines)[i])
<1>1. IsText(lines) /\ DOMAIN lines = 1..Len(lines) /\ \A i \in 1..Len(lines) : IsText(lines[i])
  BY TextIs DEF AllTexts
<1>2. PICK cut : cut = Cut(lines)
  OBVIOUS
<1>3. cut = [i \in DOMAIN lines |-> Split(lines[i], Comma)]
  BY <1>2 DEF Cut
<1>4. cut = [i \in DOMAIN lines |-> cut[i]]
  BY <1>3
<1>5. IsText(cut) /\ Len(cut) = Len(lines)
  BY <1>1, <1>4, ChangedText
<1>6. \A i \in 1..Len(lines) : cut[i] = Split(lines[i], Comma)
  BY <1>1, <1>3
<1>7. ASSUME NEW i \in 1..Len(lines) PROVE IsText(cut[i])
  BY <1>1, <1>6, SplitAreTexts
<1> QED
  BY <1>2, <1>5, <1>6, <1>7

(* Trimming makes texts that are alike the same.                            *)
LEMMA AlikeIsSame ==
    ASSUME NEW s, NEW t, Alike(s, t)
    PROVE  Trimmed(s) = Trimmed(t)
<1>1. IsText(s) /\ IsText(t) /\ Len(s) = Len(t) /\ \A k \in 1..Len(t) : Trim(s[k]) = Trim(t[k])
  BY DEF Alike
<1>2. DOMAIN s = 1..Len(t) /\ DOMAIN t = 1..Len(t)
  BY <1>1, TextIs
<1> QED
  BY <1>1, <1>2 DEF Trimmed

\* The text of two lines combined, and lines of which the first two are.
Combining(s, t) == Both(Both(s, Alone(Comma)), Both(Alone(Blank), t))
AreMerged(merged, lines) ==
    /\ IsText(merged) /\ Len(merged) = Len(lines) - 1
    /\ merged[1] = Combining(lines[1], lines[2])
    /\ \A i \in 2..(Len(lines) - 1) : merged[i] = lines[i + 1]

(* The combined text holds the tokens of both lines and a comma.            *)
LEMMA CombinedText ==
    ASSUME NEW s, NEW t, IsText(s), IsText(t)
    PROVE  /\ IsText(Combining(s, t))
           /\ ToSet(Combining(s, t)) = ToSet(s) \cup ToSet(t) \cup {Comma, Blank}
           /\ Combining(s, t) # AnyLine
           /\ IsUtf8(Combining(s, t)) <=> IsUtf8(s) /\ IsUtf8(t)
           /\ Alike(Split(Combining(s, t), Comma), Both(Split(s, Comma), Split(t, Comma)))
<1>1. PICK rest, all : rest = Alone(Blank) /\ all = Combining(s, t)
  OBVIOUS
<1>2. IsText(rest) /\ ToSet(rest) = {Blank} /\ Comma \notin ToSet(rest)
  BY <1>1, AloneIs, ListSeparator
<1>3. all = Both(Both(s, Alone(Comma)), Both(rest, t))
  BY <1>1 DEF Combining
<1>4. IsText(all) /\ ToSet(all) = ToSet(s) \cup ToSet(t) \cup {Comma, Blank}
  <2>1. PICK a, b : a = Both(s, Alone(Comma)) /\ b = Both(rest, t)
    OBVIOUS
  <2>2. IsText(a) /\ ToSet(a) = ToSet(s) \cup {Comma}
    BY <2>1, AloneIs, PlacesOfBoth DEF AreBoth
  <2>3. IsText(b) /\ ToSet(b) = {Blank} \cup ToSet(t)
    BY <1>2, <2>1, PlacesOfBoth DEF AreBoth
  <2>4. IsText(all) /\ ToSet(all) = ToSet(a) \cup ToSet(b)
    BY <1>3, <2>1, <2>2, <2>3, PlacesOfBoth DEF AreBoth
  <2> QED
    BY <2>2, <2>3, <2>4
<1>5. all # AnyLine
  <2>1. Comma \notin ToSet(AnyLine)
    BY AloneIs, ListSeparator
  <2> QED
    BY <1>4, <2>1
<1>6. IsUtf8(all) <=> IsUtf8(s) /\ IsUtf8(t)
  BY <1>4, ListSeparator DEF IsUtf8
<1>7. Alike(Split(all, Comma), Both(Split(s, Comma), Split(t, Comma)))
  <2>1. PICK p, q, u, both : p = Split(s, Comma) /\ q = Split(t, Comma) /\ u = Split(all, Comma) /\ both = Both(p, q)
    OBVIOUS
  <2>2. PICK m, n : m = Len(p) /\ n = Len(q)
    OBVIOUS
  <2>3. IsText(p) /\ IsText(q) /\ m \in Nat \ {0} /\ n \in Nat \ {0} /\ IsText(u)
        /\ \A k \in 1..n : IsText(q[k])
    BY <1>4, <2>1, <2>2, SplitAreTexts
  <2>4. SplitsAsBoth(all, s, rest, t, Comma)
    BY <1>2, <1>3, SplitOfBoth
  <2>5. /\ Len(u) = m + n /\ \A k \in 1..m : u[k] = p[k]
        /\ u[m + 1] = Both(rest, q[1]) /\ \A k \in 2..n : u[m + k] = q[k]
    BY <2>1, <2>2, <2>4 DEF SplitsAsBoth
  <2>6. /\ IsText(both) /\ Len(both) = m + n /\ (\A k \in 1..m : both[k] = p[k])
        /\ \A k \in 1..n : both[m + k] = q[k]
    BY <2>1, <2>2, <2>3, PlacesOfBoth DEF AreBoth
  <2>7. ASSUME NEW k \in 1..(m + n) PROVE Trim(u[k]) = Trim(both[k])
    <3>1. CASE k \in 1..m
      BY <2>5, <2>6, <3>1
    <3>2. CASE k = m + 1
      <4>1. 1 \in 1..n
        BY <2>3
      <4>2. IsText(q[1]) /\ u[k] = Both(Alone(Blank), q[1]) /\ both[k] = q[1]
        BY <1>1, <2>3, <2>5, <2>6, <3>2, <4>1
      <4> QED
        BY <4>2, BlankIsTrimmed
    <3>3. CASE k \notin 1..m /\ k # m + 1
      <4>1. k - m \in 2..n /\ k - m \in 1..n /\ m + (k - m) = k
        BY <2>3, <3>3
      <4>2. u[m + (k - m)] = both[m + (k - m)]
        BY <2>5, <2>6, <4>1
      <4> QED
        BY <4>1, <4>2
    <3> QED
      BY <3>1, <3>2, <3>3
  <2> QED
    BY <2>1, <2>3, <2>5, <2>6, <2>7 DEF Alike
<1> QED
  BY <1>1, <1>4, <1>5, <1>6, <1>7

(* Lines are read the same when the first two have been combined.           *)
LEMMA MergedIsReadTheSame ==
    ASSUME NEW lines, AllTexts(lines), Len(lines) > 1, NEW merged, AreMerged(merged, lines)
    PROVE  /\ AllTexts(merged) /\ merged # <<AnyLine>>
           /\ CommaDelimited(merged) = CommaDelimited(lines)
<1>1. PICK n : n = Len(lines)
  OBVIOUS
<1>2. /\ n \in Nat /\ n > 1 /\ DOMAIN lines = 1..n /\ IsText(lines)
      /\ \A i \in 1..n : IsText(lines[i])
  BY <1>1, TextIs DEF AllTexts
<1>3. /\ IsText(merged) /\ Len(merged) = n - 1 /\ merged[1] = Combining(lines[1], lines[2])
      /\ \A i \in 2..(n - 1) : merged[i] = lines[i + 1]
  BY <1>1 DEF AreMerged
<1>4. DOMAIN merged = 1..(n - 1)
  BY <1>3, TextIs
<1>5. 1 \in 1..n /\ 2 \in 1..n /\ \A i \in 2..(n - 1) : i + 1 \in 1..n
  BY <1>2
<1>6. AllTexts(merged)
  <2>1. ASSUME NEW i \in 1..(n - 1) PROVE IsText(merged[i])
    <3>1. CASE i = 1
      BY <1>2, <1>3, <1>5, <3>1, CombinedText
    <3>2. CASE i # 1
      <4>1. i \in 2..(n - 1)
        BY <3>2
      <4> QED
        BY <1>2, <1>3, <1>5, <4>1
    <3> QED
      BY <3>1, <3>2
  <2> QED
    BY <1>3, <2>1 DEF AllTexts
<1>7. merged # <<AnyLine>>
  <2>1. merged[1] # AnyLine
    BY <1>2, <1>3, <1>5, CombinedText
  <2> QED
    BY <2>1, OnePlace
<1>8. AllUtf8(merged) <=> AllUtf8(lines)
  <2>1. IsUtf8(merged[1]) <=> IsUtf8(lines[1]) /\ IsUtf8(lines[2])
    BY <1>2, <1>3, <1>5, CombinedText
  <2>2. ASSUME AllUtf8(merged), NEW i \in 1..n PROVE IsUtf8(lines[i])
    <3>1. CASE i \in {1, 2}
      <4>1. 1 \in 1..(n - 1)
        BY <1>2
      <4> QED
        BY <1>4, <2>1, <2>2, <3>1, <4>1 DEF AllUtf8
    <3>2. CASE i \notin {1, 2}
      <4>1. i - 1 \in 2..(n - 1) /\ i - 1 \in 1..(n - 1) /\ (i - 1) + 1 = i
        BY <1>2, <3>2
      <4>2. merged[i - 1] = lines[(i - 1) + 1]
        BY <1>3, <4>1
      <4> QED
        BY <1>4, <2>2, <4>1, <4>2 DEF AllUtf8
    <3> QED
      BY <3>1, <3>2
  <2>3. ASSUME AllUtf8(lines), NEW i \in 1..(n - 1) PROVE IsUtf8(merged[i])
    <3>1. CASE i = 1
      BY <1>2, <1>5, <2>1, <2>3, <3>1 DEF AllUtf8
    <3>2. CASE i # 1
      <4>1. i \in 2..(n - 1)
        BY <3>2
      <4> QED
        BY <1>2, <1>3, <1>5, <2>3, <4>1 DEF AllUtf8
    <3> QED
      BY <3>1, <3>2
  <2> QED
    BY <1>2, <1>4, <2>2, <2>3 DEF AllUtf8
<1>9. Alike(FlattenSeq(Cut(merged)), FlattenSeq(Cut(lines)))
  <2>1. PICK cut, mcut : cut = Cut(lines) /\ mcut = Cut(merged)
    OBVIOUS
  <2>2. /\ IsText(cut) /\ Len(cut) = n
        /\ \A i \in 1..n : cut[i] = Split(lines[i], Comma) /\ IsText(cut[i])
    BY <1>1, <2>1, CutAreTexts
  <2>3. /\ IsText(mcut) /\ Len(mcut) = n - 1
        /\ \A i \in 1..(n - 1) : mcut[i] = Split(merged[i], Comma)
    BY <1>3, <1>6, <2>1, CutAreTexts
  <2>4. Alike(mcut[1], Both(cut[1], cut[2]))
    <3>1. Alike(Split(Combining(lines[1], lines[2]), Comma), Both(Split(lines[1], Comma), Split(lines[2], Comma)))
      BY <1>2, <1>5, CombinedText
    <3>2. 1 \in 1..(n - 1)
      BY <1>2
    <3> QED
      BY <1>3, <1>5, <2>2, <2>3, <3>1, <3>2
  <2>5. \A i \in 2..(n - 1) : mcut[i] = cut[i + 1]
    <3>1. \A i \in 2..(n - 1) : i \in 1..(n - 1)
      OBVIOUS
    <3> QED
      BY <1>3, <1>5, <2>2, <2>3, <3>1
  <2> QED
    BY <1>2, <2>1, <2>2, <2>3, <2>4, <2>5, AlikeFlat
<1>10. Trimmed(FlattenSeq(Cut(merged))) = Trimmed(FlattenSeq(Cut(lines)))
  BY <1>9, AlikeIsSame
<1>11. CommaDelimited(merged) = CommaDelimited(lines)
  BY <1>8, <1>10, CommaDelimitedIs DEF OkIf
<1> QED
  BY <1>6, <1>7, <1>11

-----------------------------------------------------------------------------
(* Lists on one line and on two.                                           *)

(* The elements at places that follow one another.                          *)
LEMMA RunSelected ==
    ASSUME NEW u, NEW m \in Nat, NEW x, IsText(x), NEW places, places = (m + 1)..(m + Len(x)),
           \A k \in 1..Len(x) : u[m + k] = x[k]
    PROVE  ElementsAt(u, places) = x
<1>1. PICK n : n = Len(x)
  OBVIOUS
<1>2. n \in Nat /\ x = [k \in 1..n |-> x[k]] /\ places = (m + 1)..(m + n)
  BY <1>1, TextIs
<1>3. places \in SUBSET Nat /\ IsFiniteSet(places) /\ Cardinality(places) = n
  <2>1. PICK lo, hi : lo = m + 1 /\ hi = m + n
    OBVIOUS
  <2>2. lo \in Int /\ hi \in Int /\ places = lo..hi /\ places \in SUBSET Nat
        /\ (IF lo > hi THEN 0 ELSE hi - lo + 1) = n
    BY <1>2, <2>1
  <2>3. IsFiniteSet(lo..hi) /\ Cardinality(lo..hi) = IF lo > hi THEN 0 ELSE hi - lo + 1
    BY <2>2, FS_Interval
  <2> QED
    BY <2>2, <2>3
<1>4. ASSUME NEW k \in 1..n PROVE Kth(places, k) = m + k
  <2>1. PICK lo, hi, i : lo = m + 1 /\ hi = m + k - 1 /\ i = m + k
    OBVIOUS
  <2>2. /\ lo \in Int /\ hi \in Int /\ i \in places /\ k \in 1..Cardinality(places)
        /\ {j \in places : j < i} = lo..hi /\ (IF lo > hi THEN 0 ELSE hi - lo + 1) = k - 1
    BY <1>2, <1>3, <2>1
  <2>3. Cardinality(lo..hi) = k - 1
    BY <2>2, FS_Interval
  <2>4. Cardinality({j \in places : j < i}) = k - 1
    BY <2>2, <2>3, Zenon
  <2>5. Kth(places, k) = i
    <3>1. PICK S : S = places
      OBVIOUS
    <3>2. S \in SUBSET Nat /\ IsFiniteSet(S) /\ k \in 1..Cardinality(S) /\ i \in S
      BY <1>3, <2>2, <3>1
    <3>3. Cardinality({j \in S : j < i}) = k - 1
      BY <2>4, <3>1, Zenon
    <3>4. Kth(S, k) = i
      BY <3>2, <3>3, KthIs
    <3> QED
      BY <3>1, <3>4
  <2> QED
    BY <2>1, <2>5
<1>5. ElementsAt(u, places) = [k \in 1..n |-> x[k]]
  BY <1>1, <1>3, <1>4 DEF ElementsAt
<1> QED
  BY <1>2, <1>5

\* The texts on a line: an empty list is an empty line, which is cut into one empty text.
OnLine(texts) == IF texts = <<>> THEN Alone(<<>>) ELSE texts

\* Texts that are not empty.
AllFull(texts) == IsText(texts) /\ \A i \in 1..Len(texts) : texts[i] # <<>>

(* The empty text.                                                          *)
LEMMA NoText ==
    /\ IsText(<<>>) /\ Len(<<>>) = 0 /\ ToSet(<<>>) = {}
    /\ \A t : IsText(t) => /\ Both(<<>>, t) = t /\ Both(t, <<>>) = t
                           /\ (Len(t) = 0 <=> t = <<>>)
<1>1. IsText(<<>>) /\ Len(<<>>) = 0
  BY ShortTexts
<1>2. ToSet(<<>>) = {}
  BY DEF ToSet
<1>3. ASSUME NEW t, IsText(t) PROVE <<>> \o t = t /\ t \o <<>> = t /\ (Len(t) = 0 <=> t = <<>>)
  <2>1. t \in Seq(ToSet(t))
    BY <1>3 DEF IsText
  <2> QED
    BY <2>1
<1> QED
  BY <1>1, <1>2, <1>3 DEF Both

(* Of the texts on two lines, those that are not empty are the texts of     *)
(* both lists.                                                              *)
LEMMA GapsAreLeftOut ==
    ASSUME NEW s, AllFull(s), NEW t, AllFull(t)
    PROVE  NotEmpty(Both(OnLine(s), OnLine(t))) = Both(s, t)
<1>1. PICK a, b, u, x, m, n : /\ a = OnLine(s) /\ b = OnLine(t) /\ u = Both(a, b) /\ x = Both(s, t)
                              /\ m = Len(s) /\ n = Len(t)
  OBVIOUS
<1>2. IsText(s) /\ IsText(t) /\ m \in Nat /\ n \in Nat
  BY <1>1, TextIs DEF AllFull
<1>3. (\A i \in 1..m : s[i] # <<>>) /\ (\A i \in 1..n : t[i] # <<>>)
  BY <1>1 DEF AllFull
<1>4. IsText(Alone(<<>>)) /\ Len(Alone(<<>>)) = 1 /\ Alone(<<>>)[1] = <<>>
  BY AloneIs
<1>5. /\ m = 0 => s = <<>> /\ a = Alone(<<>>)
      /\ m # 0 => a = s
      /\ n = 0 => t = <<>> /\ b = Alone(<<>>)
      /\ n # 0 => b = t
  BY <1>1, <1>2, NoText DEF OnLine
<1>6. IsText(a) /\ IsText(b) /\ Len(a) = (IF m = 0 THEN 1 ELSE m) /\ Len(b) = (IF n = 0 THEN 1 ELSE n)
  BY <1>1, <1>2, <1>4, <1>5
<1>7. /\ IsText(u) /\ Len(u) = Len(a) + Len(b)
      /\ \A i \in 1..Len(a) : u[i] = a[i]
      /\ \A i \in 1..Len(b) : u[Len(a) + i] = b[i]
  <2>1. AreBoth(u, a, b)
    BY <1>1, <1>6, PlacesOfBoth
  <2> QED
    BY <2>1 DEF AreBoth
<1>8. /\ IsText(x) /\ Len(x) = m + n
      /\ \A i \in 1..m : x[i] = s[i]
      /\ \A i \in 1..n : x[m + i] = t[i]
  BY <1>1, <1>2, PlacesOfBoth DEF AreBoth
<1>9. DOMAIN u = 1..Len(u) /\ Len(u) \in Nat
  BY <1>7, TextIs
<1>10. PICK places : places = {k \in DOMAIN u : u[k] # <<>>}
  OBVIOUS
<1>11. CASE m # 0 /\ n # 0
  <2>1. a = s /\ b = t /\ u = x
    BY <1>1, <1>5, <1>11
  <2>2. \A k \in 1..(m + n) : x[k] # <<>>
    <3> SUFFICES ASSUME NEW k \in 1..(m + n) PROVE x[k] # <<>>
      OBVIOUS
    <3>1. CASE k \in 1..m
      BY <1>3, <1>8, <3>1
    <3>2. CASE k \notin 1..m
      <4>1. k - m \in 1..n /\ m + (k - m) = k
        BY <1>2, <3>2
      <4>2. x[m + (k - m)] = t[k - m]
        BY <1>8, <4>1
      <4> QED
        BY <1>3, <4>1, <4>2
    <3> QED
      BY <3>1, <3>2
  <2>3. places = DOMAIN x
    BY <1>8, <1>9, <1>10, <2>1, <2>2
  <2>4. ElementsAt(u, places) = x
    BY <1>8, <2>1, <2>3, AllSelected
  <2> QED
    BY <1>1, <1>10, <2>4 DEF NotEmpty
<1>12. CASE m = 0
  <2>1. s = <<>> /\ x = t /\ Len(a) = 1 /\ u[1] = <<>>
    <3>1. s = <<>> /\ a = Alone(<<>>) /\ Len(a) = 1 /\ a[1] = <<>>
      BY <1>4, <1>5, <1>12
    <3>2. 1 \in 1..Len(a)
      BY <3>1
    <3>3. x = t
      BY <1>1, <1>2, <3>1, NoText
    <3> QED
      BY <1>7, <3>1, <3>2, <3>3
  <2>2. \A k \in 1..n : u[1 + k] = t[k] /\ t[k] # <<>>
    <3>1. CASE n = 0
      BY <3>1
    <3>2. CASE n # 0
      <4>1. b = t /\ Len(b) = n
        BY <1>5, <1>6, <3>2
      <4> QED
        BY <1>3, <1>7, <2>1, <4>1
    <3> QED
      BY <3>1, <3>2
  <2>3. n = 0 => Len(u) = 2 /\ u[2] = <<>>
    <3> SUFFICES ASSUME n = 0 PROVE Len(u) = 2 /\ u[2] = <<>>
      OBVIOUS
    <3>1. b = Alone(<<>>) /\ Len(b) = 1 /\ b[1] = <<>>
      BY <1>4, <1>5
    <3>2. 1 \in 1..Len(b) /\ Len(a) + 1 = 2
      BY <2>1, <3>1
    <3> QED
      BY <1>7, <2>1, <3>1, <3>2
  <2>4. n # 0 => Len(u) = 1 + n
    BY <1>6, <1>7, <2>1
  <2>5. places = (1 + 1)..(1 + n)
    <3>1. ASSUME NEW k \in 1..Len(u) PROVE u[k] # <<>> <=> k \in 2..(1 + n)
      <4>1. CASE k = 1
        BY <2>1, <4>1
      <4>2. CASE k # 1 /\ n = 0
        <5>1. Len(u) = 2 /\ u[2] = <<>> /\ n = 0 /\ k # 1
          BY <2>3, <4>2
        <5>2. k = 2
          <6>1. \A i \in 1..2 : i # 1 => i = 2
            OBVIOUS
          <6> QED
            BY <5>1, <6>1
        <5>3. k \notin 2..(1 + n)
          BY <5>1, <5>2
        <5> QED
          BY <5>1, <5>2, <5>3
      <4>3. CASE k # 1 /\ n # 0
        <5>1. k - 1 \in 1..n /\ 1 + (k - 1) = k
          BY <1>2, <2>4, <4>3
        <5>2. u[1 + (k - 1)] # <<>>
          BY <2>2, <5>1
        <5> QED
          BY <1>2, <5>1, <5>2
      <4> QED
        BY <4>1, <4>2, <4>3
    <3>2. \A k \in 2..(1 + n) : k \in 1..Len(u)
      BY <1>2, <2>4
    <3> QED
      BY <1>9, <1>10, <3>1, <3>2
  <2>6. ElementsAt(u, places) = t
    <3>1. PICK one : one = 1
      OBVIOUS
    <3>2. one \in Nat /\ places = (one + 1)..(one + Len(t)) /\ \A k \in 1..Len(t) : u[one + k] = t[k]
      BY <1>1, <2>2, <2>5, <3>1
    <3> QED
      BY <1>2, <3>2, RunSelected
  <2> QED
    BY <1>1, <1>10, <2>1, <2>6 DEF NotEmpty
<1>13. CASE m # 0 /\ n = 0
  <2>1. a = s /\ Len(a) = m /\ x = s /\ b = Alone(<<>>) /\ Len(b) = 1 /\ b[1] = <<>>
    BY <1>1, <1>2, <1>4, <1>5, <1>6, <1>13, NoText
  <2>2. Len(u) = m + 1 /\ u[m + 1] = <<>>
    <3>1. 1 \in 1..Len(b)
      BY <2>1
    <3> QED
      BY <1>7, <2>1, <3>1
  <2>3. \A k \in 1..m : u[0 + k] = s[k] /\ u[k] = s[k] /\ s[k] # <<>>
    <3>1. \A k \in 1..m : 0 + k = k
      OBVIOUS
    <3> QED
      BY <1>3, <1>7, <2>1, <3>1
  <2>4. places = (0 + 1)..(0 + m)
    <3>1. ASSUME NEW k \in 1..(m + 1) PROVE u[k] # <<>> <=> k \in 1..m
      BY <1>2, <2>2, <2>3
    <3>2. (0 + 1)..(0 + m) = 1..m /\ \A k \in 1..m : k \in 1..(m + 1)
      BY <1>2
    <3> QED
      BY <1>9, <1>10, <2>2, <3>1, <3>2
  <2>5. ElementsAt(u, places) = s
    <3>1. PICK none : none = 0
      OBVIOUS
    <3>2. none \in Nat /\ places = (none + 1)..(none + Len(s)) /\ \A k \in 1..Len(s) : u[none + k] = s[k]
      BY <1>1, <2>3, <2>4, <3>1
    <3> QED
      BY <1>2, <3>2, RunSelected
  <2> QED
    BY <1>1, <1>10, <2>1, <2>5 DEF NotEmpty
<1> QED
  BY <1>11, <1>12, <1>13

\* An item is printed as a text that a list can hold, and read from it again.
ListItem(kind, v) == ListText(PrintItem(kind, v)) /\ ParseItem(kind, PrintItem(kind, v)) = Ok(v)
ListItems(kind, items) == IsText(items) /\ \A i \in 1..Len(items) : ListItem(kind, items[i])

\* Items as they are printed, and texts as they are read.
Texts(kind, items) == [i \in DOMAIN items |-> PrintItem(kind, items[i])]
Readings(kind, texts) == [i \in DOMAIN texts |-> ParseItem(kind, texts[i])]

(* There is one text for each item.                                         *)
LEMMA TextsAre ==
    ASSUME NEW kind, NEW items, IsText(items), NEW texts, texts = Texts(kind, items)
    PROVE  /\ IsText(texts) /\ Len(texts) = Len(items) /\ DOMAIN texts = 1..Len(items)
           /\ \A i \in 1..Len(items) : texts[i] = PrintItem(kind, items[i])
<1>1. DOMAIN items = 1..Len(items)
  BY TextIs
<1>2. texts = [i \in DOMAIN items |-> texts[i]] /\ \A i \in DOMAIN items : texts[i] = PrintItem(kind, items[i])
  BY DEF Texts
<1>3. IsText(texts) /\ Len(texts) = Len(items)
  BY <1>2, ChangedText
<1> QED
  BY <1>1, <1>2, <1>3

(* How a list without weights is printed and read.                          *)
LEMMA UnweightedList ==
    ASSUME NEW h, ~h.weighted
    PROVE  /\ \A items : PrintListed(h, items) = FmtCommaDelimited(Texts(h.item, items))
           /\ \A lines : ParseListed(h, lines) =
                            IF CommaDelimited(lines).ok
                            THEN Ok(Oks(Readings(h.item, CommaDelimited(lines).val))) ELSE Err
<1>1. ASSUME NEW items PROVE PrintListed(h, items) = FmtCommaDelimited(Texts(h.item, items))
  BY DEF PrintListed, Texts
<1>2. ASSUME NEW lines
      PROVE  ParseListed(h, lines) = IF CommaDelimited(lines).ok
                                     THEN Ok(Oks(Readings(h.item, CommaDelimited(lines).val))) ELSE Err
  BY DEF ParseListed, Readings
<1> QED
  BY <1>1, <1>2

(* The empty list is the empty line.                                        *)
LEMMA EmptyLine ==
    /\ \A kind : Texts(kind, <<>>) = <<>>
    /\ FmtCommaDelimited(<<>>) = <<>>
    /\ Trimmed(Split(<<>>, Comma)) = OnLine(<<>>)
<1>1. IsText(<<>>) /\ DOMAIN <<>> = {} /\ Len(<<>>) = 0
  BY NoText
<1>2. ASSUME NEW f, f = [i \in {} |-> f[i]] PROVE f = <<>>
  <2>1. {} = 1..0 /\ 0 \in Nat
    OBVIOUS
  <2>2. f = [i \in 1..0 |-> f[i]]
    BY <1>2, <2>1
  <2>3. IsText(f) /\ Len(f) = 0
    BY <2>1, <2>2, TextOf
  <2> QED
    BY <2>3, NoText
<1>3. ASSUME NEW kind PROVE Texts(kind, <<>>) = <<>>
  <2>1. PICK f : f = Texts(kind, <<>>)
    OBVIOUS
  <2>2. f = [i \in {} |-> f[i]]
    BY <1>1, <2>1 DEF Texts
  <2> QED
    BY <1>2, <2>1, <2>2
<1>4. FmtCommaDelimited(<<>>) = <<>>
  <2>1. PICK separator : separator = Both(Alone(Comma), Alone(Blank))
    OBVIOUS
  <2>2. PICK f : f = [i \in DOMAIN <<>> |-> IF i = 1 THEN <<>>[i] ELSE separator \o <<>>[i]]
    OBVIOUS
  <2>3. f = <<>>
    BY <1>1, <2>2
  <2>4. FlattenSeq(f) = <<>>
    BY <1>1, <2>3 DEF FlattenSeq
  <2>5. Joined(<<>>, separator) = <<>>
    BY <2>2, <2>4 DEF Joined
  <2> QED
    BY <2>1, <2>5, ListSeparator
<1>5. Trimmed(Split(<<>>, Comma)) = OnLine(<<>>)
  <2>1. Split(<<>>, Comma) = <<<<>>>>
    BY NoText, NotSplit
  <2>2. TrimAll(<<>>, {Blank, NewLine}) = <<>>
    BY <1>1 DEF TrimAll
  <2>3. PICK one, none : one = <<none>> /\ none = <<>>
    OBVIOUS
  <2>4. DOMAIN one = {1} /\ one[1] = none
    BY <2>3, OnePlace
  <2>5. Trim(none) = none
    BY <2>2, <2>3, ListSeparator
  <2>6. Trimmed(one) = [i \in {1} |-> none]
    BY <2>4, <2>5 DEF Trimmed
  <2>7. Trimmed(one) = <<none>>
    <3>1. {1} = 1..1
      OBVIOUS
    <3> QED
      BY <2>6, <3>1, OneElement
  <2> QED
    BY <2>1, <2>3, <2>7 DEF OnLine, Alone
<1> QED
  BY <1>3, <1>4, <1>5

\* A line is a text, and the texts on it are these.
LineOf(line, texts) ==
    /\ IsText(line) /\ NewLine \notin ToSet(line) /\ IsUtf8(line)
    /\ AllFull(texts)
    /\ Trimmed(Split(line, Comma)) = OnLine(texts)
    /\ line = AnyLine => texts = <<AnyLine>>

(* A list of whatever length is a line on which its items' texts are.       *)
LEMMA ListLine ==
    ASSUME NEW h, ~h.weighted, NEW items, ListItems(h.item, items)
    PROVE  LineOf(PrintListed(h, items), Texts(h.item, items))
<1>1. PICK kind, texts, line : kind = h.item /\ texts = Texts(kind, items) /\ line = PrintListed(h, items)
  OBVIOUS
<1>2. line = FmtCommaDelimited(texts)
  BY <1>1, UnweightedList
<1>3. IsText(items) /\ \A i \in 1..Len(items) : ListItem(kind, items[i])
  BY <1>1 DEF ListItems
<1>4. /\ IsText(texts) /\ Len(texts) = Len(items)
      /\ \A i \in 1..Len(items) : texts[i] = PrintItem(kind, items[i])
  BY <1>1, <1>3, TextsAre
<1>5. \A i \in 1..Len(texts) : ListText(texts[i])
  BY <1>3, <1>4 DEF ListItem
<1>6. AllFull(texts)
  BY <1>4, <1>5 DEF AllFull, ListText, Bare
<1>7. CASE Len(texts) = 0
  <2>1. texts = <<>>
    BY <1>4, <1>7, NoText
  <2>2. line = <<>>
    BY <1>2, <2>1, EmptyLine
  <2>3. IsText(line) /\ NewLine \notin ToSet(line) /\ IsUtf8(line)
    BY <2>2, NoText DEF IsUtf8
  <2>4. line # AnyLine
    <3>1. Len(AnyLine) = 1
      BY AloneIs, ListSeparator
    <3> QED
      BY <2>2, <3>1, NoText
  <2>5. Trimmed(Split(line, Comma)) = OnLine(texts)
    BY <2>1, <2>2, EmptyLine
  <2> QED
    BY <1>1, <1>6, <2>3, <2>4, <2>5 DEF LineOf
<1>8. CASE Len(texts) # 0
  <2>1. /\ IsText(line) /\ NewLine \notin ToSet(line) /\ IsUtf8(line)
        /\ Trimmed(Split(line, Comma)) = texts
        /\ line = AnyLine => texts = <<AnyLine>>
    BY <1>2, <1>4, <1>5, <1>8, LineIsCut
  <2>2. OnLine(texts) = texts
    BY <1>8, NoText DEF OnLine
  <2> QED
    BY <1>1, <1>6, <2>1, <2>2 DEF LineOf
<1> QED
  BY <1>7, <1>8

(* One line is read as the texts on it.                                     *)
LEMMA OneLineIsRead ==
    ASSUME NEW line, NEW texts, LineOf(line, texts)
    PROVE  CommaDelimited(<<line>>) = Ok(texts)
<1>1. PICK lines, pieces : lines = <<line>> /\ pieces = Split(line, Comma)
  OBVIOUS
<1>2. IsText(line) /\ IsUtf8(line) /\ AllFull(texts) /\ IsText(texts) /\ Trimmed(pieces) = OnLine(texts)
  BY <1>1 DEF LineOf, AllFull
<1>3. DOMAIN lines = {1} /\ lines[1] = line /\ {1} = 1..1
  BY <1>1, OnePlace
<1>4. FlattenSeq(Cut(lines)) = pieces
  <2>1. PICK cut : cut = Cut(lines)
    OBVIOUS
  <2>2. cut = [i \in 1..1 |-> pieces]
    BY <1>1, <1>3, <2>1 DEF Cut
  <2>3. cut = <<pieces>>
    BY <2>2, OneElement
  <2> QED
    BY <2>1, <2>3, OneJoined
<1>5. AllUtf8(lines)
  BY <1>2, <1>3 DEF AllUtf8
<1>6. NotEmpty(OnLine(texts)) = texts
  <2>1. CASE texts = <<>>
    <3>1. PICK one, none, places : /\ one = Alone(<<>>) /\ none = 0
                                   /\ places = {k \in DOMAIN one : one[k] # <<>>}
      OBVIOUS
    <3>2. Len(texts) = 0 /\ IsText(texts)
      BY <2>1, NoText
    <3>3. DOMAIN one = {1} /\ one[1] = <<>>
      BY <3>1, OnePlace DEF Alone
    <3>4. places = {}
      BY <3>1, <3>3
    <3>5. none \in Nat /\ places = (none + 1)..(none + Len(texts))
          /\ \A k \in 1..Len(texts) : one[none + k] = texts[k]
      BY <3>1, <3>2, <3>4
    <3>6. ElementsAt(one, places) = texts
      BY <3>2, <3>5, RunSelected
    <3> QED
      BY <2>1, <3>1, <3>6 DEF NotEmpty, OnLine
  <2>2. CASE texts # <<>>
    <3>1. {k \in DOMAIN texts : texts[k] # <<>>} = DOMAIN texts
      BY <1>2, TextIs DEF AllFull
    <3>2. ElementsAt(texts, {k \in DOMAIN texts : texts[k] # <<>>}) = texts
      BY <1>2, <3>1, AllSelected
    <3> QED
      BY <2>2, <3>2 DEF NotEmpty, OnLine
  <2> QED
    BY <2>1, <2>2
<1>7. CommaDelimited(lines) = OkIf(AllUtf8(lines), NotEmpty(Trimmed(FlattenSeq(Cut(lines)))))
  BY CommaDelimitedIs
<1>8. CommaDelimited(lines) = OkIf(AllUtf8(lines), texts)
  BY <1>2, <1>4, <1>6, <1>7, Zenon
<1> QED
  BY <1>1, <1>5, <1>8 DEF OkIf

(* Two lines are read as the texts on both.                                 *)
LEMMA TwoLinesAreRead ==
    ASSUME NEW lines, IsText(lines), Len(lines) = 2,
           NEW s, NEW t, LineOf(lines[1], s), LineOf(lines[2], t)
    PROVE  CommaDelimited(lines) = Ok(Both(s, t))
<1>1. PICK k, l, p, q : k = lines[1] /\ l = lines[2] /\ p = Split(k, Comma) /\ q = Split(l, Comma)
  OBVIOUS
<1>2. IsText(k) /\ IsUtf8(k) /\ AllFull(s) /\ Trimmed(p) = OnLine(s)
  BY <1>1 DEF LineOf
<1>3. IsText(l) /\ IsUtf8(l) /\ AllFull(t) /\ Trimmed(q) = OnLine(t)
  BY <1>1 DEF LineOf
<1>4. IsText(p) /\ IsText(q)
  BY <1>1, <1>2, <1>3, SplitAreTexts
<1>5. DOMAIN lines = {1, 2} /\ 1 \in 1..2 /\ 2 \in 1..2
  <2>1. DOMAIN lines = 1..2 /\ 1..2 = {1, 2}
    BY TextIs
  <2> QED
    BY <2>1
<1>6. AllUtf8(lines)
  BY <1>1, <1>2, <1>3, <1>5 DEF AllUtf8
<1>7. FlattenSeq(Cut(lines)) = Both(p, q)
  <2>1. PICK cut : cut = Cut(lines)
    OBVIOUS
  <2>2. cut[1] = p /\ cut[2] = q
    BY <1>1, <1>5, <2>1 DEF Cut
  <2>3. Len(cut) = 2
    <3>1. cut = [i \in DOMAIN lines |-> cut[i]]
      BY <2>1 DEF Cut
    <3> QED
      BY <3>1, ChangedText
  <2> QED
    BY <2>1, <2>2, <2>3, FlatOfTwo
<1>8. Trimmed(Both(p, q)) = Both(Trimmed(p), Trimmed(q))
  <2>1. PICK u, v, x, y, m, n : /\ u = Both(p, q) /\ x = Trimmed(p) /\ y = Trimmed(q) /\ v = Both(x, y)
                                /\ m = Len(p) /\ n = Len(q)
    OBVIOUS
  <2>2. m \in Nat /\ n \in Nat /\ DOMAIN p = 1..m /\ DOMAIN q = 1..n
    BY <1>4, <2>1, TextIs
  <2>3. /\ x = [i \in DOMAIN p |-> x[i]] /\ y = [i \in DOMAIN q |-> y[i]]
        /\ (\A i \in 1..m : x[i] = Trim(p[i])) /\ \A i \in 1..n : y[i] = Trim(q[i])
    BY <2>1, <2>2 DEF Trimmed
  <2>4. IsText(x) /\ Len(x) = m /\ IsText(y) /\ Len(y) = n
    BY <1>4, <2>1, <2>3, ChangedText
  <2>5. AreBoth(u, p, q) /\ AreBoth(v, x, y)
    BY <1>4, <2>1, <2>4, PlacesOfBoth
  <2>6. /\ IsText(u) /\ Len(u) = m + n /\ (\A i \in 1..m : u[i] = p[i]) /\ \A i \in 1..n : u[m + i] = q[i]
        /\ IsText(v) /\ Len(v) = m + n /\ (\A i \in 1..m : v[i] = x[i]) /\ \A i \in 1..n : v[m + i] = y[i]
    BY <2>1, <2>4, <2>5 DEF AreBoth
  <2>7. ASSUME NEW i \in 1..(m + n) PROVE Trim(u[i]) = v[i]
    <3>1. CASE i \in 1..m
      BY <2>3, <2>6, <3>1
    <3>2. CASE i \notin 1..m
      <4>1. PICK j : j = i - m
        OBVIOUS
      <4>2. j \in 1..n /\ m + j = i
        BY <2>2, <3>2, <4>1
      <4>3. u[m + j] = q[j] /\ v[m + j] = y[j] /\ y[j] = Trim(q[j])
        BY <2>3, <2>6, <4>2
      <4> QED
        BY <4>2, <4>3
    <3> QED
      BY <3>1, <3>2
  <2>8. DOMAIN u = 1..(m + n) /\ v = [i \in 1..(m + n) |-> v[i]]
    BY <2>6, TextIs
  <2>9. Trimmed(u) = [i \in 1..(m + n) |-> v[i]]
    BY <2>7, <2>8 DEF Trimmed
  <2> QED
    BY <2>1, <2>8, <2>9
<1>9. NotEmpty(Both(OnLine(s), OnLine(t))) = Both(s, t)
  BY <1>2, <1>3, GapsAreLeftOut
<1>10. CommaDelimited(lines) = OkIf(AllUtf8(lines), NotEmpty(Trimmed(FlattenSeq(Cut(lines)))))
  BY CommaDelimitedIs
<1>11. CommaDelimited(lines) = OkIf(AllUtf8(lines), Both(s, t))
  BY <1>2, <1>3, <1>7, <1>8, <1>9, <1>10, Zenon
<1> QED
  BY <1>6, <1>11 DEF OkIf

(* Texts are read as the items they were printed of.                        *)
LEMMA TextsAreRead ==
    ASSUME NEW kind, NEW items, ListItems(kind, items)
    PROVE  Oks(Readings(kind, Texts(kind, items))) = items
<1>1. PICK n, texts, results : n = Len(items) /\ texts = Texts(kind, items) /\ results = Readings(kind, texts)
  OBVIOUS
<1>2. IsText(items) /\ \A i \in 1..n : ListItem(kind, items[i])
  BY <1>1 DEF ListItems
<1>3. n \in Nat /\ DOMAIN items = 1..n /\ items = [i \in 1..n |-> items[i]]
  BY <1>1, <1>2, TextIs
<1>4. IsText(texts) /\ DOMAIN texts = 1..n /\ \A i \in 1..n : texts[i] = PrintItem(kind, items[i])
  BY <1>1, <1>2, TextsAre
<1>5. results = [i \in DOMAIN texts |-> results[i]] /\ DOMAIN results = DOMAIN texts
      /\ \A i \in DOMAIN texts : results[i] = ParseItem(kind, texts[i])
  BY <1>1 DEF Readings
<1>6. IsText(results)
  BY <1>4, <1>5, ChangedText
<1>7. DOMAIN results = 1..n /\ \A i \in 1..n : results[i] = Ok(items[i])
  BY <1>2, <1>4, <1>5 DEF ListItem
<1>8. \A i \in 1..n : results[i].ok /\ results[i].val = items[i]
  BY <1>7 DEF Ok
<1>9. {i \in DOMAIN results : results[i].ok} = DOMAIN results
  BY <1>7, <1>8
<1>10. ElementsAt(results, {i \in DOMAIN results : results[i].ok}) = results
  BY <1>6, <1>9, AllSelected
<1>11. Oks(results) = [i \in DOMAIN results |-> results[i].val]
  BY <1>10 DEF Oks
<1>12. Oks(results) = [i \in 1..n |-> items[i]]
  BY <1>7, <1>8, <1>11
<1> QED
  BY <1>1, <1>3, <1>12

(* The texts read from lines, wherever they come from, are texts that a     *)
(* list can hold.                                                           *)
LEMMA TextsOnLines ==
    ASSUME NEW lines, AllTexts(lines), NoLineBreak(lines), CommaDelimited(lines).ok,
           NEW texts, texts = CommaDelimited(lines).val
    PROVE  IsText(texts) /\ \A i \in 1..Len(texts) : ListText(texts[i])
<1>1. PICK cut, flat, trimmed, places, P :
         /\ cut = Cut(lines) /\ flat = FlattenSeq(cut) /\ trimmed = Trimmed(flat)
         /\ places = {k \in DOMAIN trimmed : trimmed[k] # <<>>}
         /\ P = UNION {ToSet(cut[i]) : i \in 1..Len(lines)}
  OBVIOUS
<1>2. AllUtf8(lines) /\ texts = ElementsAt(trimmed, places)
  <2>1. CommaDelimited(lines) = OkIf(AllUtf8(lines), NotEmpty(trimmed))
    BY <1>1, CommaDelimitedIs
  <2>2. NotEmpty(trimmed) = ElementsAt(trimmed, places)
    BY <1>1 DEF NotEmpty
  <2> QED
    BY <2>1, <2>2 DEF OkIf, Ok, Err
<1>3. /\ IsText(cut) /\ Len(cut) = Len(lines)
      /\ \A i \in 1..Len(lines) : cut[i] = Split(lines[i], Comma) /\ IsText(cut[i])
  BY <1>1, CutAreTexts
<1>4. DOMAIN lines = 1..Len(lines) /\ \A i \in 1..Len(lines) : IsText(lines[i])
  BY TextIs DEF AllTexts
<1>5. ASSUME NEW t \in P
      PROVE  IsText(t) /\ Comma \notin ToSet(t) /\ NewLine \notin ToSet(t) /\ NotUtf8 \notin ToSet(t)
  <2>1. PICK i \in 1..Len(lines) : t \in ToSet(cut[i])
    BY <1>1
  <2>2. PICK line, pieces : line = lines[i] /\ pieces = Split(line, Comma)
    OBVIOUS
  <2>3. IsText(line) /\ NewLine \notin ToSet(line) /\ NotUtf8 \notin ToSet(line)
    BY <1>2, <1>4, <2>2 DEF AllUtf8, IsUtf8, NoLineBreak
  <2>4. IsText(pieces) /\ t \in ToSet(pieces)
    BY <1>3, <2>1, <2>2
  <2>5. PICK k \in 1..Len(pieces) : t = pieces[k]
    BY <2>4, TextIs DEF ToSet
  <2>6. Whole(pieces, Comma, ToSet(line))
    BY <2>2, <2>3, PiecesAreWhole
  <2> QED
    BY <2>3, <2>5, <2>6 DEF Whole
<1>6. IsText(flat) /\ ToSet(flat) \subseteq P
  <2>1. \A i \in 1..Len(cut) : IsText(cut[i]) /\ ToSet(cut[i]) \subseteq P
    BY <1>1, <1>3
  <2>2. flat = FlattenSeq(cut) /\ IsText(cut)
    BY <1>1, <1>3
  <2> QED
    BY <2>1, <2>2, TokensOfFlat
<1>7. IsText(trimmed) /\ DOMAIN trimmed = DOMAIN flat /\ \A k \in DOMAIN flat : trimmed[k] = Trim(flat[k])
  <2>1. trimmed = [k \in DOMAIN flat |-> trimmed[k]] /\ DOMAIN trimmed = DOMAIN flat
        /\ \A k \in DOMAIN flat : trimmed[k] = Trim(flat[k])
    BY <1>1 DEF Trimmed
  <2> QED
    BY <1>6, <2>1, ChangedText
<1>8. places \in SUBSET DOMAIN trimmed /\ \A k \in places : trimmed[k] # <<>>
  BY <1>1
<1>9. /\ IsText(texts) /\ Len(texts) = Cardinality(places)
      /\ \A k \in 1..Cardinality(places) : \E i \in places : texts[k] = trimmed[i]
  BY <1>2, <1>7, <1>8, SelectedAreText
<1>10. ASSUME NEW i \in 1..Len(texts) PROVE ListText(texts[i])
  <2>1. PICK k \in places : texts[i] = trimmed[k]
    BY <1>9
  <2>2. PICK t, u : t = flat[k] /\ u = texts[i]
    OBVIOUS
  <2>3. k \in DOMAIN flat /\ u = Trim(t) /\ u # <<>>
    BY <1>7, <1>8, <2>1, <2>2
  <2>4. t \in P
    BY <1>6, <2>2, <2>3 DEF ToSet
  <2>5. IsText(t) /\ Comma \notin ToSet(t) /\ NewLine \notin ToSet(t) /\ NotUtf8 \notin ToSet(t)
    BY <1>5, <2>4
  <2>6. IsText(u) /\ ToSet(u) \subseteq ToSet(t) /\ Trim(u) = u
    BY <2>3, <2>5, TokensOfTrimmed, TrimmedOnce
  <2>7. ListText(u)
    BY <2>3, <2>5, <2>6 DEF ListText, Bare, IsUtf8
  <2> QED
    BY <2>2, <2>7
<1> QED
  BY <1>9, <1>10

-----------------------------------------------------------------------------
(* Texts cut in two, numerals and tables.                                  *)

(* A text is cut at the first place of a token into what is before it and   *)
(* what is after it.                                                        *)
LEMMA CutInTwo ==
    ASSUME NEW s, IsText(s), NEW t, IsText(t), NEW token, token \notin ToSet(s),
           NEW all, all = Both(Both(s, Alone(token)), t)
    PROVE  /\ IsText(all) /\ ToSet(all) = ToSet(s) \cup {token} \cup ToSet(t)
           /\ Len(all) = Len(s) + 1 + Len(t)
           /\ all[1] = Both(s, Alone(token))[1]
           /\ Len(t) > 0 => all[Len(all)] = t[Len(t)]
           /\ Len(SplitFirst(all, token)) = 2
           /\ SplitFirst(all, token)[1] = s /\ SplitFirst(all, token)[2] = t
<1>1. PICK u, n, m, at : u = Both(s, Alone(token)) /\ n = Len(s) /\ m = n + 1 /\ at = Places(all, token)
  OBVIOUS
<1>2. n \in Nat /\ m \in Nat \ {0} /\ DOMAIN s = 1..n /\ Len(t) \in Nat
  BY <1>1, TextIs
<1>3. IsText(Alone(token)) /\ Len(Alone(token)) = 1 /\ Alone(token)[1] = token /\ ToSet(Alone(token)) = {token}
  BY AloneIs
<1>4. /\ IsText(u) /\ Len(u) = m /\ ToSet(u) = ToSet(s) \cup {token}
      /\ \A i \in 1..n : u[i] = s[i]
      /\ u[m] = token
  <2>1. AreBoth(u, s, Alone(token))
    BY <1>1, <1>3, PlacesOfBoth
  <2>2. 1 \in 1..1
    OBVIOUS
  <2> QED
    BY <1>1, <1>3, <2>1, <2>2 DEF AreBoth
<1>5. /\ IsText(all) /\ Len(all) = m + Len(t) /\ ToSet(all) = ToSet(u) \cup ToSet(t)
      /\ \A i \in 1..m : all[i] = u[i]
      /\ \A i \in 1..Len(t) : all[m + i] = t[i]
  <2>1. AreBoth(all, u, t)
    BY <1>1, <1>4, PlacesOfBoth
  <2> QED
    BY <1>4, <2>1 DEF AreBoth
<1>6. DOMAIN all = 1..(m + Len(t))
  BY <1>5, TextIs
<1>7. /\ \A i \in 1..n : all[i] = s[i] /\ all[i] # token
      /\ all[m] = token
  <2>1. \A i \in 1..n : i \in 1..m /\ s[i] \in ToSet(s)
    BY <1>1, <1>2 DEF ToSet
  <2>2. m \in 1..m
    BY <1>2
  <2> QED
    BY <1>4, <1>5, <2>1, <2>2
<1>8. at \in SUBSET DOMAIN all /\ m \in at /\ \A i \in at : i >= m
  <2>1. \A i : i \in at <=> i \in DOMAIN all /\ all[i] = token
    BY <1>1 DEF Places
  <2>2. m \in 1..(m + Len(t))
    BY <1>2
  <2>3. ASSUME NEW i \in at PROVE i >= m
    <3>1. i \in 1..(m + Len(t)) /\ all[i] = token
      BY <1>6, <2>1
    <3>2. i \notin 1..n
      BY <1>7, <3>1
    <3> QED
      BY <1>1, <1>2, <3>1, <3>2
  <2> QED
    BY <1>6, <1>7, <2>1, <2>2, <2>3
<1>9. Min(at) = m
  <2>1. at \in SUBSET Nat /\ IsFiniteSet(at) /\ at # {}
    BY <1>5, <1>8, PlacesAreFinite
  <2>2. Min(at) \in at /\ \A y \in at : Min(at) <= y
    BY <2>1, LeastMember
  <2>3. Min(at) \in Nat /\ Min(at) <= m /\ Min(at) >= m
    BY <1>8, <2>1, <2>2
  <2> QED
    BY <1>2, <2>3
<1>10. PICK places : places = {m}
  OBVIOUS
<1>11. SplitFirst(all, token) = CutAt(all, places)
  <2>1. at # {}
    BY <1>8
  <2> QED
    BY <1>1, <1>9, <1>10, <2>1 DEF SplitFirst
<1>12. IsFiniteSet(places) /\ Cardinality(places) = 1 /\ places \in SUBSET Nat
  <2>1. IsFiniteSet({m}) /\ Cardinality({m}) = 1
    BY FS_Singleton
  <2> QED
    BY <1>2, <1>10, <2>1
<1>13. Kth(places, 1) = m
  <2>1. 1 \in 1..Cardinality(places)
    BY <1>12
  <2> QED
    BY <1>10, <1>12, <2>1, KthIsMember
<1> DEFINE End(k) == IF k = 0 THEN 0 ELSE IF k = 2 THEN Len(all) + 1 ELSE Kth(places, k)
<1>14. CutAt(all, places) = [k \in 1..2 |-> SubSeq(all, End(k - 1) + 1, End(k) - 1)]
  <2>1. Cardinality(places) + 1 = 2
    BY <1>12
  <2> QED
    BY <2>1 DEF CutAt
<1>15. End(0) = 0 /\ End(1) = m /\ End(2) = m + Len(t) + 1
  BY <1>5, <1>13
<1> HIDE DEF End
<1>16. PICK parts : parts = CutAt(all, places)
  OBVIOUS
<1>17. /\ parts = [k \in 1..2 |-> parts[k]]
       /\ \A k \in 1..2 : parts[k] = SubSeq(all, End(k - 1) + 1, End(k) - 1)
  BY <1>14, <1>16
<1>18. Len(parts) = 2
  BY <1>17, TextOf
<1>19. parts[1] = s
  <2>1. PICK from \in Nat : from = 0
    OBVIOUS
  <2>2. \A i \in 1..Len(s) : all[from + i] = s[i]
    BY <1>1, <1>2, <1>7, <2>1
  <2>3. SubSeq(all, from + 1, from + Len(s)) = s
    BY <2>2, PieceIs
  <2>4. parts[1] = SubSeq(all, End(0) + 1, End(1) - 1)
    <3>1. 1 \in 1..2 /\ 1 - 1 = 0
      OBVIOUS
    <3> QED
      BY <1>17, <3>1
  <2>5. End(0) + 1 = from + 1 /\ End(1) - 1 = from + Len(s)
    BY <1>1, <1>2, <1>15, <2>1
  <2> QED
    BY <2>3, <2>4, <2>5
<1>20. parts[2] = t
  <2>1. SubSeq(all, m + 1, m + Len(t)) = t
    BY <1>2, <1>5, PieceIs
  <2>2. parts[2] = SubSeq(all, End(1) + 1, End(2) - 1)
    <3>1. 2 \in 1..2 /\ 2 - 1 = 1
      OBVIOUS
    <3> QED
      BY <1>17, <3>1
  <2>3. End(1) + 1 = m + 1 /\ End(2) - 1 = m + Len(t)
    BY <1>2, <1>15
  <2> QED
    BY <2>1, <2>2, <2>3
<1>21. all[1] = u[1]
  BY <1>2, <1>5
<1>22. Len(t) > 0 => all[Len(all)] = t[Len(t)]
  BY <1>2, <1>5
<1> QED
  BY <1>1, <1>2, <1>4, <1>5, <1>11, <1>16, <1>18, <1>19, <1>20, <1>21, <1>22

\* The text is what is before the token, the token and what is after it, and is cut there.
IsCut(all, s, token, t) ==
    /\ IsText(all) /\ ToSet(all) = ToSet(s) \cup {token} \cup ToSet(t)
    /\ Len(all) = Len(s) + 1 + Len(t)
    /\ Len(SplitFirst(all, token)) = 2
    /\ SplitFirst(all, token)[1] = s /\ SplitFirst(all, token)[2] = t

(* The same as a predicate.                                                 *)
LEMMA TextIsCut ==
    ASSUME NEW s, IsText(s), NEW t, IsText(t), NEW token, token \notin ToSet(s),
           NEW all, all = Both(Both(s, Alone(token)), t)
    PROVE  IsCut(all, s, token, t) /\ Len(all) > 0
<1>1. /\ IsText(all) /\ ToSet(all) = ToSet(s) \cup {token} \cup ToSet(t)
      /\ Len(all) = Len(s) + 1 + Len(t)
      /\ Len(SplitFirst(all, token)) = 2
      /\ SplitFirst(all, token)[1] = s /\ SplitFirst(all, token)[2] = t
  BY CutInTwo
<1>2. Len(s) \in Nat /\ Len(t) \in Nat
  BY TextIs
<1>3. Len(all) > 0
  BY <1>1, <1>2
<1> QED
  BY <1>1, <1>3 DEF IsCut

(* Numerals are texts of one token, and are read as the numbers they are    *)
(* printed of.                                                              *)
LEMMA NumeralIsRead ==
    ASSUME NEW n \in Numbers
    PROVE  /\ IsText(Numeral(n)) /\ Len(Numeral(n)) = 1 /\ ToSet(Numeral(n)) = {Numeral(n)[1]}
           /\ Numeral(n)[1] \notin {" ", ",", "-", "/", "*", "=", "bytes", NewLine, NotUtf8}
           /\ ParseNumber(Numeral(n)) = Ok(n)
<1>1. PICK token : token = ToString(n)
  OBVIOUS
<1>2. Numeral(n) = Alone(token)
  BY <1>1 DEF Numeral, Alone
<1>3. token \notin {" ", ",", "-", "/", "*", "=", "bytes", NewLine, NotUtf8}
  <2>1. token \in {ToString(k) : k \in Numbers}
    BY <1>1
  <2> QED
    BY <2>1, NumeralsAssumption
<1>4. token \in DOMAIN NumberOf /\ NumberOf[token] = n
  <2>1. DOMAIN NumberOf = {ToString(k) : k \in Numbers}
    BY DEF NumberOf
  <2>2. token \in {ToString(k) : k \in Numbers}
    BY <1>1
  <2>3. NumberOf[token] = CHOOSE k \in Numbers : ToString(k) = token
    BY <2>2 DEF NumberOf
  <2>4. \A k \in Numbers : ToString(k) = token => k = n
    BY <1>1, NumeralsAssumption
  <2> HIDE DEF Numbers
  <2> QED
    BY <1>1, <2>1, <2>2, <2>3, <2>4
<1>5. PICK t : t = Numeral(n)
  OBVIOUS
<1>6. IsText(t) /\ Len(t) = 1 /\ t[1] = token /\ ToSet(t) = {token}
  BY <1>2, <1>5, AloneIs
<1>7. ParseNumber(t) = Ok(n)
  BY <1>4, <1>6 DEF ParseNumber
<1> QED
  BY <1>3, <1>5, <1>6, <1>7

\* The delimiters that ranges are written with, none of which is in a numeral.
Dash == "-"
Slash == "/"
Equality == "="
Bytes == "bytes"
Delimiters == {Blank, Comma, Slash, "*", Equality, Bytes, NewLine, NotUtf8}

\* A text with numerals and dashes only, as far as readers can tell.
Plain(t) == IsText(t) /\ Len(t) > 0 /\ Delimiters \cap ToSet(t) = {}

(* The marks are different.                                                 *)
LEMMA MarksDiffer ==
    /\ Dash \notin Delimiters /\ Equality \notin {Bytes, Comma, Slash, "*"} /\ Slash # "*" /\ Dash # "*"
    /\ Blank \notin {Bytes, Slash, Dash, "*"} /\ Bytes \notin {Blank, NewLine, NotUtf8, Equality}
    /\ {Blank, Slash, Equality, "*"} \cap {NewLine, NotUtf8} = {} /\ Equality \notin {Blank, NewLine, NotUtf8}
BY DEF Delimiters, Dash, Slash, Equality, Bytes, Blank, Comma, NewLine, NotUtf8

(* A numeral is plain.                                                      *)
LEMMA NumeralIsPlain ==
    ASSUME NEW n \in Numbers
    PROVE  /\ Plain(Numeral(n)) /\ Len(Numeral(n)) = 1 /\ Dash \notin ToSet(Numeral(n))
           /\ ParseNumber(Numeral(n)) = Ok(n)
<1>1. PICK t : t = Numeral(n)
  OBVIOUS
<1>2. IsText(t) /\ Len(t) = 1 /\ ToSet(t) = {t[1]} /\ ParseNumber(t) = Ok(n)
  BY <1>1, NumeralIsRead
<1>3. t[1] \notin Delimiters /\ t[1] # Dash
  <2>1. t[1] \notin {" ", ",", "-", "/", "*", "=", "bytes", NewLine, NotUtf8}
    BY <1>1, NumeralIsRead
  <2> QED
    BY <2>1 DEF Delimiters, Dash, Slash, Equality, Bytes, Blank, Comma
<1>4. Delimiters \cap ToSet(t) = {} /\ Dash \notin ToSet(t)
  BY <1>2, <1>3
<1>5. Plain(t)
  <2>1. Len(t) > 0
    BY <1>2
  <2> QED
    BY <1>2, <1>4, <2>1 DEF Plain
<1> QED
  BY <1>1, <1>2, <1>4, <1>5

(* What is read of a number is a number.                                    *)
LEMMA ReadNumber ==
    ASSUME NEW t, ParseNumber(t).ok
    PROVE  ParseNumber(t).val \in Numbers
<1>1. ASSUME NEW s \in DOMAIN NumberOf PROVE NumberOf[s] \in Numbers
  <2>1. s \in {ToString(n) : n \in Numbers}
    BY DEF NumberOf
  <2>2. NumberOf[s] = CHOOSE n \in Numbers : ToString(n) = s
    BY <2>1 DEF NumberOf
  <2> HIDE DEF Numbers
  <2> QED
    BY <2>1, <2>2
<1>2. ~Err.ok /\ \A n : Ok(n).val = n
  BY DEF Err, Ok
<1>3. ParseNumber(t) = IF Len(t) = 1 /\ t[1] \in DOMAIN NumberOf THEN Ok(NumberOf[t[1]])
                       ELSE IF Len(t) = 2 /\ t[1] = "+" /\ t[2] \in DOMAIN NumberOf THEN Ok(NumberOf[t[2]])
                       ELSE Err
  BY DEF ParseNumber
<1> HIDE DEF Numbers
<1> QED
  BY <1>1, <1>2, <1>3

(* A plain text is not trimmed, and is not an empty one.                    *)
LEMMA PlainIsWhole ==
    ASSUME NEW t, Plain(t)
    PROVE  Trim(t) = t /\ t # <<>> /\ IsUtf8(t)
<1>1. IsText(t) /\ Len(t) > 0 /\ Delimiters \cap ToSet(t) = {} /\ DOMAIN t = 1..Len(t) /\ Len(t) \in Nat
  BY TextIs DEF Plain
<1>2. Blank \in Delimiters /\ NewLine \in Delimiters /\ NotUtf8 \in Delimiters
  BY DEF Delimiters
<1>3. t[1] \in ToSet(t) /\ t[Len(t)] \in ToSet(t)
  <2>1. 1 \in DOMAIN t /\ Len(t) \in DOMAIN t
    BY <1>1
  <2> QED
    BY <2>1 DEF ToSet
<1>4. Trim(t) = t
  <2>1. TrimAll(t, {Blank, NewLine}) = t
    BY <1>1, <1>2, <1>3, WholeText
  <2> QED
    BY <2>1, ListSeparator
<1>5. t # <<>>
  <2>1. Len(<<>>) = 0
    BY NoText
  <2> QED
    BY <1>1, <2>1
<1>6. IsUtf8(t)
  BY <1>1, <1>2 DEF IsUtf8
<1> QED
  BY <1>4, <1>5, <1>6

(* What a table has for the key of its only row with that key.              *)
LEMMA TableIs ==
    ASSUME NEW rows, NEW row \in rows, \A r \in rows : r[1] = row[1] => r = row
    PROVE  row[1] \in DOMAIN Table(rows) /\ Table(rows)[row[1]] = row[2]
<1>1. PICK key : key = row[1]
  OBVIOUS
<1>2. key \in {r[1] : r \in rows}
  BY <1>1
<1>3. Table(rows)[key] = (CHOOSE r \in rows : r[1] = key)[2]
  BY <1>2 DEF Table
<1>4. (CHOOSE r \in rows : r[1] = key) = row
  BY <1>1
<1> QED
  BY <1>1, <1>2, <1>3, <1>4 DEF Table

-----------------------------------------------------------------------------
(* Items.                                                                  *)

\* The items of headers without weights: variants of which some stand for a word, plain text,
\* entity tags, protocols, and those whose values are of a table.
KnownKinds == {"encoding", "range unit", "option", "method"}
PlainKinds == {"name", "text"}
TagKind == "entity tag"
\* A protocol is a name, with a version after a slash if there is one.
ProtocolKind == "protocol"
\* The items whose values are those a table has, or the numbers there are numerals for.
TableKinds == {"language", "mime", "date", "seconds"}
KeptKinds == KnownKinds \cup PlainKinds \cup {TagKind, ProtocolKind} \cup TableKinds

(* What the operators on items say of each kind.                            *)
LEMMA KnownItem ==
    ASSUME NEW kind \in KnownKinds, NEW v, NEW t
    PROVE  /\ PrintItem(kind, v) = v.text
           /\ IsItem(kind, v) <=> v = [known |-> v.known, text |-> v.text] /\ IsString(v.text)
           /\ FaithfulItem(kind, v) <=> Bare(v.text) /\ v = ParseItem(kind, v.text).val
           /\ \/ \E keywords : ParseItem(kind, t) = Ok(Keyword(keywords, t))
              \/ ParseItem(kind, t) = Ok(ConnectionOption(t))
              \/ t = <<>> /\ ParseItem(kind, t) = Err
<1>1. CASE kind = "encoding"
  <2>1. ParseItem(kind, t) = Ok(Encoding(t))
    BY <1>1 DEF ParseItem
  <2> QED
    BY <1>1, <2>1 DEF PrintItem, IsItem, FaithfulItem, Encoding
<1>2. CASE kind = "range unit"
  <2>1. ParseItem(kind, t) = Ok(RangeUnit(t))
    BY <1>2 DEF ParseItem
  <2> QED
    BY <1>2, <2>1 DEF PrintItem, IsItem, FaithfulItem, RangeUnit
<1>3. CASE kind = "option"
  <2>1. ParseItem(kind, t) = Ok(ConnectionOption(t))
    BY <1>3 DEF ParseItem
  <2> QED
    BY <1>3, <2>1 DEF PrintItem, IsItem, FaithfulItem
<1>4. CASE kind = "method"
  <2>1. ParseItem(kind, t) = ParseMethod(t)
    BY <1>4 DEF ParseItem
  <2> QED
    BY <1>4, <2>1 DEF PrintItem, IsItem, FaithfulItem, ParseMethod, OkIf
<1> QED
  BY <1>1, <1>2, <1>3, <1>4 DEF KnownKinds

(* Plain text is printed and read as it is.                                 *)
LEMMA PlainItem ==
    ASSUME NEW kind \in PlainKinds, NEW v
    PROVE  /\ PrintItem(kind, v) = v /\ ParseItem(kind, v) = Ok(v)
           /\ IsItem(kind, v) <=> IsString(v)
           /\ FaithfulItem(kind, v) <=> Bare(v)
<1>1. CASE kind = "name"
  BY <1>1 DEF PrintItem, ParseItem, IsItem, FaithfulItem
<1>2. CASE kind = "text"
  BY <1>2 DEF PrintItem, ParseItem, IsItem, FaithfulItem
<1> QED
  BY <1>1, <1>2 DEF PlainKinds

(* Entity tags have a form of their own.                                    *)
LEMMA TagItem ==
    ASSUME NEW v
    PROVE  /\ PrintItem(TagKind, v) = PrintEntityTag(v) /\ ParseItem(TagKind, v) = ParseEntityTag(v)
           /\ IsItem(TagKind, v) <=> IsEntityTag(v)
BY DEF PrintItem, ParseItem, IsItem, TagKind

(* A text of one token that no reader looks for at its ends.                *)
LEMMA TokenIsBare ==
    ASSUME NEW token, token \notin {Blank, NewLine, NotUtf8}, NEW t, t = Alone(token)
    PROVE  IsString(t) /\ Bare(t) /\ Len(t) = 1 /\ t[1] = token
<1>1. IsText(t) /\ Len(t) = 1 /\ t[1] = token /\ ToSet(t) = {token}
  BY AloneIs
<1>2. TrimAll(t, {Blank, NewLine}) = t
  BY <1>1, WholeText
<1>3. Trim(t) = t
  BY <1>2, ListSeparator
<1>4. t # <<>>
  BY <1>1, NoText
<1> QED
  BY <1>1, <1>3, <1>4 DEF IsString, IsUtf8, Bare

(* Whatever a table has for a key, it has from one of its rows.             *)
LEMMA FromARow ==
    ASSUME NEW rows, NEW key \in DOMAIN Table(rows)
    PROVE  \E r \in rows : r[1] = key /\ Table(rows)[key] = r[2]
<1>1. key \in {r[1] : r \in rows}
  BY DEF Table
<1>2. PICK r : r = CHOOSE x \in rows : x[1] = key
  OBVIOUS
<1>3. r \in rows /\ r[1] = key
  BY <1>1, <1>2
<1>4. Table(rows)[key] = r[2]
  BY <1>1, <1>2 DEF Table
<1> QED
  BY <1>3, <1>4

\* The forms of dates that are read, and the one that is printed, with the dates themselves.
Nov06 == "06 Nov 1994"
Aug25 == "25 Aug 2012"
ImfNov06 == "Sun, 06 Nov 1994 08:49:37 GMT"
ImfAug25 == "Sat, 25 Aug 2012 23:34:45 GMT"
Rfc850Nov06 == "Sunday, 06-Nov-94 08:49:37 GMT"
AsctimeNov06 == "Sun Nov  6 08:49:37 1994"
ReadForms == {<<ImfNov06, Nov06>>, <<Rfc850Nov06, Nov06>>, <<AsctimeNov06, Nov06>>, <<ImfAug25, Aug25>>}
WrittenForms == {<<Nov06, ImfNov06>>, <<Aug25, ImfAug25>>}

(* No form stands for two dates, and no date is printed in two forms.       *)
LEMMA FormsOfDates ==
    /\ Dates = Table(ReadForms) /\ ImfDate = Table(WrittenForms)
    /\ \A r \in ReadForms : /\ r[2] \in {Nov06, Aug25}
                            /\ \A x \in ReadForms : x[1] = r[1] => x = r
    /\ \A r \in WrittenForms : <<r[2], r[1]>> \in ReadForms /\ r[2] \notin {Blank, NewLine, NotUtf8}
    /\ \A d \in {Nov06, Aug25} : \E r \in WrittenForms : r[1] = d
<1>1. Dates = Table(ReadForms) /\ ImfDate = Table(WrittenForms)
  BY DEF Dates, ImfDate, ReadForms, WrittenForms, Nov06, Aug25, ImfNov06, ImfAug25, Rfc850Nov06,
         AsctimeNov06
<1>2. /\ ImfAug25 \notin {ImfNov06, Rfc850Nov06, AsctimeNov06}
      /\ {ImfNov06, ImfAug25} \cap {Blank, NewLine, NotUtf8} = {}
  BY DEF ImfNov06, ImfAug25, Rfc850Nov06, AsctimeNov06, Blank, NewLine, NotUtf8
<1>3. ASSUME NEW r \in ReadForms
      PROVE  r[2] \in {Nov06, Aug25} /\ \A x \in ReadForms : x[1] = r[1] => x = r
  BY <1>2, <1>3 DEF ReadForms
<1>4. ASSUME NEW r \in WrittenForms
      PROVE  <<r[2], r[1]>> \in ReadForms /\ r[2] \notin {Blank, NewLine, NotUtf8}
  <2>1. /\ <<ImfNov06, Nov06>> \in ReadForms /\ <<ImfAug25, Aug25>> \in ReadForms
        /\ <<Nov06, ImfNov06>>[1] = Nov06 /\ <<Nov06, ImfNov06>>[2] = ImfNov06
        /\ <<Aug25, ImfAug25>>[1] = Aug25 /\ <<Aug25, ImfAug25>>[2] = ImfAug25
    BY DEF ReadForms
  <2>2. r = <<Nov06, ImfNov06>> \/ r = <<Aug25, ImfAug25>>
    BY <1>4 DEF WrittenForms
  <2> QED
    BY <1>2, <2>1, <2>2
<1>5. \A d \in {Nov06, Aug25} : \E r \in WrittenForms : r[1] = d
  <2>1. <<Nov06, ImfNov06>> \in WrittenForms /\ <<Aug25, ImfAug25>> \in WrittenForms
    BY DEF WrittenForms
  <2>2. <<Nov06, ImfNov06>>[1] = Nov06 /\ <<Aug25, ImfAug25>>[1] = Aug25
    OBVIOUS
  <2> QED
    BY <2>1, <2>2
<1> QED
  BY <1>1, <1>3, <1>4, <1>5

(* A date is printed as one of the forms it is read from, whichever form it *)
(* was read from itself.                                                    *)
LEMMA DatesAreRead ==
    /\ \A s \in DOMAIN Dates : Dates[s] \in DOMAIN ImfDate
    /\ \A date \in DOMAIN ImfDate :
          /\ ImfDate[date] \in DOMAIN Dates /\ Dates[ImfDate[date]] = date
          /\ ImfDate[date] \notin {Blank, NewLine, NotUtf8}
<1>1. Dates = Table(ReadForms) /\ ImfDate = Table(WrittenForms)
  BY FormsOfDates
<1>2. ASSUME NEW s \in DOMAIN Dates PROVE Dates[s] \in DOMAIN ImfDate
  <2>1. PICK r \in ReadForms : r[1] = s /\ Table(ReadForms)[s] = r[2]
    BY <1>1, <1>2, FromARow
  <2>2. PICK x \in WrittenForms : x[1] = r[2]
    BY FormsOfDates
  <2>3. x[1] \in DOMAIN Table(WrittenForms)
    BY DEF Table
  <2> QED
    BY <1>1, <2>1, <2>2, <2>3
<1>3. ASSUME NEW date \in DOMAIN ImfDate
      PROVE  /\ ImfDate[date] \in DOMAIN Dates /\ Dates[ImfDate[date]] = date
             /\ ImfDate[date] \notin {Blank, NewLine, NotUtf8}
  <2>1. PICK r \in WrittenForms : r[1] = date /\ Table(WrittenForms)[date] = r[2]
    BY <1>1, <1>3, FromARow
  <2>2. PICK x \in ReadForms : x[1] = r[2] /\ x[2] = r[1]
    <3>1. <<r[2], r[1]>> \in ReadForms
      BY FormsOfDates
    <3>2. <<r[2], r[1]>>[1] = r[2] /\ <<r[2], r[1]>>[2] = r[1]
      OBVIOUS
    <3> QED
      BY <3>1, <3>2
  <2>3. x[1] \in DOMAIN Table(ReadForms) /\ Table(ReadForms)[x[1]] = x[2]
    <3>1. \A y \in ReadForms : y[1] = x[1] => y = x
      BY FormsOfDates
    <3> QED
      BY <3>1, TableIs
  <2>4. r[2] \notin {Blank, NewLine, NotUtf8}
    BY FormsOfDates
  <2> QED
    BY <1>1, <2>1, <2>2, <2>3, <2>4
<1> QED
  BY <1>2, <1>3

(* A media type is a text that is bare.                                     *)
LEMMA MediaTypeIsBare ==
    ASSUME NEW t \in MediaTypes
    PROVE  IsString(t) /\ Bare(t)
<1>1. CASE \E m \in {"text/html", "text/plain", "audio/*", "audio/basic", "text/x-dvi", "text/x-c"} : t = <<m>>
  <2>1. PICK m : t = Alone(m) /\ m \in {"text/html", "text/plain", "audio/*", "audio/basic", "text/x-dvi", "text/x-c"}
    BY <1>1 DEF Alone
  <2>2. m \notin {Blank, NewLine, NotUtf8}
    BY <2>1 DEF Blank, NewLine, NotUtf8
  <2> QED
    BY <2>1, <2>2, TokenIsBare
<1>2. CASE t = <<"text/plain", ";", " ", "charset", "=", "utf-8">>
  <2>0. PICK a, b, c, d, e, f :
            /\ a = "text/plain" /\ b = ";" /\ c = " " /\ d = "charset" /\ e = "=" /\ f = "utf-8"
            /\ t = <<a, b, c, d, e, f>>
    BY <1>2, Zenon
  <2>1. t \in Seq({a, b, c, d, e, f}) /\ Len(t) = 6 /\ t[1] = a /\ t[6] = f
    <3>1. PICK u : u = <<a, b, c, d, e, f>>
      OBVIOUS
    <3>2. u \in Seq({a, b, c, d, e, f}) /\ Len(u) = 6 /\ u[1] = a /\ u[6] = f
      BY <3>1
    <3> QED
      BY <2>0, <3>1, <3>2, Zenon
  <2>2. IsText(t) /\ ToSet(t) \subseteq {a, b, c, d, e, f}
    BY <2>1, SeqIsText, TokensOfSeq
  <2>3. {"text/plain", ";", " ", "charset", "=", "utf-8"} \cap {NewLine, NotUtf8} = {}
        /\ {"text/plain", "utf-8"} \cap {Blank, NewLine} = {}
    BY DEF Blank, NewLine, NotUtf8
  <2>7. {a, b, c, d, e, f} \cap {NewLine, NotUtf8} = {} /\ {a, f} \cap {Blank, NewLine} = {}
    BY <2>0, <2>3, Zenon
  <2>4. Trim(t) = t
    <3>1. Len(t) > 0 /\ t[1] \notin {Blank, NewLine} /\ t[Len(t)] \notin {Blank, NewLine}
      <4>1. Len(t) > 0 /\ t[Len(t)] = f
        BY <2>1
      <4> QED
        BY <2>1, <2>7, <4>1, Zenon
    <3>2. TrimAll(t, {Blank, NewLine}) = t
      BY <2>2, <3>1, WholeText
    <3> QED
      BY <3>2, ListSeparator
  <2>5. t # <<>>
    BY <2>1, NoText
  <2> QED
    BY <2>2, <2>4, <2>5, <2>7 DEF IsString, IsUtf8, Bare
<1> QED
  BY <1>1, <1>2 DEF MediaTypes

(* Such an item is printed as a bare text, and is what is read of it.       *)
LEMMA TableItemIsKept ==
    ASSUME NEW kind \in TableKinds, NEW v, IsItem(kind, v), NEW t, t = PrintItem(kind, v)
    PROVE  IsString(t) /\ Bare(t) /\ ParseItem(kind, t) = Ok(v)
<1>1. CASE kind = "language"
  <2>1. v \in {<<tag>> : tag \in LanguageTags} /\ t = v /\ ParseItem(kind, t) = ParseLanguage(t)
    BY <1>1 DEF IsItem, PrintItem, ParseItem
  <2>2. PICK tag \in LanguageTags : t = Alone(tag)
    BY <2>1 DEF Alone
  <2>3. tag \notin {Blank, NewLine, NotUtf8}
    BY <2>2 DEF LanguageTags, Blank, NewLine, NotUtf8
  <2>4. IsString(t) /\ Bare(t) /\ Len(t) = 1 /\ t[1] = tag
    BY <2>2, <2>3, TokenIsBare
  <2>5. ParseLanguage(t) = Ok(t)
    BY <2>4 DEF ParseLanguage, OneOf, OkIf
  <2> QED
    BY <2>1, <2>4, <2>5
<1>2. CASE kind = "mime"
  <2>1. v \in MediaTypes /\ t = v /\ ParseItem(kind, t) = OkIf(t \in MediaTypes, t)
    BY <1>2 DEF IsItem, PrintItem, ParseItem, ParseMime
  <2> QED
    BY <2>1, MediaTypeIsBare DEF OkIf
<1>3. CASE kind = "date"
  <2>1. v \in DOMAIN ImfDate /\ t = Alone(ImfDate[v]) /\ ParseItem(kind, t) = ParseDate(t)
    BY <1>3 DEF IsItem, PrintItem, ParseItem, PrintDate, Alone
  <2>2. PICK s : s = ImfDate[v]
    OBVIOUS
  <2>3. s \in DOMAIN Dates /\ Dates[s] = v /\ s \notin {Blank, NewLine, NotUtf8}
    BY <2>1, <2>2, DatesAreRead
  <2>4. IsString(t) /\ Bare(t) /\ Len(t) = 1 /\ t[1] = s
    BY <2>1, <2>2, <2>3, TokenIsBare
  <2>5. ParseDate(t) = Ok(v)
    BY <2>3, <2>4 DEF ParseDate, OneOf, OkIf, Ok
  <2> QED
    BY <2>1, <2>4, <2>5
<1>4. CASE kind = "seconds"
  <2>1. v \in Numbers /\ t = Numeral(v) /\ ParseItem(kind, t) = ParseNumber(t)
    BY <1>4 DEF IsItem, PrintItem, ParseItem
  <2>2. Plain(t) /\ ParseNumber(t) = Ok(v)
    BY <2>1, NumeralIsPlain
  <2>3. Trim(t) = t /\ t # <<>> /\ IsUtf8(t)
    BY <2>2, PlainIsWhole
  <2>4. IsText(t) /\ NewLine \notin ToSet(t)
    BY <2>2 DEF Plain, Delimiters
  <2> QED
    BY <2>1, <2>2, <2>3, <2>4 DEF IsString, Bare
<1> QED
  BY <1>1, <1>2, <1>3, <1>4 DEF TableKinds

(* What is read of a text as such an item is one.                           *)
LEMMA ReadIsTableItem ==
    ASSUME NEW kind \in TableKinds, NEW t, IsString(t),
           NEW reading, reading = ParseItem(kind, t), reading.ok
    PROVE  reading = Ok(reading.val) /\ IsItem(kind, reading.val)
<1>0. ~Err.ok /\ \A x : Ok(x).val = x
  BY DEF Err, Ok
<1>1. CASE kind = "language"
  <2>1. reading = OneOf(t, LanguageTags)
    BY <1>1 DEF ParseItem, ParseLanguage
  <2>2. Len(t) = 1 /\ t[1] \in LanguageTags /\ reading = Ok(t)
    BY <1>0, <2>1 DEF OneOf, OkIf
  <2>3. t = <<t[1]>>
    <3>1. IsText(t)
      BY DEF IsString
    <3> QED
      BY <2>2, <3>1 DEF IsText
  <2>4. IsItem(kind, t)
    BY <1>1, <2>2, <2>3 DEF IsItem
  <2> QED
    BY <1>0, <2>2, <2>4
<1>2. CASE kind = "mime"
  <2>1. reading = OkIf(t \in MediaTypes, t)
    BY <1>2 DEF ParseItem, ParseMime
  <2>2. t \in MediaTypes /\ reading = Ok(t)
    BY <1>0, <2>1 DEF OkIf
  <2>3. IsItem(kind, t)
    BY <1>2, <2>2 DEF IsItem
  <2> QED
    BY <1>0, <2>2, <2>3
<1>3. CASE kind = "date"
  <2>1. reading = ParseDate(t)
    BY <1>3 DEF ParseItem
  <2>2. Len(t) = 1 /\ t[1] \in DOMAIN Dates /\ reading = Ok(Dates[t[1]])
    BY <1>0, <2>1 DEF ParseDate, OneOf, OkIf
  <2>3. PICK date : date = Dates[t[1]] /\ date \in DOMAIN ImfDate
    BY <2>2, DatesAreRead
  <2>4. IsItem(kind, date)
    BY <1>3, <2>3 DEF IsItem
  <2> QED
    BY <1>0, <2>2, <2>3, <2>4
<1>4. CASE kind = "seconds"
  <2>1. reading = ParseNumber(t)
    BY <1>4 DEF ParseItem
  <2>2. reading.val \in Numbers
    BY <2>1, ReadNumber
  <2>3. reading = Ok(reading.val)
    BY <1>0, <2>1 DEF ParseNumber
  <2>4. IsItem(kind, reading.val)
    BY <1>4, <2>2 DEF IsItem
  <2> QED
    BY <2>3, <2>4
<1> QED
  BY <1>1, <1>2, <1>3, <1>4 DEF TableKinds

(* What the operators on items say of protocols.                            *)
LEMMA ProtocolItem ==
    ASSUME NEW v, NEW t
    PROVE  /\ PrintItem(ProtocolKind, v) = PrintProtocol(v) /\ ParseItem(ProtocolKind, t) = Ok(Protocol(t))
           /\ FaithfulItem(ProtocolKind, v) <=>
                 /\ Bare(PrintProtocol(v)) /\ v.name = ProtocolName(v.name.text)
                 /\ "/" \notin ToSet(v.name.text)
           /\ IsItem(ProtocolKind, v) <=>
                 /\ v = [name |-> [known |-> v.name.known, text |-> v.name.text], version |-> v.version]
                 /\ IsString(v.name.text)
                 /\ v.version # <<>> => v.version = <<v.version[1]>> /\ IsString(v.version[1])
BY DEF PrintItem, ParseItem, FaithfulItem, IsItem, ProtocolKind

(* How a protocol is printed: its name, the slash and its version.          *)
LEMMA PrintedProtocol ==
    ASSUME NEW v, IsItem(ProtocolKind, v), NEW t, t = PrintProtocol(v)
    PROVE  /\ IsString(t)
           /\ v.version = <<>> => t = v.name.text
           /\ v.version # <<>> => t = Both(Both(v.name.text, Alone(Slash)), v.version[1])
<1>1. /\ IsText(v.name.text) /\ IsUtf8(v.name.text)
      /\ v.version # <<>> => IsText(v.version[1]) /\ IsUtf8(v.version[1])
  BY ProtocolItem DEF IsString
<1>2. CASE v.version = <<>>
  <2>1. t = v.name.text \o <<>>
    BY <1>2 DEF PrintProtocol
  <2>2. t = v.name.text
    BY <1>1, <2>1, NoText DEF Both
  <2> QED
    BY <1>1, <1>2, <2>2 DEF IsString
<1>3. CASE v.version # <<>>
  <2>1. PICK s, u : s = v.name.text /\ u = v.version[1]
    OBVIOUS
  <2>2. t = Both(s, Both(Alone(Slash), u))
    BY <1>3, <2>1 DEF PrintProtocol, Both, Alone, Slash
  <2>3. IsText(Alone(Slash)) /\ ToSet(Alone(Slash)) = {Slash}
    BY AloneIs
  <2>4. t = Both(Both(s, Alone(Slash)), u)
    BY <1>1, <1>3, <2>1, <2>2, <2>3, TextsTogether
  <2>5. IsText(t) /\ ToSet(t) = ToSet(s) \cup ({Slash} \cup ToSet(u))
    <3>1. IsText(Both(Alone(Slash), u)) /\ ToSet(Both(Alone(Slash), u)) = {Slash} \cup ToSet(u)
      BY <1>1, <1>3, <2>1, <2>3, TokensOfBoth, TextAfterText DEF Both
    <3> QED
      BY <1>1, <2>1, <2>2, <3>1, TokensOfBoth, TextAfterText DEF Both
  <2>6. NotUtf8 # Slash
    BY DEF NotUtf8, Slash
  <2>7. IsString(t)
    BY <1>1, <1>3, <2>1, <2>5, <2>6 DEF IsString, IsUtf8
  <2> QED
    BY <1>3, <2>1, <2>4, <2>7
<1> QED
  BY <1>2, <1>3

(* A text without the token is one part, also when only the first is meant. *)
LEMMA NotCut ==
    ASSUME NEW t, IsText(t), NEW token, token \notin ToSet(t)
    PROVE  SplitFirst(t, token) = <<t>>
<1>1. Places(t, token) = {}
  BY DEF Places, ToSet
<1>2. SplitFirst(t, token) = Split(t, token)
  BY <1>1 DEF SplitFirst, Split
<1> QED
  BY <1>2, NotSplit

(* What is left of two parts without the first.                             *)
LEMMA TailOfTwo ==
    ASSUME NEW parts, IsText(parts), Len(parts) = 2
    PROVE  Tail(parts) = <<parts[2]>>
<1>1. PICK S : parts \in Seq(S)
  BY TextIs
<1>2. PICK u : u = Tail(parts)
  OBVIOUS
<1>3. Len(parts) \in Nat /\ Len(u) = 1 /\ u \in Seq(S) /\ u[1] = parts[1 + 1]
  <2>1. parts # <<>>
    BY NoText
  <2>2. /\ u \in Seq(S) /\ Len(u) = Len(parts) - 1
        /\ \A i \in 1..Len(u) : u[i] = parts[i + 1]
    BY <1>1, <1>2, <2>1, HeadTailProperties
  <2>3. Len(u) = 1 /\ 1 \in 1..1
    BY <2>2
  <2> QED
    BY <1>1, <2>2, <2>3
<1>4. u = <<u[1]>>
  BY <1>3
<1>5. parts[1 + 1] = parts[2]
  OBVIOUS
<1> QED
  BY <1>2, <1>3, <1>4, <1>5

(* A faithful protocol is what is read of its text.                         *)
LEMMA ProtocolIsKept ==
    ASSUME NEW v, IsItem(ProtocolKind, v), FaithfulItem(ProtocolKind, v), NEW t, t = PrintProtocol(v)
    PROVE  IsString(t) /\ Bare(t) /\ Protocol(t) = v
<1>1. /\ v = [name |-> [known |-> v.name.known, text |-> v.name.text], version |-> v.version]
      /\ IsString(v.name.text)
      /\ v.version # <<>> => v.version = <<v.version[1]>> /\ IsString(v.version[1])
      /\ Bare(t) /\ v.name = ProtocolName(v.name.text) /\ Slash \notin ToSet(v.name.text)
  BY ProtocolItem DEF Slash
<1>2. /\ IsString(t)
      /\ v.version = <<>> => t = v.name.text
      /\ v.version # <<>> => t = Both(Both(v.name.text, Alone(Slash)), v.version[1])
  BY PrintedProtocol
<1>3. PICK parts : parts = SplitFirst(t, Slash)
  OBVIOUS
<1>4. Protocol(t) = [name |-> ProtocolName(parts[1]), version |-> Tail(parts)]
  BY <1>3 DEF Protocol, Slash
<1>5. parts[1] = v.name.text /\ Tail(parts) = v.version
  <2>1. CASE v.version = <<>>
    <3>1. parts = <<v.name.text>>
      BY <1>1, <1>2, <1>3, <2>1, NotCut DEF IsString
    <3>2. parts[1] = v.name.text /\ Tail(parts) = <<>>
      BY <3>1
    <3> QED
      BY <2>1, <3>2
  <2>2. CASE v.version # <<>>
    <3>1. IsCut(t, v.name.text, Slash, v.version[1])
      BY <1>1, <1>2, <2>2, TextIsCut DEF IsString
    <3>2. Len(parts) = 2 /\ parts[1] = v.name.text /\ parts[2] = v.version[1]
      BY <1>3, <3>1 DEF IsCut
    <3>3. IsText(parts) /\ DOMAIN parts = 1..2
      BY <1>2, <1>3, <3>2, SplitAreTexts DEF IsString
    <3>4. Tail(parts) = <<parts[2]>>
      BY <3>2, <3>3, TailOfTwo
    <3> QED
      BY <1>1, <2>2, <3>2, <3>4
  <2> QED
    BY <2>1, <2>2
<1> QED
  BY <1>1, <1>2, <1>4, <1>5

(* A name is text, in lower case or as it stands.                           *)
LEMMA ProtocolNameIs ==
    ASSUME NEW t, IsString(t), NEW name, name = ProtocolName(t)
    PROVE  name = [known |-> name.known, text |-> name.text] /\ IsString(name.text)
<1>1. PICK low : low = Lower(t)
  OBVIOUS
<1>2. CASE low = <<"websocket">>
  <2>1. name = [known |-> TRUE, text |-> low]
    BY <1>1, <1>2 DEF ProtocolName
  <2>2. low = Alone("websocket") /\ "websocket" \notin {Blank, NewLine, NotUtf8}
    BY <1>2 DEF Alone, Blank, NewLine, NotUtf8
  <2>3. IsString(low)
    BY <2>2, TokenIsBare
  <2> QED
    BY <2>1, <2>3
<1>3. CASE low # <<"websocket">>
  <2>1. PICK known : name = [known |-> known, text |-> t]
    BY <1>1, <1>3 DEF ProtocolName, Keyword
  <2> QED
    BY <2>1
<1> QED
  BY <1>2, <1>3

(* What is read of a text is a protocol.                                    *)
LEMMA ReadIsProtocol ==
    ASSUME NEW t, IsString(t), NEW v, v = Protocol(t)
    PROVE  IsItem(ProtocolKind, v)
<1>1. IsText(t) /\ IsUtf8(t) /\ DOMAIN t = 1..Len(t)
  BY TextIs DEF IsString
<1>2. PICK parts : parts = SplitFirst(t, Slash)
  OBVIOUS
<1>3. v.name = ProtocolName(parts[1]) /\ v.version = Tail(parts)
      /\ v = [name |-> v.name, version |-> v.version]
  BY <1>2 DEF Protocol, Slash
<1>4. /\ IsText(parts) /\ Len(parts) \in 1..2
      /\ \A k \in 1..Len(parts) : IsString(parts[k])
  <2>1. CASE Slash \notin ToSet(t)
    <3>1. parts = <<t>>
      BY <1>1, <1>2, <2>1, NotCut
    <3>2. IsText(parts) /\ Len(parts) = 1 /\ parts[1] = t
      BY <3>1, ShortTexts
    <3> QED
      BY <3>2
  <2>2. CASE Slash \in ToSet(t)
    <3>1. PICK first : first = Min(Places(t, Slash)) /\ first \in DOMAIN t /\ Places(t, Slash) # {}
      <4>1. Places(t, Slash) \in SUBSET Nat /\ Places(t, Slash) # {} /\ Places(t, Slash) \subseteq DOMAIN t
        BY <1>1, <2>2 DEF Places, ToSet
      <4>2. Min(Places(t, Slash)) \in Places(t, Slash)
        BY <4>1, LeastMember
      <4> QED
        BY <4>1, <4>2
    <3>2. parts = CutAt(t, {first})
      BY <1>2, <3>1 DEF SplitFirst
    <3>3. Cardinality({first}) = 1
      BY FS_Singleton
    <3>4. IsText(parts) /\ Len(parts) = 2
      <4>1. {first} \in SUBSET DOMAIN t
        BY <3>1
      <4>2. IsText(parts) /\ Len(parts) = Cardinality({first}) + 1
        BY <1>1, <3>2, <4>1, PiecesAreTexts
      <4>3. 1 + 1 = 2
        OBVIOUS
      <4> QED
        BY <3>3, <4>2, <4>3
    <3>5. Kth({first}, 1) = first
      <4>1. IsFiniteSet({first})
        BY FS_Singleton
      <4>2. {first} \in SUBSET Nat
        <5>1. Len(t) \in Nat /\ first \in 1..Len(t)
          BY <1>1, <3>1, TextIs
        <5> QED
          BY <5>1
      <4>3. 1 \in 1..Cardinality({first})
        BY <3>3
      <4> QED
        BY <4>1, <4>2, <4>3, KthIsMember
    <3>6. parts[1] = SubSeq(t, 1, first - 1) /\ parts[2] = SubSeq(t, first + 1, Len(t))
      <4> DEFINE End(k) == IF k = 0 THEN 0 ELSE IF k = 2 THEN Len(t) + 1 ELSE Kth({first}, k)
      <4>1. parts = [k \in 1..2 |-> SubSeq(t, End(k - 1) + 1, End(k) - 1)]
        <5>1. PICK pieces : pieces = Cardinality({first}) + 1
          OBVIOUS
        <5>2. pieces = 2
          BY <3>3, <5>1
        <5>3. parts = [k \in 1..pieces |->
                          SubSeq(t, (IF k - 1 = 0 THEN 0 ELSE IF k - 1 = pieces THEN Len(t) + 1 ELSE Kth({first}, k - 1)) + 1,
                                 (IF k = 0 THEN 0 ELSE IF k = pieces THEN Len(t) + 1 ELSE Kth({first}, k)) - 1)]
          BY <3>2, <5>1 DEF CutAt
        <5> QED
          BY <5>2, <5>3
      <4>2. End(0) = 0 /\ End(1) = first /\ End(2) = Len(t) + 1
        BY <3>5
      <4>3. Len(t) \in Nat /\ first \in Nat
        BY <1>1, <3>1, TextIs
      <4> HIDE DEF End
      <4>4. parts[1] = SubSeq(t, End(0) + 1, End(1) - 1) /\ parts[2] = SubSeq(t, End(1) + 1, End(2) - 1)
        <5>1. 1 \in 1..2 /\ 2 \in 1..2 /\ 1 - 1 = 0 /\ 2 - 1 = 1
          OBVIOUS
        <5>2. parts[1] = SubSeq(t, End(1 - 1) + 1, End(1) - 1) /\ parts[2] = SubSeq(t, End(2 - 1) + 1, End(2) - 1)
          BY <4>1, <5>1
        <5> QED
          BY <5>1, <5>2
      <4>5. End(0) + 1 = 1 /\ End(2) - 1 = Len(t)
        BY <4>2, <4>3
      <4> QED
        BY <4>2, <4>4, <4>5
    <3>7. IsString(parts[1]) /\ IsString(parts[2])
      <4>1. Len(t) \in Nat /\ first \in 1..Len(t)
        BY <1>1, <3>1, TextIs
      <4>2. ToSet(parts[1]) \subseteq ToSet(t) /\ IsText(parts[1])
        <5>1. first - 1 \in Int /\ first - 1 <= Len(t) /\ 1 \in Nat \ {0}
          BY <4>1
        <5> QED
          BY <1>1, <3>6, <5>1, TokensOfPiece
      <4>3. ToSet(parts[2]) \subseteq ToSet(t) /\ IsText(parts[2])
        <5>1. Len(t) \in Int /\ Len(t) <= Len(t) /\ first + 1 \in Nat \ {0}
          BY <4>1
        <5> QED
          BY <1>1, <3>6, <5>1, TokensOfPiece
      <4> QED
        BY <1>1, <4>2, <4>3 DEF IsString, IsUtf8
    <3>8. \A k \in 1..2 : k = 1 \/ k = 2
      OBVIOUS
    <3> QED
      BY <3>4, <3>7, <3>8
  <2> QED
    BY <2>1, <2>2
<1>5. v.version # <<>> => v.version = <<v.version[1]>> /\ IsString(v.version[1])
  <2>1. parts \in Seq(ToSet(parts))
    BY <1>4, TextIs
  <2>2. CASE Len(parts) = 1
    <3>1. Tail(parts) = <<>>
      <4>1. parts # <<>>
        BY <2>2, NoText
      <4>2. PICK u : u = Tail(parts)
        OBVIOUS
      <4>3. u \in Seq(ToSet(parts)) /\ Len(u) = Len(parts) - 1
        BY <2>1, <4>1, <4>2, HeadTailProperties
      <4>4. IsText(u)
        BY <4>3, SeqIsText
      <4>5. Len(u) = 0
        BY <2>2, <4>3
      <4> QED
        BY <4>2, <4>4, <4>5, NoText
    <3> QED
      BY <1>3, <3>1
  <2>3. CASE Len(parts) = 2
    <3>1. Tail(parts) = <<parts[2]>>
      BY <1>4, <2>3, TailOfTwo
    <3>2. Tail(parts)[1] = parts[2] /\ IsString(parts[2])
      BY <1>4, <2>3, <3>1
    <3> QED
      BY <1>3, <3>1, <3>2
  <2> QED
    BY <1>4, <2>2, <2>3
<1>6. v.name = [known |-> v.name.known, text |-> v.name.text] /\ IsString(v.name.text)
  BY <1>3, <1>4, ProtocolNameIs
<1>7. v = [name |-> [known |-> v.name.known, text |-> v.name.text], version |-> v.version]
  BY <1>3, <1>6
<1> QED
  BY <1>5, <1>6, <1>7, ProtocolItem

(* An item is printed as text.                                              *)
LEMMA ItemIsText ==
    ASSUME NEW kind \in KeptKinds, NEW v, IsItem(kind, v)
    PROVE  IsText(PrintItem(kind, v))
<1>1. CASE kind \in KnownKinds
  BY <1>1, KnownItem DEF IsString
<1>2. CASE kind \in PlainKinds
  BY <1>2, PlainItem DEF IsString
<1>3. CASE kind = TagKind
  <2>1. IsEntityTag(v) /\ PrintItem(kind, v) = PrintEntityTag(v)
    BY <1>3, TagItem
  <2> QED
    BY <2>1, PrintedTag
<1>4. CASE kind = ProtocolKind
  BY <1>4, ProtocolItem, PrintedProtocol DEF IsString
<1>5. CASE kind \in TableKinds
  BY <1>5, TableItemIsKept DEF IsString
<1> QED
  BY <1>1, <1>2, <1>3, <1>4, <1>5 DEF KeptKinds

(* A faithful item is printed as a text from which it is read.              *)
LEMMA ItemIsKept ==
    ASSUME NEW kind \in KeptKinds, NEW v, IsItem(kind, v), FaithfulItem(kind, v),
           NEW t, t = PrintItem(kind, v)
    PROVE  IsString(t) /\ Bare(t) /\ ParseItem(kind, t) = Ok(v) /\ (kind = TagKind => t # AnyLine)
<1>0. \A x : Ok(x).val = x
  BY DEF Ok
<1>1. CASE kind \in KnownKinds
  <2>1. t = v.text /\ IsString(t) /\ Bare(t) /\ v = ParseItem(kind, t).val
    BY <1>1, KnownItem
  <2>2. t # <<>>
    BY <2>1 DEF Bare
  <2>3. \E x : ParseItem(kind, t) = Ok(x)
    BY <1>1, <2>2, KnownItem
  <2>4. kind # TagKind
    BY <1>1 DEF KnownKinds, TagKind
  <2> QED
    BY <1>0, <2>1, <2>3, <2>4
<1>2. CASE kind \in PlainKinds
  <2>1. t = v /\ IsString(t) /\ Bare(t) /\ ParseItem(kind, t) = Ok(v)
    BY <1>2, PlainItem
  <2>2. kind # TagKind
    BY <1>2 DEF PlainKinds, TagKind
  <2> QED
    BY <2>1, <2>2
<1>3. CASE kind = TagKind
  <2>1. IsEntityTag(v) /\ t = PrintEntityTag(v) /\ ParseItem(kind, t) = ParseEntityTag(t)
    BY <1>3, TagItem
  <2>2. /\ IsText(t) /\ t # <<>> /\ IsUtf8(t) /\ ParseEntityTag(t) = Ok(v)
        /\ Trim(t) = t /\ <<t>> # <<AnyLine>>
    BY <2>1, TagLine
  <2>3. NewLine \notin ToSet(t)
    <3>1. ToSet(t) \subseteq ToSet(v.tag) \cup {"W", "/", Quote}
      BY <2>1, PrintedTag
    <3>2. NewLine \notin ToSet(v.tag)
      BY <2>1 DEF IsEntityTag, CheckSliceValidity
    <3>3. NewLine \notin {"W", "/", Quote}
      BY DEF NewLine, Quote
    <3> QED
      BY <3>1, <3>2, <3>3
  <2>4. t # AnyLine
    BY <2>2
  <2> QED
    BY <2>1, <2>2, <2>3, <2>4 DEF Bare, IsString
<1>4. CASE kind = ProtocolKind
  <2>1. t = PrintProtocol(v) /\ ParseItem(kind, t) = Ok(Protocol(t))
    BY <1>4, ProtocolItem
  <2>2. IsString(t) /\ Bare(t) /\ Protocol(t) = v
    BY <1>4, <2>1, ProtocolIsKept
  <2>3. kind # TagKind
    BY <1>4 DEF ProtocolKind, TagKind
  <2> QED
    BY <2>1, <2>2, <2>3
<1>5. CASE kind \in TableKinds
  <2>1. IsString(t) /\ Bare(t) /\ ParseItem(kind, t) = Ok(v)
    BY <1>5, TableItemIsKept
  <2>2. kind # TagKind
    BY <1>5 DEF TableKinds, TagKind
  <2> QED
    BY <2>1, <2>2
<1> QED
  BY <1>1, <1>2, <1>3, <1>4, <1>5 DEF KeptKinds

(* What is read of a text is an item of the kind.                           *)
LEMMA ReadIsItem ==
    ASSUME NEW kind \in KeptKinds, NEW t, IsString(t),
           NEW reading, reading = ParseItem(kind, t), reading.ok
    PROVE  reading = Ok(reading.val) /\ IsItem(kind, reading.val)
<1>0. \A x : Ok(x).val = x
  BY DEF Ok
<1>1. ~Err.ok
  BY DEF Err
<1>2. CASE kind \in KnownKinds
  <2>1. \E v : reading = Ok(v) /\ v = [known |-> v.known, text |-> v.text] /\ IsString(v.text)
    <3>1. CASE \E keywords : reading = Ok(Keyword(keywords, t))
      <4>1. PICK v, keywords : v = Keyword(keywords, t) /\ reading = Ok(v)
        BY <3>1
      <4>2. v.text = t /\ v = [known |-> v.known, text |-> v.text]
        BY <4>1 DEF Keyword
      <4> QED
        BY <4>1, <4>2
    <3>2. CASE reading = Ok(ConnectionOption(t))
      <4>1. PICK v, low, option : /\ v = ConnectionOption(t) /\ low = Lower(t)
                                  /\ option = Keyword({"keep-alive", "close"}, low)
        OBVIOUS
      <4>2. v = IF option.known THEN option ELSE [known |-> FALSE, text |-> t]
        BY <4>1 DEF ConnectionOption
      <4>3. CASE option.known
        <5>1. option.text = low /\ option = [known |-> option.known, text |-> option.text]
              /\ Len(low) = 1 /\ low[1] \in {"keep-alive", "close"}
          BY <4>1, <4>3 DEF Keyword
        <5>2. IsText(low)
          BY <4>1, CasedIsText DEF Lower, IsString
        <5>3. ToSet(low) \subseteq {"keep-alive", "close"}
          <6>1. DOMAIN low = 1..1 /\ \A i \in 1..1 : i = 1
            BY <5>1, <5>2, TextIs
          <6> QED
            BY <5>1, <6>1 DEF ToSet
        <5>4. NotUtf8 \notin {"keep-alive", "close"}
          BY DEF NotUtf8
        <5>5. IsString(low)
          BY <5>2, <5>3, <5>4 DEF IsString, IsUtf8
        <5> QED
          BY <3>2, <4>1, <4>2, <4>3, <5>1, <5>5
      <4>4. CASE ~option.known
        <5>1. v = [known |-> FALSE, text |-> t]
          BY <4>2, <4>4
        <5>2. v.text = t /\ v = [known |-> v.known, text |-> v.text]
          BY <5>1
        <5> QED
          BY <3>2, <4>1, <5>2
      <4> QED
        BY <4>3, <4>4
    <3> QED
      BY <1>1, <1>2, <3>1, <3>2, KnownItem
  <2>2. PICK v : reading = Ok(v) /\ v = [known |-> v.known, text |-> v.text] /\ IsString(v.text)
    BY <2>1
  <2>3. IsItem(kind, v)
    BY <1>2, <2>2, KnownItem
  <2> QED
    BY <1>0, <2>2, <2>3
<1>3. CASE kind \in PlainKinds
  BY <1>0, <1>3, PlainItem
<1>4. CASE kind = TagKind
  <2>1. reading = ParseEntityTag(t)
    BY <1>4, TagItem
  <2>2. reading = Ok(reading.val) /\ IsEntityTag(reading.val)
    BY <2>1, ReadIsTag DEF IsString
  <2> QED
    BY <1>4, <2>2, TagItem
<1>5. CASE kind = ProtocolKind
  <2>1. PICK v : v = Protocol(t) /\ reading = Ok(v)
    BY <1>5, ProtocolItem
  <2>2. IsItem(kind, v)
    BY <1>5, <2>1, ReadIsProtocol
  <2> QED
    BY <1>0, <2>1, <2>2
<1>6. CASE kind \in TableKinds
  BY <1>6, ReadIsTableItem
<1> QED
  BY <1>2, <1>3, <1>4, <1>5, <1>6 DEF KeptKinds

-----------------------------------------------------------------------------
(* Headers of such items.                                                  *)

\* Headers without weights, of such items. The two forms of Any are Vary's and the
\* conditions'.
IsKept(h) ==
    /\ ~h.weighted /\ h.item \in KeptKinds
    /\ \/ h.grammar \in {"single", "list"}
       \/ h.grammar = "any" /\ h.item \in {"name", TagKind}
KeptMacros == {name \in DOMAIN MacroHeaders : IsKept(MacroHeaders[name])}

(* What the operators on headers say of each grammar.                       *)
LEMMA SingleGrammar ==
    ASSUME NEW h, h.grammar = "single", NEW v, NEW lines
    PROVE  /\ PrintMacro(h, v) = PrintItem(h.item, v) /\ ParseMacro(h, lines) = ParseOne(h, lines)
           /\ IsValue(h, v) <=> IsItem(h.item, v)
           /\ FaithfulMacro(h, v) <=> FaithfulItem(h.item, v)
BY DEF PrintMacro, ParseMacro, IsValue, FaithfulMacro

(* The same of lists.                                                      *)
LEMMA ListGrammar ==
    ASSUME NEW h, h.grammar = "list", NEW v, NEW lines
    PROVE  /\ PrintMacro(h, v) = PrintListed(h, v) /\ ParseMacro(h, lines) = ParseListed(h, lines)
           /\ IsValue(h, v) <=> IsList(h, v)
           /\ FaithfulMacro(h, v) <=> \A i \in DOMAIN v : FaithfulListed(h, v[i])
BY DEF PrintMacro, ParseMacro, IsValue, FaithfulMacro

(* The same of lists that may be Any instead.                               *)
LEMMA AnyGrammar ==
    ASSUME NEW h, h.grammar = "any", NEW v, NEW lines
    PROVE  /\ PrintMacro(h, v) = (IF v.any THEN AnyLine ELSE PrintListed(h, v.items))
           /\ ParseMacro(h, lines) = ParseAnyOr(h, lines)
           /\ IsValue(h, v) <=> /\ v = [any |-> v.any, items |-> v.items] /\ v.any \in BOOLEAN
                                /\ IsList(h, v.items) /\ (v.any => v.items = <<>>)
           /\ FaithfulMacro(h, v) <=> /\ \A i \in DOMAIN v.items : FaithfulListed(h, v.items[i])
                                      /\ h.item = "name" => v.items # <<AnyLine>>
BY DEF PrintMacro, ParseMacro, IsValue, FaithfulMacro, AnyLine

(* A list is typed if its items are, and faithful if they are and have no   *)
(* comma in them.                                                           *)
LEMMA UnweightedItems ==
    ASSUME NEW h, ~h.weighted, NEW v
    PROVE  /\ IsList(h, v) <=> IsText(v) /\ \A i \in DOMAIN v : IsItem(h.item, v[i])
           /\ FaithfulListed(h, v) <=> FaithfulItem(h.item, v) /\ Comma \notin ToSet(PrintItem(h.item, v))
<1>1. IsList(h, v) <=> IsText(v) /\ \A i \in DOMAIN v : IsItem(h.item, v[i])
  BY DEF IsList
<1>2. FaithfulListed(h, v) <=> FaithfulItem(h.item, v) /\ Comma \notin ToSet(PrintItem(h.item, v))
  BY DEF FaithfulListed, Comma
<1> QED
  BY <1>1, <1>2

(* A typed list is a line of text.                                          *)
LEMMA ListIsText ==
    ASSUME NEW h, IsKept(h), NEW items, IsList(h, items)
    PROVE  IsText(PrintListed(h, items))
<1>1. PICK texts, separator : /\ texts = Texts(h.item, items)
                              /\ separator = Both(Alone(Comma), Alone(Blank))
  OBVIOUS
<1>2. IsText(items) /\ DOMAIN items = 1..Len(items) /\ \A i \in DOMAIN items : IsItem(h.item, items[i])
  BY TextIs, UnweightedItems DEF IsKept
<1>3. /\ IsText(texts) /\ Len(texts) = Len(items)
      /\ \A i \in 1..Len(items) : texts[i] = PrintItem(h.item, items[i])
  BY <1>1, <1>2, TextsAre
<1>4. \A i \in 1..Len(texts) : IsText(texts[i])
  BY <1>2, <1>3, ItemIsText DEF IsKept
<1>5. IsText(separator)
  BY <1>1, AloneIs, PlacesOfBoth DEF AreBoth
<1>6. IsText(Joined(texts, separator))
  BY <1>3, <1>4, <1>5, JoinedIsText
<1>7. PrintListed(h, items) = Joined(texts, separator)
  BY <1>1, UnweightedList, ListSeparator DEF IsKept
<1> QED
  BY <1>6, <1>7

(* A typed value is a line of text.                                         *)
LEMMA MacroIsText ==
    ASSUME NEW h, IsKept(h), NEW v, IsValue(h, v)
    PROVE  IsText(PrintMacro(h, v))
<1>1. CASE h.grammar = "single"
  BY <1>1, SingleGrammar, ItemIsText DEF IsKept
<1>2. CASE h.grammar = "list"
  BY <1>2, ListGrammar, ListIsText
<1>3. CASE h.grammar = "any"
  <2>1. IsList(h, v.items) /\ PrintMacro(h, v) = (IF v.any THEN AnyLine ELSE PrintListed(h, v.items))
    BY <1>3, AnyGrammar
  <2>2. IsText(AnyLine)
    BY AloneIs, ListSeparator
  <2> QED
    BY <2>1, <2>2, ListIsText
<1> QED
  BY <1>1, <1>2, <1>3 DEF IsKept

(* A faithful list is one of items that are read back.                      *)
LEMMA FaithfulList ==
    ASSUME NEW h, IsKept(h), NEW items, IsList(h, items), \A i \in DOMAIN items : FaithfulListed(h, items[i])
    PROVE  ListItems(h.item, items)
<1>1. ~h.weighted /\ h.item \in KeptKinds
  BY DEF IsKept
<1>2. IsText(items) /\ DOMAIN items = 1..Len(items) /\ \A i \in DOMAIN items : IsItem(h.item, items[i])
  BY <1>1, TextIs, UnweightedItems
<1>3. ASSUME NEW i \in 1..Len(items) PROVE ListItem(h.item, items[i])
  <2>1. PICK v, t : v = items[i] /\ t = PrintItem(h.item, v)
    OBVIOUS
  <2>2. FaithfulListed(h, v) /\ IsItem(h.item, v)
    BY <1>2, <2>1
  <2>3. FaithfulItem(h.item, v) /\ Comma \notin ToSet(t)
    BY <1>1, <2>1, <2>2, UnweightedItems
  <2>4. IsString(t) /\ Bare(t) /\ ParseItem(h.item, t) = Ok(v)
    BY <1>1, <2>1, <2>2, <2>3, ItemIsKept
  <2>5. ListText(t)
    BY <2>3, <2>4 DEF ListText, IsString
  <2> QED
    BY <2>1, <2>4, <2>5 DEF ListItem
<1> QED
  BY <1>2, <1>3 DEF ListItems

(* It is read back from lines on which its items' texts are.                *)
LEMMA FaithfulListIsRead ==
    ASSUME NEW h, IsKept(h), NEW items, ListItems(h.item, items),
           NEW lines, CommaDelimited(lines) = Ok(Texts(h.item, items))
    PROVE  ParseListed(h, lines) = Ok(items)
<1>1. PICK texts : texts = Texts(h.item, items)
  OBVIOUS
<1>2. CommaDelimited(lines).ok /\ CommaDelimited(lines).val = texts
  BY <1>1 DEF Ok
<1>3. ParseListed(h, lines) = Ok(Oks(Readings(h.item, texts)))
  BY <1>2, UnweightedList DEF IsKept
<1>4. Oks(Readings(h.item, texts)) = items
  BY <1>1, TextsAreRead
<1> QED
  BY <1>3, <1>4

(* A value that is faithful is read back from its line as it was.           *)
LEMMA MacroIsReadBack ==
    ASSUME NEW h, IsKept(h), NEW v, IsValue(h, v), FaithfulMacro(h, v),
           NEW line, line = PrintMacro(h, v)
    PROVE  NewlineReplaced(line) = line /\ ParseMacro(h, <<line>>) = Ok(v)
<1>1. ASSUME NEW items, IsList(h, items), \A i \in DOMAIN items : FaithfulListed(h, items[i]),
             line = PrintListed(h, items)
      PROVE  /\ NewlineReplaced(line) = line /\ ParseListed(h, <<line>>) = Ok(items)
             /\ line = AnyLine => Texts(h.item, items) = <<AnyLine>>
  <2>1. PICK texts : texts = Texts(h.item, items)
    OBVIOUS
  <2>2. ListItems(h.item, items)
    BY <1>1, FaithfulList
  <2>3. LineOf(line, texts)
    BY <1>1, <2>1, <2>2, ListLine DEF IsKept
  <2>4. CommaDelimited(<<line>>) = Ok(texts)
    BY <2>3, OneLineIsRead
  <2>5. ParseListed(h, <<line>>) = Ok(items)
    BY <2>1, <2>2, <2>4, FaithfulListIsRead
  <2>6. NewlineReplaced(line) = line /\ (line = AnyLine => texts = <<AnyLine>>)
    BY <2>3, LineIsKept DEF LineOf
  <2> QED
    BY <2>1, <2>5, <2>6
<1>2. CASE h.grammar = "single"
  <2>1. h.item \in KeptKinds /\ IsItem(h.item, v) /\ FaithfulItem(h.item, v) /\ line = PrintItem(h.item, v)
    BY <1>2, SingleGrammar DEF IsKept
  <2>2. IsString(line) /\ Bare(line) /\ ParseItem(h.item, line) = Ok(v)
    BY <2>1, ItemIsKept
  <2>3. NewlineReplaced(line) = line
    BY <2>2, LineIsKept DEF IsString, Bare
  <2>4. OneRawStr(<<line>>) = Ok(line)
    <3>1. Len(<<line>>) = 1 /\ <<line>>[1] = line
      OBVIOUS
    <3> QED
      BY <2>2, <3>1 DEF OneRawStr, OkIf, Bare, IsString
  <2>5. ParseOne(h, <<line>>) = ParseItem(h.item, line)
    <3>1. OneRawStr(<<line>>).ok /\ OneRawStr(<<line>>).val = line
      BY <2>4 DEF Ok
    <3> QED
      BY <3>1 DEF ParseOne
  <2>6. ParseMacro(h, <<line>>) = ParseOne(h, <<line>>)
    BY <1>2, SingleGrammar
  <2> QED
    BY <2>2, <2>3, <2>5, <2>6
<1>3. CASE h.grammar = "list"
  <2>1. IsList(h, v) /\ (\A i \in DOMAIN v : FaithfulListed(h, v[i])) /\ line = PrintListed(h, v)
    BY <1>3, ListGrammar
  <2>2. ParseMacro(h, <<line>>) = ParseListed(h, <<line>>)
    BY <1>3, ListGrammar
  <2> QED
    BY <1>1, <2>1, <2>2
<1>4. CASE h.grammar = "any"
  <2>1. PICK items : items = v.items
    OBVIOUS
  <2>2. /\ v = [any |-> v.any, items |-> items] /\ v.any \in BOOLEAN /\ IsList(h, items)
        /\ v.any => items = <<>>
        /\ \A i \in DOMAIN items : FaithfulListed(h, items[i])
        /\ h.item = "name" => items # <<AnyLine>>
        /\ line = IF v.any THEN AnyLine ELSE PrintListed(h, items)
    BY <1>4, <2>1, AnyGrammar
  <2>3. ParseMacro(h, <<line>>) = ParseAnyOr(h, <<line>>)
    BY <1>4, AnyGrammar
  <2>4. CASE v.any
    <3>1. line = AnyLine /\ v = [any |-> TRUE, items |-> <<>>]
      BY <2>2, <2>4
    <3>2. IsText(AnyLine) /\ NewLine \notin ToSet(AnyLine)
      <4>1. "*" # NewLine
        BY DEF NewLine
      <4> QED
        BY <4>1, AloneIs, ListSeparator
    <3>3. NewlineReplaced(line) = line
      BY <3>1, <3>2, LineIsKept
    <3>4. ParseAnyOr(h, <<line>>) = Ok(v)
      BY <3>1 DEF ParseAnyOr
    <3> QED
      BY <2>3, <3>3, <3>4
  <2>5. CASE ~v.any
    <3>1. line = PrintListed(h, items) /\ v = [any |-> FALSE, items |-> items]
      BY <2>2, <2>5
    <3>2. /\ NewlineReplaced(line) = line /\ ParseListed(h, <<line>>) = Ok(items)
          /\ line = AnyLine => Texts(h.item, items) = <<AnyLine>>
      BY <1>1, <2>2, <3>1
    <3>3. line # AnyLine
      <4> SUFFICES ASSUME line = AnyLine PROVE FALSE
        OBVIOUS
      <4>0. PICK texts, any : any = AnyLine /\ texts = Texts(h.item, items)
        OBVIOUS
      <4>1. texts = <<any>>
        BY <3>2, <4>0
      <4>2. IsText(items) /\ items = [i \in 1..Len(items) |-> items[i]] /\ DOMAIN items = 1..Len(items)
            /\ \A i \in DOMAIN items : IsItem(h.item, items[i])
        BY <2>2, TextIs, UnweightedItems DEF IsKept
      <4>3. Len(texts) = Len(items) /\ \A i \in 1..Len(items) : texts[i] = PrintItem(h.item, items[i])
        BY <4>0, <4>2, TextsAre
      <4>4. Len(texts) = 1 /\ texts[1] = any
        BY <4>1, ShortTexts
      <4>5. Len(items) = 1 /\ PrintItem(h.item, items[1]) = any /\ 1 \in DOMAIN items
        BY <4>2, <4>3, <4>4
      <4>6. CASE h.item = "name"
        <5>1. PrintItem(h.item, items[1]) = items[1]
          BY <4>6, PlainItem DEF PlainKinds
        <5>2. items[1] = any
          BY <4>5, <5>1
        <5>3. items = [i \in 1..1 |-> any]
          <6>1. items = [i \in 1..1 |-> items[i]] /\ \A i \in 1..1 : i = 1
            BY <4>2, <4>5
          <6> QED
            BY <5>2, <6>1
        <5>4. items = <<any>>
          BY <5>3, OneElement
        <5> QED
          BY <2>2, <4>0, <4>6, <5>4
      <4>7. CASE h.item = TagKind
        <5>1. TagKind \in KeptKinds /\ IsItem(TagKind, items[1]) /\ FaithfulListed(h, items[1])
          BY <2>2, <4>2, <4>5, <4>7 DEF KeptKinds
        <5>2. FaithfulItem(TagKind, items[1])
          BY <4>7, <5>1, UnweightedItems DEF IsKept
        <5> QED
          BY <4>0, <4>5, <4>7, <5>1, <5>2, ItemIsKept
      <4>8. h.item \in {"name", TagKind}
        BY <1>4 DEF IsKept
      <4> QED
        BY <4>6, <4>7, <4>8
    <3>4. ParseAnyOr(h, <<line>>) = Ok(v)
      <4>1. ParseListed(h, <<line>>).ok /\ ParseListed(h, <<line>>).val = items
        BY <3>2 DEF Ok
      <4>2. <<line>> # <<AnyLine>>
        BY <3>3
      <4> QED
        BY <3>1, <4>1, <4>2 DEF ParseAnyOr
    <3> QED
      BY <2>3, <3>2, <3>4
  <2> QED
    BY <2>2, <2>4, <2>5
<1> QED
  BY <1>2, <1>3, <1>4 DEF IsKept

(* What is read of lines, wherever they come from, is a list of items.      *)
LEMMA ListIsTyped ==
    ASSUME NEW h, IsKept(h), NEW lines, AllTexts(lines), NoLineBreak(lines),
           NEW reading, reading = ParseListed(h, lines), reading.ok
    PROVE  reading = Ok(reading.val) /\ IsList(h, reading.val)
<1>1. PICK kind, texts, results, places, good, items :
         /\ kind = h.item /\ texts = CommaDelimited(lines).val /\ results = Readings(kind, texts)
         /\ places = {i \in DOMAIN results : results[i].ok}
         /\ good = ElementsAt(results, places) /\ items = Oks(results)
  OBVIOUS
<1>2. ~h.weighted /\ kind \in KeptKinds
  BY <1>1 DEF IsKept
<1>3. CommaDelimited(lines).ok /\ reading = Ok(items)
  BY <1>1, <1>2, UnweightedList DEF Err
<1>4. reading = Ok(reading.val) /\ reading.val = items
  BY <1>3 DEF Ok
<1>5. IsText(texts) /\ \A i \in 1..Len(texts) : ListText(texts[i])
  BY <1>1, <1>3, TextsOnLines
<1>6. DOMAIN texts = 1..Len(texts)
  BY <1>5, TextIs
<1>7. /\ results = [i \in DOMAIN texts |-> results[i]] /\ DOMAIN results = DOMAIN texts
      /\ \A i \in DOMAIN texts : results[i] = ParseItem(kind, texts[i])
  BY <1>1 DEF Readings
<1>8. IsText(results)
  BY <1>5, <1>7, ChangedText
<1>9. places \in SUBSET DOMAIN results /\ \A i \in places : results[i].ok
  BY <1>1
<1>10. /\ IsText(good) /\ Len(good) = Cardinality(places)
       /\ \A k \in 1..Cardinality(places) : \E i \in places : good[k] = results[i]
  <2>1. good = ElementsAt(results, places)
    BY <1>1
  <2> QED
    BY <1>8, <1>9, <2>1, SelectedAreText
<1>11. items = [i \in DOMAIN good |-> items[i]] /\ \A i \in DOMAIN good : items[i] = good[i].val
  <2>1. items = [i \in DOMAIN good |-> good[i].val]
    BY <1>1 DEF Oks
  <2> QED
    BY <2>1
<1>12. IsText(items) /\ DOMAIN items = DOMAIN good
  BY <1>10, <1>11, ChangedText
<1>13. ASSUME NEW k \in DOMAIN items PROVE IsItem(kind, items[k])
  <2>1. k \in 1..Cardinality(places)
    BY <1>10, <1>12, TextIs
  <2>2. PICK i \in places : good[k] = results[i]
    BY <1>10, <2>1
  <2>3. PICK t, r : t = texts[i] /\ r = results[i]
    OBVIOUS
  <2>4. IsString(t) /\ r = ParseItem(kind, t) /\ r.ok
    BY <1>5, <1>6, <1>7, <1>9, <2>3 DEF ListText, IsString
  <2>5. IsItem(kind, r.val)
    BY <1>2, <2>4, ReadIsItem
  <2> QED
    BY <1>11, <1>12, <2>2, <2>3, <2>5
<1> QED
  BY <1>1, <1>2, <1>4, <1>12, <1>13, UnweightedItems

(* What is read of a header's lines, wherever they come from, has its type. *)
LEMMA MacroIsTyped ==
    ASSUME NEW h, IsKept(h), NEW lines, AllTexts(lines), NoLineBreak(lines),
           NEW reading, reading = ParseMacro(h, lines), reading.ok
    PROVE  reading = Ok(reading.val) /\ IsValue(h, reading.val)
<1>0. ~Err.ok /\ \A x : Ok(x).val = x /\ Ok(x).ok
  BY DEF Ok, Err
<1>1. CASE h.grammar = "single"
  <2>1. reading = ParseOne(h, lines) /\ (IsValue(h, reading.val) <=> IsItem(h.item, reading.val))
    BY <1>1, SingleGrammar
  <2>2. OneRawStr(lines).ok /\ reading = ParseItem(h.item, OneRawStr(lines).val)
    BY <1>0, <2>1 DEF ParseOne
  <2>3. Len(lines) = 1 /\ IsUtf8(lines[1]) /\ OneRawStr(lines).val = Trim(lines[1])
    BY <2>2 DEF OneRawStr, OkIf, Ok, Err
  <2>4. PICK line, t : line = lines[1] /\ t = Trim(line)
    OBVIOUS
  <2>5. IsText(line)
    BY <2>3, <2>4 DEF AllTexts
  <2>6. IsString(t)
    BY <2>3, <2>4, <2>5, TokensOfTrimmed DEF IsString, IsUtf8
  <2>7. reading = ParseItem(h.item, t) /\ h.item \in KeptKinds
    BY <2>2, <2>3, <2>4 DEF IsKept
  <2> QED
    BY <2>1, <2>6, <2>7, ReadIsItem
<1>2. CASE h.grammar = "list"
  <2>1. reading = ParseListed(h, lines) /\ (IsValue(h, reading.val) <=> IsList(h, reading.val))
    BY <1>2, ListGrammar
  <2>2. reading = Ok(reading.val) /\ IsList(h, reading.val)
    BY <2>1, ListIsTyped
  <2> QED
    BY <2>1, <2>2
<1>3. CASE h.grammar = "any"
  <2>1. reading = ParseAnyOr(h, lines)
    BY <1>3, AnyGrammar
  <2>2. CASE lines = <<AnyLine>>
    <3>1. PICK v : v = [any |-> TRUE, items |-> <<>>]
      OBVIOUS
    <3>2. reading = Ok(v)
      BY <2>1, <2>2, <3>1 DEF ParseAnyOr
    <3>3. v.any = TRUE /\ v.items = <<>>
      BY <3>1
    <3>4. IsList(h, <<>>)
      BY NoText, UnweightedItems DEF IsKept
    <3> QED
      BY <1>0, <1>3, <3>1, <3>2, <3>3, <3>4, AnyGrammar
  <2>3. CASE lines # <<AnyLine>>
    <3>1. PICK result : result = ParseListed(h, lines)
      OBVIOUS
    <3>2. result.ok /\ reading = Ok([any |-> FALSE, items |-> result.val])
      BY <1>0, <2>1, <2>3, <3>1 DEF ParseAnyOr
    <3>3. IsList(h, result.val)
      BY <3>1, <3>2, ListIsTyped
    <3>4. PICK v, items : items = result.val /\ v = [any |-> FALSE, items |-> items]
      OBVIOUS
    <3>5. v.any = FALSE /\ v.items = items
      BY <3>4
    <3>6. v = [any |-> v.any, items |-> v.items]
      BY <3>4, <3>5
    <3>7. IsValue(h, v)
      BY <1>3, <3>3, <3>4, <3>5, <3>6, AnyGrammar
    <3>8. reading = Ok(v)
      BY <3>2, <3>4
    <3> QED
      BY <1>0, <3>7, <3>8
  <2> QED
    BY <2>2, <2>3
<1> QED
  BY <1>1, <1>2, <1>3 DEF IsKept

\* The items of a list header's value, where it has any.
Listed(h, v) == IF h.grammar = "any" THEN v.items ELSE v
Wrapped(h, items) == IF h.grammar = "any" THEN [any |-> FALSE, items |-> items] ELSE items

(* A value whose items are put after those of another, on a line of their   *)
(* own, is read as one value of all the items.                              *)
LEMMA TwoValuesAreRead ==
    ASSUME NEW h, IsKept(h), h.grammar \in {"list", "any"},
           NEW v, IsValue(h, v), NEW w, IsValue(h, w), h.grammar = "any" => ~v.any /\ ~w.any,
           NEW both, both = Wrapped(h, Both(Listed(h, v), Listed(h, w))),
           NEW lines, IsText(lines), Len(lines) = 2,
           lines[1] = NewlineReplaced(PrintMacro(h, v)), lines[2] = PrintMacro(h, w)
    PROVE  IsValue(h, both) /\ (FaithfulMacro(h, both) => ParseMacro(h, lines) = Ok(both))
<1>1. PICK kind, s, t, x : kind = h.item /\ s = Listed(h, v) /\ t = Listed(h, w) /\ x = Both(s, t)
  OBVIOUS
<1>2. IsList(h, s) /\ IsList(h, t) /\ PrintMacro(h, v) = PrintListed(h, s) /\ PrintMacro(h, w) = PrintListed(h, t)
  <2>1. CASE h.grammar = "list"
    BY <1>1, <2>1, ListGrammar DEF Listed
  <2>2. CASE h.grammar = "any"
    BY <1>1, <2>2, AnyGrammar DEF Listed
  <2> QED
    BY <2>1, <2>2
<1>3. /\ IsText(s) /\ DOMAIN s = 1..Len(s) /\ Len(s) \in Nat /\ \A i \in DOMAIN s : IsItem(kind, s[i])
      /\ IsText(t) /\ DOMAIN t = 1..Len(t) /\ Len(t) \in Nat /\ \A i \in DOMAIN t : IsItem(kind, t[i])
  BY <1>1, <1>2, TextIs, UnweightedItems DEF IsKept
<1>4. PICK m, n : m = Len(s) /\ n = Len(t)
  OBVIOUS
<1>5. /\ IsText(x) /\ Len(x) = m + n /\ DOMAIN x = 1..(m + n)
      /\ (\A i \in 1..m : x[i] = s[i]) /\ \A i \in 1..n : x[m + i] = t[i]
  <2>1. AreBoth(x, s, t)
    BY <1>1, <1>3, PlacesOfBoth
  <2>2. IsText(x)
    BY <2>1 DEF AreBoth
  <2> QED
    BY <1>4, <2>1, <2>2, TextIs DEF AreBoth
<1>6. ASSUME NEW i \in 1..(m + n) PROVE (i \in DOMAIN s /\ x[i] = s[i]) \/ \E j \in DOMAIN t : m + j = i /\ x[i] = t[j]
  <2>1. CASE i \in 1..m
    BY <1>3, <1>4, <1>5, <2>1
  <2>2. CASE i \notin 1..m
    <3>1. PICK j : j = i - m
      OBVIOUS
    <3>2. j \in 1..n /\ m + j = i
      BY <1>3, <1>4, <2>2, <3>1
    <3>3. x[m + j] = t[j] /\ j \in DOMAIN t
      BY <1>3, <1>4, <1>5, <3>2
    <3> QED
      BY <3>2, <3>3
  <2> QED
    BY <2>1, <2>2
<1>7. IsList(h, x)
  <2>1. \A i \in DOMAIN x : IsItem(kind, x[i])
    BY <1>3, <1>5, <1>6
  <2> QED
    BY <1>1, <1>5, <2>1, UnweightedItems DEF IsKept
<1>8. IsValue(h, both) /\ (FaithfulMacro(h, both) => \A i \in DOMAIN x : FaithfulListed(h, x[i]))
  <2>1. CASE h.grammar = "list"
    BY <1>1, <1>7, <2>1, ListGrammar DEF Wrapped
  <2>2. CASE h.grammar = "any"
    <3>1. both = [any |-> FALSE, items |-> x]
      BY <1>1, <2>2 DEF Wrapped
    <3>2. both.any = FALSE /\ both.items = x
      BY <3>1
    <3> QED
      BY <1>7, <2>2, <3>1, <3>2, AnyGrammar
  <2> QED
    BY <2>1, <2>2
<1>9. ASSUME \A i \in DOMAIN x : FaithfulListed(h, x[i]) PROVE ParseListed(h, lines) = Ok(x)
  <2>1. \A i \in DOMAIN s : FaithfulListed(h, s[i])
    <3>1. \A i \in 1..m : i \in DOMAIN x /\ x[i] = s[i]
      BY <1>3, <1>4, <1>5
    <3> QED
      BY <1>3, <1>4, <1>9, <3>1
  <2>2. \A i \in DOMAIN t : FaithfulListed(h, t[i])
    <3>1. \A i \in 1..n : m + i \in DOMAIN x /\ x[m + i] = t[i]
      BY <1>3, <1>4, <1>5
    <3> QED
      BY <1>3, <1>4, <1>9, <3>1
  <2>3. ListItems(kind, s) /\ ListItems(kind, t) /\ ListItems(kind, x)
    BY <1>1, <1>2, <1>7, <1>9, <2>1, <2>2, FaithfulList
  <2>4. PICK a, b, c, k, l : /\ a = Texts(kind, s) /\ b = Texts(kind, t) /\ c = Texts(kind, x)
                             /\ k = lines[1] /\ l = lines[2]
    OBVIOUS
  <2>5. LineOf(PrintListed(h, s), a) /\ LineOf(PrintListed(h, t), b)
    BY <1>1, <2>3, <2>4, ListLine DEF IsKept
  <2>6. LineOf(k, a) /\ LineOf(l, b)
    <3>1. NewlineReplaced(PrintListed(h, s)) = PrintListed(h, s)
      BY <2>5, LineIsKept DEF LineOf
    <3> QED
      BY <1>2, <2>4, <2>5, <3>1
  <2>7. CommaDelimited(lines) = Ok(Both(a, b))
    BY <2>4, <2>6, TwoLinesAreRead
  <2>8. Both(a, b) = c
    <3>1. PICK d : d = Both(a, b)
      OBVIOUS
    <3>2. /\ IsText(a) /\ Len(a) = m /\ \A i \in 1..m : a[i] = PrintItem(kind, s[i])
      BY <1>3, <1>4, <2>4, TextsAre
    <3>3. /\ IsText(b) /\ Len(b) = n /\ \A i \in 1..n : b[i] = PrintItem(kind, t[i])
      BY <1>3, <1>4, <2>4, TextsAre
    <3>4. /\ IsText(c) /\ Len(c) = m + n /\ \A i \in 1..(m + n) : c[i] = PrintItem(kind, x[i])
      <4>1. PICK p : p = Len(x)
        OBVIOUS
      <4>2. IsText(c) /\ Len(c) = p /\ \A i \in 1..p : c[i] = PrintItem(kind, x[i])
        BY <1>5, <2>4, <4>1, TextsAre
      <4>3. p = m + n
        BY <1>5, <4>1
      <4> QED
        BY <4>2, <4>3
    <3>5. AreBoth(d, a, b)
      BY <3>1, <3>2, <3>3, PlacesOfBoth
    <3>6. /\ IsText(d) /\ Len(d) = m + n /\ (\A i \in 1..m : d[i] = a[i])
          /\ \A i \in 1..n : d[m + i] = b[i]
      BY <3>2, <3>3, <3>5 DEF AreBoth
    <3>7. ASSUME NEW i \in 1..(m + n) PROVE d[i] = c[i]
      <4>1. CASE i \in 1..m
        BY <1>5, <3>2, <3>4, <3>6, <4>1
      <4>2. CASE i \notin 1..m
        <5>1. PICK j : j = i - m
          OBVIOUS
        <5>2. j \in 1..n /\ m + j = i
          BY <1>3, <1>4, <4>2, <5>1
        <5>3. d[m + j] = PrintItem(kind, t[j]) /\ x[m + j] = t[j]
          BY <1>5, <3>3, <3>6, <5>2
        <5> QED
          BY <3>4, <5>2, <5>3
      <4> QED
        BY <4>1, <4>2
    <3>8. d = [i \in 1..(m + n) |-> d[i]] /\ c = [i \in 1..(m + n) |-> c[i]]
      BY <3>4, <3>6, TextIs
    <3> QED
      BY <3>1, <3>7, <3>8
  <2>9. CommaDelimited(lines) = Ok(Texts(h.item, x))
    BY <1>1, <2>4, <2>7, <2>8
  <2> QED
    BY <1>1, <2>3, <2>9, FaithfulListIsRead
<1>10. ParseListed(h, lines) = Ok(x) => ParseMacro(h, lines) = Ok(both)
  <2>1. CASE h.grammar = "list"
    BY <1>1, <2>1, ListGrammar DEF Wrapped
  <2>2. CASE h.grammar = "any"
    <3>1. lines # <<AnyLine>>
      BY ShortTexts
    <3>2. ParseMacro(h, lines) = ParseAnyOr(h, lines) /\ both = [any |-> FALSE, items |-> x]
      BY <1>1, <2>2, AnyGrammar DEF Wrapped
    <3> QED
      BY <3>1, <3>2 DEF ParseAnyOr, Ok
  <2> QED
    BY <2>1, <2>2
<1> QED
  BY <1>8, <1>9, <1>10

-----------------------------------------------------------------------------
(* Headers on their way.                                                   *)

(* A header that a macro defines is read and printed as the macro has it.   *)
LEMMA MacroDispatch ==
    ASSUME NEW name \in DOMAIN MacroHeaders, NEW v, NEW lines, NEW h, h = MacroHeaders[name]
    PROVE  /\ PrintHeader(name, v) = <<NewlineReplaced(PrintMacro(h, v))>>
           /\ PrintedText(name, v) = PrintMacro(h, v)
           /\ ParseHeader(name, lines) = ParseMacro(h, lines)
           /\ HasType(name, v) <=> IsValue(h, v)
           /\ Faithful(name, v) <=> FaithfulMacro(h, v)
<1>1. DOMAIN MacroHeaders \cap
        {"Access-Control-Allow-Credentials", "Access-Control-Allow-Origin", "Cache-Control",
         "Content-Disposition", "Content-Length", "Content-Range", "Cookie", "Expect", "Host",
         "If-Range", "Last-Event-ID", "Link", "Origin", "Pragma", "Prefer", "Preference-Applied",
         "Range", "Referrer-Policy", "Retry-After", "Set-Cookie", "Strict-Transport-Security",
         "Warning"} = {}
  BY DEF MacroHeaders, Table
<1>2. DOMAIN MacroHeaders \cap
        {"Authorization<String>", "Authorization<Basic>", "Authorization<Bearer>",
         "ProxyAuthorization<String>", "ProxyAuthorization<Basic>", "ProxyAuthorization<Bearer>"} = {}
  BY DEF MacroHeaders, Table
<1>3. DOMAIN Schemes \subseteq {"Authorization<String>", "Authorization<Basic>", "Authorization<Bearer>"}
  BY DEF Schemes, Table
<1>4. DOMAIN ProxySchemes \subseteq {"ProxyAuthorization<String>", "ProxyAuthorization<Basic>",
                                     "ProxyAuthorization<Bearer>"}
  BY DEF ProxySchemes, Table
<1>5. name \notin DOMAIN Schemes /\ name \notin DOMAIN ProxySchemes
  BY <1>2, <1>3, <1>4
<1>6. PrintedText(name, v) = PrintMacro(h, v)
  BY <1>1, <1>5 DEF PrintedText
<1>7. ParseHeader(name, lines) = ParseMacro(h, lines)
  BY <1>1, <1>5 DEF ParseHeader
<1>8. PrintHeader(name, v) = <<NewlineReplaced(PrintMacro(h, v))>>
  BY <1>1, <1>6 DEF PrintHeader
<1>9. HasType(name, v) <=> IsValue(h, v)
  <2>1. name \notin {"Range", "Content-Range", "Content-Length", "Expect", "Access-Control-Allow-Credentials"}
    BY <1>1
  <2>2. name \notin OneText
    BY <1>1, <1>2 DEF OneText
  <2> QED
    BY <2>1, <2>2 DEF HasType
<1>10. Faithful(name, v) <=> FaithfulMacro(h, v)
  BY <1>1, <1>2 DEF Faithful
<1> QED
  BY <1>6, <1>7, <1>8, <1>9, <1>10

(* What is left of lines after the first two.                               *)
LEMMA LinesAfterTwo ==
    ASSUME NEW lines, IsText(lines), Len(lines) > 1,
           NEW rest, rest = SubSeq(lines, 3, Len(lines))
    PROVE  /\ IsText(rest) /\ Len(rest) = Len(lines) - 2
           /\ \A i \in 1..(Len(lines) - 2) : rest[i] = lines[i + 2]
<1>1. PICK S, n, lo : S = ToSet(lines) /\ n = Len(lines) /\ lo = 3
  OBVIOUS
<1>2. lines \in Seq(S) /\ n \in Nat /\ n > 1 /\ \A i \in 1..n : lines[i] \in S
  BY <1>1, TextIs
<1>3. \A i \in lo..n : lines[i] \in S
  BY <1>1, <1>2
<1>4. rest = SubSeq(lines, lo, n)
  BY <1>1
<1>5. lo \in 1..(n + 1)
  BY <1>1, <1>2
<1>6. /\ rest \in Seq(S) /\ Len(rest) = n - lo + 1
      /\ \A i \in 1..(n - lo + 1) : rest[i] = lines[lo + i - 1]
  BY <1>1, <1>2, <1>3, <1>4, <1>5, SubSeqProperties
<1>7. IsText(rest)
  BY <1>6, SeqIsText
<1>8. n - lo + 1 = n - 2
  BY <1>1, <1>2
<1>9. \A i \in 1..(n - 2) : lo + i - 1 = i + 2
  BY <1>1, <1>2
<1> QED
  BY <1>1, <1>6, <1>7, <1>8, <1>9

\* The lines as MergeLines combines them.
Merging(lines) == <<lines[1] \o <<",", " ">> \o lines[2]>> \o SubSeq(lines, 3, Len(lines))

(* Two lines become one.                                                    *)
LEMMA LinesAreMerged ==
    ASSUME NEW lines, AllTexts(lines), Len(lines) > 1, NEW merged, merged = Merging(lines)
    PROVE  AreMerged(merged, lines)
<1>1. PICK n, rest, first : /\ n = Len(lines) /\ rest = SubSeq(lines, 3, Len(lines))
                            /\ first = Combining(lines[1], lines[2])
  OBVIOUS
<1>2. IsText(lines) /\ n \in Nat /\ n > 1 /\ \A i \in 1..n : IsText(lines[i])
  BY <1>1, TextIs DEF AllTexts
<1>3. IsText(lines[1]) /\ IsText(lines[2])
  <2>1. 1 \in 1..n /\ 2 \in 1..n
    BY <1>2
  <2> QED
    BY <1>2, <2>1
<1>4. lines[1] \o <<",", " ">> \o lines[2] = first
  <2>1. PICK s, t, c, b, x : /\ s = lines[1] /\ t = lines[2] /\ c = Alone(Comma) /\ b = Alone(Blank)
                             /\ x = Both(c, b)
    OBVIOUS
  <2>2. x = <<",", " ">>
    BY <2>1, SeparatorIs
  <2>3. IsText(s) /\ IsText(t) /\ IsText(c) /\ IsText(b) /\ IsText(Both(s, c)) /\ IsText(x)
    BY <1>3, <2>1, AloneIs, PlacesOfBoth DEF AreBoth
  <2>4. first = Both(Both(s, c), Both(b, t))
    BY <1>1, <2>1 DEF Combining
  <2>5. Both(Both(s, c), Both(b, t)) = Both(Both(Both(s, c), b), t)
    BY <2>3, TextsTogether
  <2>6. Both(Both(s, c), b) = Both(s, x)
    BY <2>1, <2>3, TextsTogether
  <2>7. first = Both(Both(s, x), t)
    BY <2>4, <2>5, <2>6
  <2>8. s \o x \o t = Both(Both(s, x), t)
    BY Zenon DEF Both
  <2> QED
    BY <2>1, <2>2, <2>7, <2>8, Zenon
<1>5. merged = Both(Alone(first), rest)
  <2>1. merged = <<first>> \o rest
    BY <1>1, <1>4, Zenon DEF Merging
  <2> QED
    BY <2>1, Zenon DEF Both, Alone
<1>6. /\ IsText(rest) /\ Len(rest) = n - 2 /\ \A i \in 1..(n - 2) : rest[i] = lines[i + 2]
  BY <1>1, <1>2, LinesAfterTwo
<1>7. IsText(Alone(first)) /\ Len(Alone(first)) = 1 /\ Alone(first)[1] = first
  BY AloneIs
<1>8. PICK alone, one : alone = Alone(first) /\ one = 1
  OBVIOUS
<1>9. AreBoth(merged, alone, rest) /\ IsText(alone) /\ Len(alone) = one /\ alone[one] = first
  BY <1>5, <1>6, <1>7, <1>8, PlacesOfBoth
<1>10. /\ IsText(merged) /\ Len(merged) = one + (n - 2)
       /\ (\A i \in 1..one : merged[i] = alone[i])
       /\ \A i \in 1..(n - 2) : merged[one + i] = rest[i]
  BY <1>6, <1>9 DEF AreBoth
<1>11. Len(merged) = n - 1 /\ merged[1] = first
  BY <1>2, <1>8, <1>9, <1>10
<1>12. ASSUME NEW i \in 2..(n - 1) PROVE merged[i] = lines[i + 1]
  <2>1. PICK j : j = i - 1
    OBVIOUS
  <2>2. j \in 1..(n - 2) /\ one + j = i /\ j + 2 = i + 1
    BY <1>2, <1>8, <2>1
  <2>3. merged[one + j] = lines[j + 2]
    BY <1>6, <1>10, <2>2
  <2> QED
    BY <2>2, <2>3
<1> QED
  BY <1>1, <1>10, <1>11, <1>12 DEF AreMerged

(* Lines of a list are read the same whether they have been combined or     *)
(* not.                                                                     *)
LEMMA MacroIsMerged ==
    ASSUME NEW h, IsKept(h), h.grammar \in {"list", "any"},
           NEW lines, AllTexts(lines), Len(lines) > 1, NEW merged, merged = Merging(lines)
    PROVE  AllTexts(merged) /\ ParseMacro(h, merged) = ParseMacro(h, lines)
<1>1. AreMerged(merged, lines)
  BY LinesAreMerged
<1>2. /\ AllTexts(merged) /\ merged # <<AnyLine>>
      /\ CommaDelimited(merged) = CommaDelimited(lines)
  BY <1>1, MergedIsReadTheSame
<1>3. ParseListed(h, merged) = ParseListed(h, lines)
  BY <1>2, UnweightedList DEF IsKept
<1>4. CASE h.grammar = "list"
  BY <1>2, <1>3, <1>4, ListGrammar
<1>5. CASE h.grammar = "any"
  <2>1. lines # <<AnyLine>>
    <3>1. PICK one : one = <<AnyLine>>
      OBVIOUS
    <3>2. Len(one) = 1
      BY <3>1, ShortTexts
    <3>3. ~(Len(one) > 1)
      BY <3>2
    <3>4. lines # one
      BY <3>3
    <3> QED
      BY <3>1, <3>4
  <2>2. ParseAnyOr(h, merged) = ParseAnyOr(h, lines)
    BY <1>2, <1>3, <2>1 DEF ParseAnyOr
  <2> QED
    BY <1>2, <1>5, <2>2, AnyGrammar
<1> QED
  BY <1>4, <1>5

-----------------------------------------------------------------------------
(* Ranges, asked for and served.                                           *)

(* How a range with a dash in it is read.                                   *)
LEMMA ReadSpec ==
    ASSUME NEW line, Len(SplitFirst(line, Dash)) = 2,
           NEW a, NEW b, a = SplitFirst(line, Dash)[1], b = SplitFirst(line, Dash)[2]
    PROVE  /\ a = <<>> /\ ParseNumber(b).ok => ParseByteRangeSpec(line) = Ok(LastBytes(ParseNumber(b).val))
           /\ a # <<>> /\ b = <<>> /\ ParseNumber(a).ok
              => ParseByteRangeSpec(line) = Ok(AllFrom(ParseNumber(a).val))
           /\ a # <<>> /\ b # <<>> /\ ParseNumber(a).ok /\ ParseNumber(b).ok
              /\ ParseNumber(a).val <= ParseNumber(b).val
              => ParseByteRangeSpec(line) = Ok(FromTo(ParseNumber(a).val, ParseNumber(b).val))
<1>1. ParseByteRangeSpec(line) =
         IF a = <<>> THEN IF ParseNumber(b).ok THEN Ok(LastBytes(ParseNumber(b).val)) ELSE Err
         ELSE IF b = <<>> THEN IF ParseNumber(a).ok THEN Ok(AllFrom(ParseNumber(a).val)) ELSE Err
         ELSE IF ParseNumber(a).ok /\ ParseNumber(b).ok /\ ParseNumber(a).val <= ParseNumber(b).val
              THEN Ok(FromTo(ParseNumber(a).val, ParseNumber(b).val))
         ELSE Err
  <2>1. ~(Len(SplitFirst(line, Dash)) < 2)
    OBVIOUS
  <2> QED
    BY <2>1 DEF ParseByteRangeSpec, Dash
<1> QED
  BY <1>1

\* A range that is not from a later to an earlier position.
Forward(spec) == spec.kind = "from to" => spec.from <= spec.to

(* What is printed of a range is plain, and read as that range if it is     *)
(* such a one.                                                              *)
LEMMA SpecIsRead ==
    ASSUME NEW spec, IsByteRangeSpec(spec)
    PROVE  /\ Plain(PrintByteRangeSpec(spec))
           /\ Forward(spec) => ParseByteRangeSpec(PrintByteRangeSpec(spec)) = Ok(spec)
<1>1. PICK m \in Numbers, n \in Numbers : spec \in {FromTo(m, n), AllFrom(m), LastBytes(m)}
  BY DEF IsByteRangeSpec
<1>2. PICK s, t, line : s = Numeral(m) /\ t = Numeral(n) /\ line = PrintByteRangeSpec(spec)
  OBVIOUS
<1>3. /\ Plain(s) /\ Len(s) = 1 /\ Dash \notin ToSet(s) /\ ParseNumber(s) = Ok(m)
      /\ Plain(t) /\ Len(t) = 1 /\ Dash \notin ToSet(t) /\ ParseNumber(t) = Ok(n)
  BY <1>2, NumeralIsPlain
<1>4. PICK none : none = <<>>
  OBVIOUS
<1>5. IsText(none) /\ Len(none) = 0 /\ ToSet(none) = {} /\ s # none /\ t # none
  BY <1>3, <1>4, NoText
<1>6. ASSUME NEW a, NEW b, IsText(a), IsText(b), Dash \notin ToSet(a),
             Delimiters \cap ToSet(a) = {}, Delimiters \cap ToSet(b) = {},
             line = Both(Both(a, Alone(Dash)), b)
      PROVE  Plain(line) /\ Len(SplitFirst(line, Dash)) = 2
             /\ SplitFirst(line, Dash)[1] = a /\ SplitFirst(line, Dash)[2] = b
  <2>1. /\ IsText(line) /\ ToSet(line) = ToSet(a) \cup {Dash} \cup ToSet(b)
        /\ Len(line) = Len(a) + 1 + Len(b)
        /\ Len(SplitFirst(line, Dash)) = 2
        /\ SplitFirst(line, Dash)[1] = a /\ SplitFirst(line, Dash)[2] = b
    BY <1>6, CutInTwo
  <2>2. Len(a) \in Nat /\ Len(b) \in Nat
    BY <1>6, TextIs
  <2>3. Delimiters \cap ToSet(line) = {}
    BY <1>6, <2>1, MarksDiffer
  <2>4. Len(line) > 0
    BY <2>1, <2>2
  <2> QED
    BY <2>1, <2>3, <2>4 DEF Plain
<1>7. \A k : Ok(k).ok /\ Ok(k).val = k
  BY DEF Ok
<1>8. CASE spec = FromTo(m, n)
  <2>1. Forward(spec) => m <= n
    BY <1>8 DEF Forward, FromTo
  <2>2. line = Both(Both(s, Alone(Dash)), t)
    BY <1>2, <1>8 DEF PrintByteRangeSpec, FromTo, Both, Alone, Dash
  <2>3. Plain(line) /\ Len(SplitFirst(line, Dash)) = 2
        /\ SplitFirst(line, Dash)[1] = s /\ SplitFirst(line, Dash)[2] = t
    BY <1>3, <1>6, <2>2 DEF Plain
  <2>4. Forward(spec) => ParseByteRangeSpec(line) = Ok(FromTo(m, n))
    BY <1>3, <1>4, <1>5, <1>7, <2>1, <2>3, ReadSpec
  <2> QED
    BY <1>2, <1>8, <2>3, <2>4
<1>9. CASE spec = AllFrom(m)
  <2>1. line = Both(s, Alone(Dash))
    BY <1>2, <1>9 DEF PrintByteRangeSpec, AllFrom, Both, Alone, Dash
  <2>2. line = Both(Both(s, Alone(Dash)), none)
    <3>1. IsText(Both(s, Alone(Dash)))
      BY <1>3, AloneIs, PlacesOfBoth DEF Plain, AreBoth
    <3> QED
      BY <1>4, <2>1, <3>1, NoText
  <2>3. Plain(line) /\ Len(SplitFirst(line, Dash)) = 2
        /\ SplitFirst(line, Dash)[1] = s /\ SplitFirst(line, Dash)[2] = none
    BY <1>3, <1>5, <1>6, <2>2 DEF Plain
  <2>4. ParseByteRangeSpec(line) = Ok(AllFrom(m))
    BY <1>3, <1>4, <1>5, <1>7, <2>3, ReadSpec
  <2> QED
    BY <1>2, <1>9, <2>3, <2>4
<1>10. CASE spec = LastBytes(m)
  <2>1. line = Both(Alone(Dash), s)
    BY <1>2, <1>10 DEF PrintByteRangeSpec, LastBytes, Both, Alone, Dash
  <2>2. line = Both(Both(none, Alone(Dash)), s)
    BY <1>4, <2>1, AloneIs, NoText
  <2>3. Plain(line) /\ Len(SplitFirst(line, Dash)) = 2
        /\ SplitFirst(line, Dash)[1] = none /\ SplitFirst(line, Dash)[2] = s
    BY <1>3, <1>5, <1>6, <2>2 DEF Plain
  <2>4. ParseByteRangeSpec(line) = Ok(LastBytes(m))
    BY <1>3, <1>4, <1>7, <2>3, ReadSpec
  <2> QED
    BY <1>2, <1>10, <2>3, <2>4
<1> QED
  BY <1>1, <1>8, <1>9, <1>10

(* What is read as a range is one, from an earlier to a later position.     *)
LEMMA ReadIsSpec ==
    ASSUME NEW t, NEW reading, reading = ParseByteRangeSpec(t), reading.ok
    PROVE  IsByteRangeSpec(reading.val) /\ Forward(reading.val)
<1>1. PICK a, b : a = SplitFirst(t, "-")[1] /\ b = SplitFirst(t, "-")[2]
  OBVIOUS
<1>2. PICK from, to : from = ParseNumber(a) /\ to = ParseNumber(b)
  OBVIOUS
<1>3. ~Err.ok /\ \A n : Ok(n).val = n
  BY DEF Err, Ok
<1>4. reading = IF Len(SplitFirst(t, "-")) < 2 THEN Err
                ELSE IF a = <<>> THEN IF to.ok THEN Ok(LastBytes(to.val)) ELSE Err
                ELSE IF b = <<>> THEN IF from.ok THEN Ok(AllFrom(from.val)) ELSE Err
                ELSE IF from.ok /\ to.ok /\ from.val <= to.val THEN Ok(FromTo(from.val, to.val))
                ELSE Err
  BY <1>1, <1>2 DEF ParseByteRangeSpec
<1>5. \/ to.ok /\ reading.val = LastBytes(to.val)
      \/ from.ok /\ reading.val = AllFrom(from.val)
      \/ from.ok /\ to.ok /\ from.val <= to.val /\ reading.val = FromTo(from.val, to.val)
  BY <1>3, <1>4
<1>6. (from.ok => from.val \in Numbers) /\ (to.ok => to.val \in Numbers)
  BY <1>2, ReadNumber
<1> HIDE DEF Numbers
<1>7. CASE to.ok /\ reading.val = LastBytes(to.val)
  <2>1. Forward(LastBytes(to.val))
    BY DEF Forward, LastBytes
  <2> QED
    BY <1>6, <1>7, <2>1 DEF IsByteRangeSpec
<1>8. CASE from.ok /\ reading.val = AllFrom(from.val)
  <2>1. Forward(AllFrom(from.val))
    BY DEF Forward, AllFrom
  <2> QED
    BY <1>6, <1>8, <2>1 DEF IsByteRangeSpec
<1>9. CASE from.ok /\ to.ok /\ from.val <= to.val /\ reading.val = FromTo(from.val, to.val)
  <2>1. PICK m, n : m = from.val /\ n = to.val
    OBVIOUS
  <2>2. m <= n => Forward(FromTo(m, n))
    BY DEF Forward, FromTo
  <2>3. Forward(FromTo(m, n))
    BY <1>9, <2>1, <2>2
  <2> QED
    BY <1>6, <1>9, <2>1, <2>3 DEF IsByteRangeSpec
<1> QED
  BY <1>5, <1>7, <1>8, <1>9

(* The values of results, in order, are those of the results that are not   *)
(* errors, and all of them if none is.                                      *)
LEMMA OksAre ==
    ASSUME NEW results, IsText(results)
    PROVE  /\ IsText(Oks(results))
           /\ \A k \in DOMAIN Oks(results) : \E i \in DOMAIN results :
                 results[i].ok /\ Oks(results)[k] = results[i].val
           /\ \A vals : /\ IsText(vals) /\ Len(vals) = Len(results)
                        /\ \A i \in 1..Len(vals) : results[i] = Ok(vals[i])
                        => Oks(results) = vals
<1>1. PICK places, good, items : /\ places = {i \in DOMAIN results : results[i].ok}
                                 /\ good = ElementsAt(results, places) /\ items = Oks(results)
  OBVIOUS
<1>2. places \in SUBSET DOMAIN results /\ \A i \in places : results[i].ok
  BY <1>1
<1>3. /\ IsText(good) /\ Len(good) = Cardinality(places)
      /\ \A k \in 1..Cardinality(places) : \E i \in places : good[k] = results[i]
  <2>1. good = ElementsAt(results, places)
    BY <1>1
  <2> QED
    BY <1>2, <2>1, SelectedAreText
<1>4. items = [i \in DOMAIN good |-> items[i]] /\ \A i \in DOMAIN good : items[i] = good[i].val
  <2>1. items = [i \in DOMAIN good |-> good[i].val]
    BY <1>1 DEF Oks
  <2> QED
    BY <2>1
<1>5. IsText(items) /\ DOMAIN items = DOMAIN good
  BY <1>3, <1>4, ChangedText
<1>6. ASSUME NEW k \in DOMAIN items
      PROVE  \E i \in DOMAIN results : results[i].ok /\ items[k] = results[i].val
  <2>1. k \in 1..Cardinality(places)
    BY <1>3, <1>5, TextIs
  <2> QED
    BY <1>2, <1>3, <1>4, <1>5, <2>1
<1>7. ASSUME NEW vals, IsText(vals), Len(vals) = Len(results),
             \A i \in 1..Len(vals) : results[i] = Ok(vals[i])
      PROVE  items = vals
  <2>1. DOMAIN results = 1..Len(vals) /\ vals = [i \in 1..Len(vals) |-> vals[i]]
    BY <1>7, TextIs
  <2>2. \A i \in 1..Len(vals) : results[i].ok /\ results[i].val = vals[i]
    <3>1. \A x : Ok(x).ok /\ Ok(x).val = x
      BY DEF Ok
    <3> QED
      BY <1>7, <3>1
  <2>3. places = DOMAIN results
    BY <1>1, <2>1, <2>2
  <2>4. good = results
    BY <1>1, <2>3, AllSelected
  <2>5. items = [i \in 1..Len(vals) |-> items[i]] /\ \A i \in 1..Len(vals) : items[i] = vals[i]
    BY <1>4, <2>1, <2>2, <2>4
  <2> QED
    BY <2>1, <2>5
<1> QED
  BY <1>1, <1>5, <1>6, <1>7

(* The two parts of a text that is cut are of its tokens.                   *)
LEMMA PartsOfText ==
    ASSUME NEW t, IsText(t), NEW token, NEW parts, parts = SplitFirst(t, token), ~(Len(parts) < 2)
    PROVE  \A k \in 1..2 : IsText(parts[k]) /\ ToSet(parts[k]) \subseteq ToSet(t)
<1>1. PICK at, n : at = Places(t, token) /\ n = Len(t)
  OBVIOUS
<1>2. at \in SUBSET DOMAIN t /\ DOMAIN t = 1..n /\ n \in Nat
  BY <1>1, TextIs DEF Places
<1>3. parts = CutAt(t, IF at = {} THEN {} ELSE {Min(at)})
  BY <1>1 DEF SplitFirst
<1>4. at # {}
  <2> SUFFICES ASSUME at = {} PROVE FALSE
    OBVIOUS
  <2>1. PICK places : places = {}
    OBVIOUS
  <2>2. parts = CutAt(t, places) /\ places \in SUBSET DOMAIN t
    BY <1>3, <2>1
  <2>3. Len(parts) = Cardinality(places) + 1
    BY <2>2, PiecesAreTexts
  <2>4. Cardinality(places) = 0
    BY <2>1, FS_EmptySet
  <2> QED
    BY <2>3, <2>4
<1>5. PICK m, places : m = Min(at) /\ places = {m}
  OBVIOUS
<1>6. m \in 1..n
  <2>1. at \in SUBSET Nat /\ IsFiniteSet(at)
    BY <1>2, PlacesAreFinite
  <2> QED
    BY <1>2, <1>4, <1>5, <2>1, LeastMember
<1>7. IsFiniteSet(places) /\ Cardinality(places) = 1 /\ places \in SUBSET Nat
  <2>1. IsFiniteSet({m}) /\ Cardinality({m}) = 1
    BY FS_Singleton
  <2> QED
    BY <1>5, <1>6, <2>1
<1>8. Kth(places, 1) = m
  <2>1. 1 \in 1..Cardinality(places)
    BY <1>7
  <2> QED
    BY <1>5, <1>7, <2>1, KthIsMember
<1> DEFINE End(k) == IF k = 0 THEN 0 ELSE IF k = 2 THEN Len(t) + 1 ELSE Kth(places, k)
<1>9. parts = [k \in 1..2 |-> SubSeq(t, End(k - 1) + 1, End(k) - 1)]
  <2>1. Cardinality(places) + 1 = 2
    BY <1>7
  <2>2. parts = CutAt(t, places)
    BY <1>3, <1>4, <1>5
  <2> QED
    BY <2>1, <2>2 DEF CutAt
<1>10. End(0) = 0 /\ End(1) = m /\ End(2) = n + 1
  BY <1>1, <1>8
<1> HIDE DEF End
<1>11. ASSUME NEW k \in 1..2 PROVE IsText(parts[k]) /\ ToSet(parts[k]) \subseteq ToSet(t)
  <2>1. PICK from, to : from = End(k - 1) + 1 /\ to = End(k) - 1
    OBVIOUS
  <2>2. from \in Nat \ {0} /\ to \in Int /\ to <= Len(t)
    <3>1. k = 1 \/ k = 2
      OBVIOUS
    <3>2. CASE k = 1
      BY <1>1, <1>2, <1>6, <1>10, <2>1, <3>2
    <3>3. CASE k = 2
      BY <1>1, <1>2, <1>6, <1>10, <2>1, <3>3
    <3> QED
      BY <3>1, <3>2, <3>3
  <2>3. parts[k] = SubSeq(t, from, to)
    BY <1>9, <2>1
  <2> QED
    BY <2>2, <2>3, TokensOfPiece
<1> QED
  BY <1>11

(* The text of a header of one line.                                        *)
LEMMA TextOfOne ==
    ASSUME NEW lines, AllTexts(lines), OneRawStr(lines).ok, NEW t, t = OneRawStr(lines).val
    PROVE  IsText(t) /\ IsUtf8(t) /\ Len(lines) = 1 /\ ToSet(t) \subseteq ToSet(lines[1])
<1>1. Len(lines) = 1 /\ IsUtf8(lines[1]) /\ t = Trim(lines[1])
  BY DEF OneRawStr, OkIf, Ok, Err
<1>2. IsText(lines[1])
  BY <1>1 DEF AllTexts
<1>3. IsText(t) /\ ToSet(t) \subseteq ToSet(lines[1])
  BY <1>1, <1>2, TokensOfTrimmed
<1> QED
  BY <1>1, <1>3 DEF IsUtf8

(* A line that begins and ends with no blank is such a text.                *)
LEMMA LineIsOne ==
    ASSUME NEW line, IsText(line), Len(line) > 0, IsUtf8(line),
           \/ Trim(line) = line
           \/ line[1] \notin {Blank, NewLine} /\ line[Len(line)] \notin {Blank, NewLine}
    PROVE  OneRawStr(<<line>>) = Ok(line)
<1>1. Trim(line) = line
  BY WholeText, ListSeparator
<1>2. PICK lines : lines = <<line>>
  OBVIOUS
<1>3. Len(lines) = 1 /\ lines[1] = line
  BY <1>2
<1>4. line # <<>>
  BY NoText
<1>5. OneRawStr(lines) = Ok(line)
  BY <1>1, <1>3, <1>4 DEF OneRawStr, OkIf
<1> QED
  BY <1>2, <1>5

\* The texts of ranges, and what texts are read as.
SpecTexts(specs) == [i \in DOMAIN specs |-> PrintByteRangeSpec(specs[i])]
SpecReadings(texts) == [i \in DOMAIN texts |-> ParseByteRangeSpec(texts[i])]

\* Ranges of bytes, whether they can be read or not.
ByteRanges(specs) == IsText(specs) /\ \A i \in DOMAIN specs : IsByteRangeSpec(specs[i])

(* Each text is that of its range.                                          *)
LEMMA SpecTextsAre ==
    ASSUME NEW specs, ByteRanges(specs), NEW texts, texts = SpecTexts(specs)
    PROVE  /\ IsText(texts) /\ Len(texts) = Len(specs) /\ DOMAIN specs = 1..Len(specs)
           /\ \A i \in 1..Len(specs) :
                 /\ IsByteRangeSpec(specs[i]) /\ texts[i] = PrintByteRangeSpec(specs[i])
                 /\ Plain(texts[i])
<1>1. IsText(specs) /\ DOMAIN specs = 1..Len(specs) /\ \A i \in DOMAIN specs : IsByteRangeSpec(specs[i])
  BY TextIs DEF ByteRanges
<1>2. texts = [i \in DOMAIN specs |-> texts[i]] /\ \A i \in DOMAIN specs : texts[i] = PrintByteRangeSpec(specs[i])
  BY DEF SpecTexts
<1>3. IsText(texts) /\ Len(texts) = Len(specs)
  BY <1>1, <1>2, ChangedText
<1>4. \A i \in 1..Len(specs) : Plain(texts[i])
  BY <1>1, <1>2, SpecIsRead
<1> QED
  BY <1>1, <1>2, <1>3, <1>4

\* The line has these texts on it, and of the marks only commas.
SpecLine(line, texts) ==
    /\ IsText(line) /\ Len(line) > 0 /\ (Delimiters \ {Comma}) \cap ToSet(line) = {}
    /\ CommaDelimited(<<line>>) = Ok(texts)

(* Plain texts, printed with commas between them, are cut into those texts  *)
(* again.                                                                   *)
LEMMA PlainLine ==
    ASSUME NEW texts, IsText(texts), Len(texts) # 0, \A i \in 1..Len(texts) : Plain(texts[i]),
           NEW line, line = Joined(texts, Alone(Comma))
    PROVE  SpecLine(line, texts)
<1>1. PICK n, rest, separator, S :
         /\ n = Len(texts) /\ rest = <<>> /\ separator = Alone(Comma)
         /\ S = (UNION {ToSet(texts[i]) : i \in 1..Len(texts)}) \cup {Comma}
  OBVIOUS
<1>2. n \in Nat \ {0} /\ DOMAIN texts = 1..n
  BY <1>1, TextIs
<1>3. IsText(rest) /\ ToSet(rest) = {} /\ \A t : IsText(t) => Both(rest, t) = t /\ Both(t, rest) = t
  BY <1>1, NoText
<1>4. separator = Both(Alone(Comma), rest)
  BY <1>1, <1>3, AloneIs
<1>5. \A i \in 1..n : IsText(texts[i]) /\ Delimiters \cap ToSet(texts[i]) = {} /\ Trim(texts[i]) = texts[i]
                      /\ texts[i] # <<>>
  BY <1>1, PlainIsWhole DEF Plain
<1>6. Comma \in Delimiters /\ NewLine \in Delimiters /\ NotUtf8 \in Delimiters /\ "*" \in Delimiters
  BY DEF Delimiters
<1>7. Comma \in S /\ (Delimiters \ {Comma}) \cap S = {}
  <2>1. ASSUME NEW token \in S, token # Comma PROVE token \notin Delimiters
    <3>1. PICK i \in 1..n : token \in ToSet(texts[i])
      BY <1>1, <2>1
    <3> QED
      BY <1>5, <3>1
  <2> QED
    BY <1>1, <2>1
<1>8. Whole(texts, Comma, S)
  BY <1>1, <1>5, <1>6 DEF Whole
<1>9. line = Joined(texts, separator)
  BY <1>1
<1>10. PICK pieces : pieces = Split(line, Comma)
  OBVIOUS
<1>11. /\ IsText(line) /\ ToSet(line) \subseteq S
       /\ Len(pieces) = n /\ pieces[1] = texts[1]
       /\ \A i \in 2..n : pieces[i] = texts[i]
  <2>1. SplitsInto(line, texts, Comma, rest, S)
    BY <1>1, <1>3, <1>4, <1>7, <1>8, <1>9, JoinedIsSplit
  <2>2. /\ IsText(line) /\ ToSet(line) \subseteq S
        /\ Len(pieces) = n /\ pieces[1] = texts[1]
        /\ \A i \in 2..n : pieces[i] = Both(rest, texts[i])
    BY <1>1, <1>10, <2>1 DEF SplitsInto
  <2>3. \A i \in 2..n : i \in 1..n
    BY <1>2
  <2> QED
    BY <1>3, <1>5, <2>2, <2>3
<1>12. (Delimiters \ {Comma}) \cap ToSet(line) = {}
  BY <1>7, <1>11
<1>13. NewLine \notin ToSet(line) /\ IsUtf8(line) /\ line # AnyLine
  <2>1. NewLine # Comma /\ NotUtf8 # Comma /\ "*" # Comma
    BY ListSeparator
  <2>2. NewLine \notin ToSet(line) /\ NotUtf8 \notin ToSet(line) /\ "*" \notin ToSet(line)
    BY <1>6, <1>12, <2>1
  <2>3. "*" \in ToSet(AnyLine)
    BY AloneIs, ListSeparator
  <2> QED
    BY <2>2, <2>3 DEF IsUtf8
<1>14. Trimmed(pieces) = texts
  <2>1. DOMAIN pieces = 1..n
    BY <1>10, <1>11, SplitAreTexts
  <2>2. ASSUME NEW i \in 1..n PROVE Trim(pieces[i]) = texts[i]
    <3>1. CASE i = 1
      BY <1>5, <1>11, <3>1
    <3>2. CASE i # 1
      <4>1. i \in 2..n
        BY <1>2, <3>2
      <4> QED
        BY <1>5, <1>11, <4>1
    <3> QED
      BY <3>1, <3>2
  <2>3. Trimmed(pieces) = [k \in 1..n |-> texts[k]]
    BY <2>1, <2>2 DEF Trimmed
  <2> QED
    BY <1>1, <2>3, TextIs
<1>15. AllFull(texts) /\ OnLine(texts) = texts
  <2>1. texts # <<>>
    BY NoText
  <2> QED
    BY <1>1, <1>5, <2>1 DEF AllFull, OnLine
<1>16. CommaDelimited(<<line>>) = Ok(texts)
  <2>1. LineOf(line, texts)
    BY <1>10, <1>11, <1>13, <1>14, <1>15 DEF LineOf
  <2> QED
    BY <2>1, OneLineIsRead
<1>17. Len(line) > 0
  <2>0. Len(line) \in Nat
    BY <1>11, TextIs
  <2> SUFFICES ASSUME Len(line) = 0 PROVE FALSE
    BY <2>0
  <2>1. line = <<>> /\ Comma \notin ToSet(line)
    BY <1>11, NoText
  <2>2. pieces = Alone(line)
    BY <1>10, <1>11, <2>1, NotSplit DEF Alone
  <2>3. pieces[1] = line
    BY <2>2, AloneIs
  <2>4. 1 \in 1..n
    BY <1>2
  <2> QED
    BY <1>5, <1>11, <2>1, <2>3, <2>4
<1> QED
  BY <1>11, <1>12, <1>16, <1>17 DEF SpecLine

(* The ranges of a line are read as those they were printed of.             *)
LEMMA SpecsAreRead ==
    ASSUME NEW specs, ByteRanges(specs), \A i \in DOMAIN specs : Forward(specs[i])
    PROVE  Oks(SpecReadings(SpecTexts(specs))) = specs
<1>1. PICK n, texts, results : n = Len(specs) /\ texts = SpecTexts(specs) /\ results = SpecReadings(texts)
  OBVIOUS
<1>2. /\ IsText(texts) /\ Len(texts) = n /\ DOMAIN specs = 1..n
      /\ \A i \in 1..n : IsByteRangeSpec(specs[i]) /\ texts[i] = PrintByteRangeSpec(specs[i])
  BY <1>1, SpecTextsAre
<1>3. DOMAIN texts = 1..n
  BY <1>2, TextIs
<1>4. results = [i \in DOMAIN texts |-> results[i]] /\ \A i \in DOMAIN texts : results[i] = ParseByteRangeSpec(texts[i])
  BY <1>1 DEF SpecReadings
<1>5. IsText(results) /\ Len(results) = n
  BY <1>2, <1>4, ChangedText
<1>6. \A i \in 1..n : results[i] = Ok(specs[i])
  BY <1>2, <1>3, <1>4, SpecIsRead
<1>7. IsText(specs) /\ Len(specs) = n
  BY <1>1 DEF ByteRanges
<1>8. Oks(results) = specs
  BY <1>5, <1>6, <1>7, OksAre
<1> QED
  BY <1>1, <1>8

(* How the two headers of ranges are printed and read, what they hold, and  *)
(* which of it is read back.                                                *)
LEMMA RangeDispatch ==
    ASSUME NEW v, NEW lines
    PROVE  /\ PrintedText("Range", v) = PrintRange(v)
           /\ PrintHeader("Range", v) = <<NewlineReplaced(PrintRange(v))>>
           /\ ParseHeader("Range", lines) = ParseRange(lines)
           /\ HasType("Range", v) <=> IsRange(v)
           /\ Faithful("Range", v) <=> FaithfulRange(v)
           /\ PrintedText("Content-Range", v) = PrintContentRange(v)
           /\ PrintHeader("Content-Range", v) = <<NewlineReplaced(PrintContentRange(v))>>
           /\ ParseHeader("Content-Range", lines) = ParseContentRange(lines)
           /\ HasType("Content-Range", v) <=> IsContentRange(v)
           /\ Faithful("Content-Range", v) <=> FaithfulContentRange(v)
<1>1. "Range" \notin DOMAIN MacroHeaders /\ "Content-Range" \notin DOMAIN MacroHeaders
  BY DEF MacroHeaders, Table
<1>2. {"Range", "Content-Range"} \cap DOMAIN Schemes = {}
  BY DEF Schemes, Table
<1>3. {"Range", "Content-Range"} \cap DOMAIN ProxySchemes = {}
  BY DEF ProxySchemes, Table
<1>4. PrintedText("Range", v) = PrintRange(v)
  BY <1>1, <1>2, <1>3 DEF PrintedText
<1>5. PrintedText("Content-Range", v) = PrintContentRange(v)
  BY <1>1, <1>2, <1>3 DEF PrintedText
<1>6. ParseHeader("Range", lines) = ParseRange(lines)
  BY <1>1, <1>2, <1>3 DEF ParseHeader
<1>7. ParseHeader("Content-Range", lines) = ParseContentRange(lines)
  BY <1>1, <1>2, <1>3 DEF ParseHeader
<1>8. PrintHeader("Range", v) = <<NewlineReplaced(PrintRange(v))>>
  BY <1>4 DEF PrintHeader
<1>9. PrintHeader("Content-Range", v) = <<NewlineReplaced(PrintContentRange(v))>>
  BY <1>5 DEF PrintHeader
<1>10. HasType("Range", v) <=> IsRange(v)
  BY <1>1 DEF HasType, OneText
<1>11. HasType("Content-Range", v) <=> IsContentRange(v)
  BY <1>1 DEF HasType, OneText
<1>12. Faithful("Range", v) <=> FaithfulRange(v)
  BY <1>1 DEF Faithful
<1>13. Faithful("Content-Range", v) <=> FaithfulContentRange(v)
  BY <1>1 DEF Faithful
<1> QED
  BY <1>4, <1>5, <1>6, <1>7, <1>8, <1>9, <1>10, <1>11, <1>12, <1>13

\* A range of bytes, and one of another unit.
InBytes(specs) == [unit |-> Alone(Bytes), specs |-> specs]
InUnit(unit, range) == [unit |-> unit, range |-> range]

(* How they are printed.                                                    *)
LEMMA PrintedRange ==
    /\ \A specs : PrintRange(InBytes(specs))
                  = Both(Both(Alone(Bytes), Alone(Equality)), Joined(SpecTexts(specs), Alone(Comma)))
    /\ \A unit, range : unit # Alone(Bytes)
          => PrintRange(InUnit(unit, range)) = Both(Both(unit, Alone(Equality)), range)
<1>1. Alone(Bytes) = <<"bytes">> /\ Alone(Equality) = <<"=">> /\ Alone(Comma) = <<",">>
  BY DEF Alone, Bytes, Equality, Comma
<1>2. ASSUME NEW specs
      PROVE  PrintRange(InBytes(specs))
             = Both(Both(Alone(Bytes), Alone(Equality)), Joined(SpecTexts(specs), Alone(Comma)))
  <2>1. InBytes(specs).unit = <<"bytes">> /\ InBytes(specs).specs = specs
    BY <1>1 DEF InBytes
  <2>2. PrintRange(InBytes(specs))
        = <<"bytes">> \o <<"=">> \o Joined([i \in DOMAIN specs |-> PrintByteRangeSpec(specs[i])], <<",">>)
    BY <2>1 DEF PrintRange
  <2> QED
    BY <1>1, <2>2 DEF Both, SpecTexts
<1>3. ASSUME NEW unit, NEW range, unit # Alone(Bytes)
      PROVE  PrintRange(InUnit(unit, range)) = Both(Both(unit, Alone(Equality)), range)
  <2>1. InUnit(unit, range).unit = unit /\ InUnit(unit, range).range = range
    BY DEF InUnit
  <2>2. PrintRange(InUnit(unit, range)) = unit \o <<"=">> \o range
    BY <1>1, <1>3, <2>1 DEF PrintRange
  <2> QED
    BY <1>1, <2>2 DEF Both
<1> QED
  BY <1>2, <1>3

(* How they are read.                                                       *)
LEMMA ReadRange ==
    ASSUME NEW lines, NEW text, text = OneRawStr(lines),
           NEW parts, parts = SplitFirst(text.val, Equality),
           NEW specs, specs = Oks(SpecReadings(CommaDelimited(<<parts[2]>>).val))
    PROVE  ParseRange(lines) =
              IF ~text.ok \/ Len(parts) < 2 THEN Err
              ELSE IF parts[1] = Alone(Bytes) THEN OkIf(specs # <<>>, InBytes(specs))
              ELSE OkIf(parts[1] # <<>> /\ parts[2] # <<>>, InUnit(parts[1], parts[2]))
<1>1. Alone(Bytes) = <<"bytes">> /\ Equality = "="
  BY DEF Alone, Bytes, Equality
<1>2. PICK pieces : pieces = CommaDelimited(<<parts[2]>>).val
  OBVIOUS
<1>3. specs = Oks([i \in DOMAIN pieces |-> ParseByteRangeSpec(pieces[i])])
  BY <1>2 DEF SpecReadings
<1>4. parts = SplitFirst(text.val, "=")
  BY <1>1
<1>5. ParseRange(lines) =
         IF ~text.ok \/ Len(parts) < 2 THEN Err
         ELSE IF parts[1] = <<"bytes">> THEN OkIf(specs # <<>>, [unit |-> parts[1], specs |-> specs])
         ELSE OkIf(parts[1] # <<>> /\ parts[2] # <<>>, [unit |-> parts[1], range |-> parts[2]])
  BY <1>2, <1>3, <1>4, Zenon DEF ParseRange
<1>6. parts[1] = <<"bytes">> => [unit |-> parts[1], specs |-> specs] = InBytes(specs)
  BY <1>1 DEF InBytes
<1>7. [unit |-> parts[1], range |-> parts[2]] = InUnit(parts[1], parts[2])
  BY DEF InUnit
<1> QED
  BY <1>1, <1>5, <1>6, <1>7

(* The two kinds of ranges, and which of them Faithful allows.              *)
LEMMA RangeIs ==
    ASSUME NEW v
    PROVE  /\ IsRange(v) => \/ \E specs : ByteRanges(specs) /\ v = InBytes(specs)
                            \/ \E unit, range : /\ unit # Alone(Bytes) /\ IsString(unit) /\ IsString(range)
                                                /\ v = InUnit(unit, range)
           /\ \A specs : /\ ByteRanges(specs) => IsRange(InBytes(specs))
                         /\ FaithfulRange(InBytes(specs)) =>
                               specs # <<>> /\ \A i \in DOMAIN specs : Forward(specs[i])
           /\ \A unit, range : unit # Alone(Bytes) =>
                 /\ IsString(unit) /\ IsString(range) => IsRange(InUnit(unit, range))
                 /\ FaithfulRange(InUnit(unit, range)) =>
                       /\ unit # <<>> /\ range # <<>> /\ Equality \notin ToSet(unit)
                       /\ Bare(Both(Both(unit, Alone(Equality)), range))
<1>1. Alone(Bytes) = <<"bytes">> /\ Alone(Equality) = <<"=">> /\ Equality = "="
  BY DEF Alone, Bytes, Equality
<1>2. ASSUME IsRange(v), v.unit = Alone(Bytes)
      PROVE  \E specs : ByteRanges(specs) /\ v = InBytes(specs)
  <2>1. PICK specs : specs = v.specs
    OBVIOUS
  <2>2. v = [unit |-> v.unit, specs |-> specs] /\ ByteRanges(specs)
    BY <1>1, <1>2, <2>1 DEF IsRange, ByteRanges
  <2>3. v = InBytes(specs)
    BY <1>2, <2>2 DEF InBytes
  <2> QED
    BY <2>2, <2>3
<1>3. ASSUME IsRange(v), v.unit # Alone(Bytes)
      PROVE  \E unit, range : /\ unit # Alone(Bytes) /\ IsString(unit) /\ IsString(range)
                              /\ v = InUnit(unit, range)
  <2>1. PICK unit, range : unit = v.unit /\ range = v.range
    OBVIOUS
  <2>2. v = [unit |-> unit, range |-> range] /\ IsString(unit) /\ IsString(range)
    BY <1>1, <1>3, <2>1 DEF IsRange
  <2>3. v = InUnit(unit, range)
    BY <2>2 DEF InUnit
  <2> QED
    BY <1>3, <2>1, <2>2, <2>3
<1>4. ASSUME NEW specs
      PROVE  /\ ByteRanges(specs) => IsRange(InBytes(specs))
             /\ FaithfulRange(InBytes(specs)) =>
                   specs # <<>> /\ \A i \in DOMAIN specs : Forward(specs[i])
  <2>1. PICK r : r = InBytes(specs)
    OBVIOUS
  <2>2. r.unit = <<"bytes">> /\ r.specs = specs
    BY <1>1, <2>1 DEF InBytes
  <2>3. r = [unit |-> r.unit, specs |-> r.specs]
    BY <1>1, <2>1, <2>2 DEF InBytes
  <2>4. ByteRanges(specs) => IsRange(r)
    BY <2>2, <2>3 DEF IsRange, ByteRanges
  <2>5. FaithfulRange(r) => specs # <<>> /\ \A i \in DOMAIN specs : Forward(specs[i])
    BY <2>2 DEF FaithfulRange, Forward
  <2> QED
    BY <2>1, <2>4, <2>5
<1>5. ASSUME NEW unit, NEW range, unit # Alone(Bytes)
      PROVE  /\ IsString(unit) /\ IsString(range) => IsRange(InUnit(unit, range))
             /\ FaithfulRange(InUnit(unit, range)) =>
                   /\ unit # <<>> /\ range # <<>> /\ Equality \notin ToSet(unit)
                   /\ Bare(Both(Both(unit, Alone(Equality)), range))
  <2>1. PICK r : r = InUnit(unit, range)
    OBVIOUS
  <2>2. r.unit = unit /\ r.range = range /\ unit # <<"bytes">>
    BY <1>1, <1>5, <2>1 DEF InUnit
  <2>3. r = [unit |-> r.unit, range |-> r.range]
    BY <2>1, <2>2 DEF InUnit
  <2>4. IsString(unit) /\ IsString(range) => IsRange(r)
    BY <2>2, <2>3 DEF IsRange
  <2>5. ASSUME FaithfulRange(r)
        PROVE  /\ unit # <<>> /\ range # <<>> /\ Equality \notin ToSet(unit)
               /\ Bare(Both(Both(unit, Alone(Equality)), range))
    <3>1. unit # <<>> /\ range # <<>> /\ "=" \notin ToSet(unit) /\ Bare(unit \o <<"=">> \o range)
      BY <2>2, <2>5 DEF FaithfulRange
    <3>2. Both(Both(unit, Alone(Equality)), range) = unit \o <<"=">> \o range
      BY <1>1 DEF Both
    <3> QED
      BY <1>1, <3>1, <3>2, Zenon
  <2> QED
    BY <2>1, <2>4, <2>5
<1> QED
  BY <1>2, <1>3, <1>4, <1>5

(* What is printed of a range is text, and read as that range if Faithful   *)
(* allows it.                                                               *)
LEMMA RangeIsReadBack ==
    ASSUME NEW v, IsRange(v), NEW line, line = PrintRange(v)
    PROVE  /\ IsText(line)
           /\ FaithfulRange(v) => NewLine \notin ToSet(line) /\ ParseRange(<<line>>) = Ok(v)
<1>0. Ok(line).ok /\ Ok(line).val = line
  BY DEF Ok
<1>1. ASSUME NEW specs, ByteRanges(specs), v = InBytes(specs)
      PROVE  /\ IsText(line)
             /\ FaithfulRange(v) => NewLine \notin ToSet(line) /\ ParseRange(<<line>>) = Ok(v)
  <2>1. PICK texts, front, joined : /\ texts = SpecTexts(specs)
                                    /\ front = Alone(Bytes) /\ joined = Joined(texts, Alone(Comma))
    OBVIOUS
  <2>2. line = Both(Both(front, Alone(Equality)), joined)
    BY <1>1, <2>1, PrintedRange
  <2>3. /\ IsText(texts) /\ Len(texts) = Len(specs) /\ IsText(specs)
        /\ \A i \in 1..Len(texts) : Plain(texts[i])
    BY <1>1, <2>1, SpecTextsAre DEF ByteRanges
  <2>4. IsText(joined)
    BY <2>1, <2>3, AloneIs, JoinedIsText DEF Plain
  <2>5. IsText(front) /\ ToSet(front) = {Bytes} /\ Len(front) = 1 /\ Equality \notin ToSet(front)
    BY <2>1, AloneIs, MarksDiffer
  <2>6. IsCut(line, front, Equality, joined) /\ Len(line) > 0
    BY <2>2, <2>4, <2>5, TextIsCut
  <2>7. PICK parts : parts = SplitFirst(line, Equality)
    OBVIOUS
  <2>8. /\ Len(parts) = 2 /\ parts[1] = front /\ parts[2] = joined
        /\ IsText(line) /\ ToSet(line) = ToSet(front) \cup {Equality} \cup ToSet(joined)
    BY <2>6, <2>7 DEF IsCut
  <2>9. ASSUME FaithfulRange(v)
        PROVE  NewLine \notin ToSet(line) /\ ParseRange(<<line>>) = Ok(v)
    <3>1. specs # <<>> /\ \A i \in DOMAIN specs : Forward(specs[i])
      BY <1>1, <2>9, RangeIs
    <3>2. Len(texts) # 0
      BY <2>3, <3>1, NoText
    <3>3. SpecLine(joined, texts)
      BY <2>1, <2>3, <3>2, PlainLine
    <3>4. (Delimiters \ {Comma}) \cap ToSet(joined) = {} /\ CommaDelimited(<<joined>>) = Ok(texts)
      BY <3>3 DEF SpecLine
    <3>5. ASSUME NEW token \in {Blank, NewLine, NotUtf8} PROVE token \notin ToSet(line)
      <4>1. token \in Delimiters /\ token # Comma
        BY ListSeparator DEF Delimiters
      <4>2. token # Bytes /\ token # Equality
        BY MarksDiffer
      <4> QED
        BY <2>5, <2>8, <3>4, <4>1, <4>2
    <3>6. Len(line) \in Nat /\ Len(line) > 0 /\ DOMAIN line = 1..Len(line)
      BY <2>6, <2>8, TextIs
    <3>7. line[1] \in ToSet(line) /\ line[Len(line)] \in ToSet(line)
      <4>1. 1 \in DOMAIN line /\ Len(line) \in DOMAIN line
        BY <3>6
      <4> QED
        BY <4>1 DEF ToSet
    <3>8. OneRawStr(<<line>>) = Ok(line)
      <4>1. line[1] \notin {Blank, NewLine} /\ line[Len(line)] \notin {Blank, NewLine}
        BY <3>5, <3>7
      <4>2. IsUtf8(line)
        BY <3>5 DEF IsUtf8
      <4> QED
        BY <2>8, <3>6, <4>1, <4>2, LineIsOne
    <3>9. Oks(SpecReadings(CommaDelimited(<<parts[2]>>).val)) = specs
      <4>1. CommaDelimited(<<parts[2]>>).val = texts
        BY <2>8, <3>4 DEF Ok
      <4> QED
        BY <1>1, <2>1, <3>1, <4>1, SpecsAreRead
    <3>10. PICK lines, text : lines = <<line>> /\ text = OneRawStr(lines)
      OBVIOUS
    <3>11. text.ok /\ text.val = line
      BY <1>0, <3>8, <3>10
    <3>12. ParseRange(lines) = IF ~text.ok \/ Len(parts) < 2 THEN Err
                               ELSE IF parts[1] = Alone(Bytes) THEN OkIf(specs # <<>>, InBytes(specs))
                               ELSE OkIf(parts[1] # <<>> /\ parts[2] # <<>>, InUnit(parts[1], parts[2]))
      BY <2>7, <3>9, <3>10, <3>11, ReadRange
    <3>13. ParseRange(lines) = Ok(v)
      <4>1. ~(Len(parts) < 2) /\ parts[1] = Alone(Bytes)
        BY <2>1, <2>8
      <4>2. ParseRange(lines) = OkIf(specs # <<>>, InBytes(specs))
        BY <3>11, <3>12, <4>1
      <4> QED
        BY <1>1, <3>1, <4>2 DEF OkIf
    <3>14. NewLine \notin ToSet(line)
      BY <3>5
    <3> QED
      BY <3>10, <3>13, <3>14
  <2> QED
    BY <2>8, <2>9
<1>2. ASSUME NEW unit, NEW range, unit # Alone(Bytes), IsString(unit), IsString(range), v = InUnit(unit, range)
      PROVE  /\ IsText(line)
             /\ FaithfulRange(v) => NewLine \notin ToSet(line) /\ ParseRange(<<line>>) = Ok(v)
  <2>1. line = Both(Both(unit, Alone(Equality)), range)
    BY <1>2, PrintedRange
  <2>2. IsText(unit) /\ IsText(range) /\ NotUtf8 \notin ToSet(unit) /\ NotUtf8 \notin ToSet(range)
    BY <1>2 DEF IsString, IsUtf8
  <2>3. IsText(line)
    <3>1. PICK front : front = Both(unit, Alone(Equality))
      OBVIOUS
    <3>2. IsText(front)
      BY <2>2, <3>1, AloneIs, PlacesOfBoth DEF AreBoth
    <3> QED
      BY <2>1, <2>2, <3>1, <3>2, PlacesOfBoth DEF AreBoth
  <2>4. ASSUME FaithfulRange(v)
        PROVE  NewLine \notin ToSet(line) /\ ParseRange(<<line>>) = Ok(v)
    <3>1. unit # <<>> /\ range # <<>> /\ Equality \notin ToSet(unit) /\ Bare(line)
      BY <1>2, <2>1, <2>4, RangeIs
    <3>2. Trim(line) = line /\ NewLine \notin ToSet(line)
      BY <3>1 DEF Bare
    <3>3. PICK parts, specs : /\ parts = SplitFirst(line, Equality)
                              /\ specs = Oks(SpecReadings(CommaDelimited(<<parts[2]>>).val))
      OBVIOUS
    <3>4. /\ Len(parts) = 2 /\ parts[1] = unit /\ parts[2] = range
          /\ ToSet(line) = ToSet(unit) \cup {Equality} \cup ToSet(range)
          /\ Len(line) > 0
      <4>1. IsCut(line, unit, Equality, range) /\ Len(line) > 0
        BY <2>1, <2>2, <3>1, TextIsCut
      <4> QED
        BY <3>3, <4>1 DEF IsCut
    <3>5. OneRawStr(<<line>>) = Ok(line)
      <4>1. IsUtf8(line)
        BY <2>2, <3>4, MarksDiffer DEF IsUtf8
      <4> QED
        BY <2>3, <3>2, <3>4, <4>1, LineIsOne
    <3>6. PICK lines, text : lines = <<line>> /\ text = OneRawStr(lines)
      OBVIOUS
    <3>7. text.ok /\ text.val = line
      BY <1>0, <3>5, <3>6
    <3>8. ParseRange(lines) = IF ~text.ok \/ Len(parts) < 2 THEN Err
                              ELSE IF parts[1] = Alone(Bytes) THEN OkIf(specs # <<>>, InBytes(specs))
                              ELSE OkIf(parts[1] # <<>> /\ parts[2] # <<>>, InUnit(parts[1], parts[2]))
      BY <3>3, <3>6, <3>7, ReadRange
    <3>9. ParseRange(lines) = Ok(v)
      <4>1. ~(Len(parts) < 2) /\ parts[1] # Alone(Bytes)
        BY <1>2, <3>4
      <4>2. ParseRange(lines) = OkIf(parts[1] # <<>> /\ parts[2] # <<>>, InUnit(parts[1], parts[2]))
        BY <3>7, <3>8, <4>1
      <4>3. parts[1] # <<>> /\ parts[2] # <<>> /\ InUnit(parts[1], parts[2]) = v
        BY <1>2, <3>1, <3>4
      <4> QED
        BY <4>2, <4>3 DEF OkIf
    <3> QED
      BY <3>2, <3>6, <3>9
  <2> QED
    BY <2>3, <2>4
<1> QED
  BY <1>1, <1>2, RangeIs

(* What is read as a Range header is one.                                   *)
LEMMA RangeIsTyped ==
    ASSUME NEW lines, AllTexts(lines), NoLineBreak(lines),
           NEW reading, reading = ParseRange(lines), reading.ok
    PROVE  reading = Ok(reading.val) /\ IsRange(reading.val)
<1>0. ~Err.ok /\ \A test, x : OkIf(test, x).ok => test /\ OkIf(test, x) = Ok(x)
  BY DEF Err, OkIf
<1>1. \A x : Ok(x).val = x
  BY DEF Ok
<1>2. PICK text, t, parts : text = OneRawStr(lines) /\ t = text.val /\ parts = SplitFirst(t, Equality)
  OBVIOUS
<1>3. PICK rest, specs : rest = <<parts[2]>> /\ specs = Oks(SpecReadings(CommaDelimited(rest).val))
  OBVIOUS
<1>4. reading = IF ~text.ok \/ Len(parts) < 2 THEN Err
                ELSE IF parts[1] = Alone(Bytes) THEN OkIf(specs # <<>>, InBytes(specs))
                ELSE OkIf(parts[1] # <<>> /\ parts[2] # <<>>, InUnit(parts[1], parts[2]))
  <2>1. specs = Oks(SpecReadings(CommaDelimited(<<parts[2]>>).val))
    BY <1>3
  <2>2. parts = SplitFirst(text.val, Equality)
    BY <1>2
  <2> QED
    BY <1>2, <2>1, <2>2, ReadRange
<1>5. text.ok /\ ~(Len(parts) < 2)
  BY <1>0, <1>4
<1>6. IsText(t) /\ IsUtf8(t) /\ Len(lines) = 1 /\ ToSet(t) \subseteq ToSet(lines[1])
  BY <1>2, <1>5, TextOfOne
<1>7. \A k \in 1..2 : IsText(parts[k]) /\ ToSet(parts[k]) \subseteq ToSet(t)
  BY <1>2, <1>5, <1>6, PartsOfText
<1>8. IsString(parts[1]) /\ IsString(parts[2])
  BY <1>6, <1>7 DEF IsString, IsUtf8
<1>9. CASE parts[1] = Alone(Bytes)
  <2>1. reading = OkIf(specs # <<>>, InBytes(specs))
    BY <1>4, <1>5, <1>9
  <2>2. reading = Ok(InBytes(specs))
    BY <1>0, <2>1
  <2>3. IsText(rest) /\ Len(rest) = 1 /\ rest[1] = parts[2] /\ DOMAIN rest = {1}
    BY <1>3, ShortTexts, OnePlace
  <2>4. AllTexts(rest)
    BY <1>7, <2>3 DEF AllTexts
  <2>5. NewLine \notin ToSet(parts[2])
    <3>1. DOMAIN lines = 1..1
      BY <1>6, TextIs DEF AllTexts
    <3>2. NewLine \notin ToSet(lines[1])
      BY <3>1 DEF NoLineBreak
    <3> QED
      BY <1>6, <1>7, <3>2
  <2>6. NoLineBreak(rest)
    BY <2>3, <2>5 DEF NoLineBreak
  <2>7. CommaDelimited(rest).ok
    <3>1. AllUtf8(rest)
      BY <1>8, <2>3 DEF AllUtf8, IsString
    <3> QED
      BY <3>1, CommaDelimitedIs DEF OkIf, Ok
  <2>8. PICK texts : texts = CommaDelimited(rest).val
    OBVIOUS
  <2>9. IsText(texts)
    BY <2>4, <2>6, <2>7, <2>8, TextsOnLines
  <2>10. PICK results : results = SpecReadings(texts)
    OBVIOUS
  <2>11. /\ results = [i \in DOMAIN texts |-> results[i]]
         /\ \A i \in DOMAIN texts : results[i] = ParseByteRangeSpec(texts[i])
    BY <2>10 DEF SpecReadings
  <2>12. IsText(results) /\ DOMAIN results = DOMAIN texts
    BY <2>9, <2>11, ChangedText
  <2>13. specs = Oks(results)
    BY <1>3, <2>8, <2>10
  <2>14. /\ IsText(specs)
         /\ \A k \in DOMAIN specs : \E i \in DOMAIN results : results[i].ok /\ specs[k] = results[i].val
    BY <2>12, <2>13, OksAre
  <2>15. ASSUME NEW k \in DOMAIN specs PROVE IsByteRangeSpec(specs[k])
    <3>1. PICK i \in DOMAIN results : results[i].ok /\ specs[k] = results[i].val
      BY <2>14
    <3>2. results[i] = ParseByteRangeSpec(texts[i])
      BY <2>11, <2>12
    <3> QED
      BY <3>1, <3>2, ReadIsSpec
  <2>16. ByteRanges(specs)
    BY <2>14, <2>15 DEF ByteRanges
  <2> QED
    BY <1>1, <2>2, <2>16, RangeIs
<1>10. CASE parts[1] # Alone(Bytes)
  <2>1. reading = OkIf(parts[1] # <<>> /\ parts[2] # <<>>, InUnit(parts[1], parts[2]))
    BY <1>4, <1>5, <1>10
  <2>2. reading = Ok(InUnit(parts[1], parts[2]))
    BY <1>0, <2>1
  <2> QED
    BY <1>1, <1>8, <1>10, <2>2, RangeIs
<1> QED
  BY <1>9, <1>10

\* The positions and the length a Content-Range is printed with.
Unknown == "*"
Span(range) ==
    IF range = <<>> THEN Alone(Unknown) ELSE Both(Both(Numeral(range[1]), Alone(Dash)), Numeral(range[2]))
Extent(length) == IF length = <<>> THEN Alone(Unknown) ELSE Numeral(length[1])

\* A text without the marks that are around it.
Inner(t) == IsText(t) /\ Len(t) > 0 /\ {Blank, Slash, NewLine, NotUtf8} \cap ToSet(t) = {}

(* The star is such a text, and so is a plain one, which is not the star.   *)
LEMMA InnerTexts ==
    /\ Inner(Alone(Unknown))
    /\ \A t : Plain(t) => Inner(t) /\ t # Alone(Unknown)
<1>1. Unknown \notin {Blank, Slash, NewLine, NotUtf8} /\ Unknown \in Delimiters
  BY DEF Unknown, Blank, Slash, NewLine, NotUtf8, Delimiters
<1>2. /\ IsText(Alone(Unknown)) /\ Len(Alone(Unknown)) = 1 /\ ToSet(Alone(Unknown)) = {Unknown}
  BY AloneIs
<1>3. Inner(Alone(Unknown))
  BY <1>1, <1>2 DEF Inner
<1>4. {Blank, Slash, NewLine, NotUtf8} \subseteq Delimiters
  BY DEF Delimiters
<1>5. ASSUME NEW t, Plain(t) PROVE Inner(t) /\ t # Alone(Unknown)
  <2>1. IsText(t) /\ Len(t) > 0 /\ Delimiters \cap ToSet(t) = {}
    BY <1>5 DEF Plain
  <2>2. Inner(t)
    BY <1>4, <2>1 DEF Inner
  <2>3. Unknown \notin ToSet(t)
    BY <1>1, <2>1
  <2> QED
    BY <1>2, <2>2, <2>3
<1> QED
  BY <1>3, <1>5

(* Positions are printed as such a text, and can be told apart in it.       *)
LEMMA SpanIs ==
    ASSUME NEW m \in Numbers, NEW n \in Numbers, NEW span, span = Both(Both(Numeral(m), Alone(Dash)), Numeral(n)),
           NEW ends, ends = SplitFirst(span, Dash)
    PROVE  /\ Inner(span) /\ span # Alone(Unknown)
           /\ Len(ends) = 2 /\ ParseNumber(ends[1]) = Ok(m) /\ ParseNumber(ends[2]) = Ok(n)
<1>1. PICK s, t : s = Numeral(m) /\ t = Numeral(n)
  OBVIOUS
<1>2. Plain(s) /\ Dash \notin ToSet(s) /\ ParseNumber(s) = Ok(m)
  BY <1>1, NumeralIsPlain
<1>3. Plain(t) /\ ParseNumber(t) = Ok(n)
  BY <1>1, NumeralIsPlain
<1>4. IsText(s) /\ Delimiters \cap ToSet(s) = {} /\ IsText(t) /\ Delimiters \cap ToSet(t) = {}
  BY <1>2, <1>3 DEF Plain
<1>5. IsCut(span, s, Dash, t) /\ Len(span) > 0
  BY <1>1, <1>2, <1>4, TextIsCut
<1>6. /\ IsText(span) /\ ToSet(span) = ToSet(s) \cup {Dash} \cup ToSet(t)
      /\ Len(ends) = 2 /\ ends[1] = s /\ ends[2] = t
  BY <1>5 DEF IsCut
<1>7. Plain(span)
  BY <1>4, <1>5, <1>6, MarksDiffer DEF Plain
<1> QED
  BY <1>2, <1>3, <1>6, <1>7, InnerTexts

(* How the part after the unit is read.                                     *)
LEMMA ReadBytesRange ==
    ASSUME NEW t, NEW parts, parts = SplitFirst(t, Slash), NEW ends, ends = SplitFirst(parts[1], Dash),
           NEW first, first = ParseNumber(ends[1]), NEW last, last = ParseNumber(ends[2]),
           NEW length, length = ParseNumber(parts[2]),
           NEW known, known = IF parts[2] = Alone(Unknown) THEN <<>> ELSE <<length.val>>
    PROVE  ParseBytesRange(t) =
              IF Len(parts) < 2 \/ (parts[2] # Alone(Unknown) /\ ~length.ok) THEN Err
              ELSE IF parts[1] = Alone(Unknown) THEN Ok(BytesRange(<<>>, known))
              ELSE OkIf(Len(ends) = 2 /\ first.ok /\ last.ok /\ first.val <= last.val,
                        BytesRange(<<first.val, last.val>>, known))
<1>1. Alone(Unknown) = <<"*">> /\ Slash = "/" /\ Dash = "-"
  BY DEF Alone, Unknown, Slash, Dash
<1>2. /\ parts = SplitFirst(t, "/") /\ ends = SplitFirst(parts[1], "-")
      /\ known = IF parts[2] = <<"*">> THEN <<>> ELSE <<length.val>>
  BY <1>1
<1>3. ParseBytesRange(t) =
         IF Len(parts) < 2 \/ (parts[2] # <<"*">> /\ ~length.ok) THEN Err
         ELSE IF parts[1] = <<"*">> THEN Ok(BytesRange(<<>>, known))
         ELSE OkIf(Len(ends) = 2 /\ first.ok /\ last.ok /\ first.val <= last.val,
                   BytesRange(<<first.val, last.val>>, known))
  BY <1>2, Zenon DEF ParseBytesRange
<1> QED
  BY <1>1, <1>3, Zenon

\* Positions and a length a Content-Range can hold.
IsSpan(range) == range = <<>> \/ \E m, n \in Numbers : range = <<m, n>>
IsExtent(length) == length = <<>> \/ \E full \in Numbers : length = <<full>>
Onward(range) == range # <<>> => range[1] <= range[2]

(* They are printed as text without marks, and read back if they are not    *)
(* from a later to an earlier position.                                     *)
LEMMA BytesAreReadBack ==
    ASSUME NEW range, IsSpan(range), NEW length, IsExtent(length),
           NEW t, t = Both(Both(Span(range), Alone(Slash)), Extent(length))
    PROVE  /\ IsText(t) /\ Len(t) > 0 /\ {Blank, NewLine, NotUtf8} \cap ToSet(t) = {}
           /\ Onward(range) => ParseBytesRange(t) = Ok(BytesRange(range, length))
<1>0. \A x : Ok(x).ok /\ Ok(x).val = x
  BY DEF Ok
<1>1. PICK span, extent, parts, ends : /\ span = Span(range) /\ extent = Extent(length)
                                       /\ parts = SplitFirst(t, Slash) /\ ends = SplitFirst(span, Dash)
  OBVIOUS
<1>2. /\ Inner(span) /\ (range = <<>> => span = Alone(Unknown))
      /\ range # <<>> => /\ span # Alone(Unknown) /\ Len(ends) = 2
                         /\ ParseNumber(ends[1]) = Ok(range[1]) /\ ParseNumber(ends[2]) = Ok(range[2])
                         /\ range[1] \in Numbers /\ range[2] \in Numbers
                         /\ range = <<range[1], range[2]>>
  <2>1. CASE range = <<>>
    BY <1>1, <2>1, InnerTexts DEF Span
  <2>2. CASE range # <<>>
    <3>1. PICK m \in Numbers, n \in Numbers : range = <<m, n>>
      BY <2>2 DEF IsSpan
    <3>2. range[1] = m /\ range[2] = n /\ range = <<range[1], range[2]>>
      BY <3>1
    <3>3. span = Both(Both(Numeral(m), Alone(Dash)), Numeral(n))
      BY <1>1, <2>2, <3>2 DEF Span
    <3>4. /\ Inner(span) /\ span # Alone(Unknown)
          /\ Len(ends) = 2 /\ ParseNumber(ends[1]) = Ok(m) /\ ParseNumber(ends[2]) = Ok(n)
      BY <1>1, <3>3, SpanIs
    <3> HIDE DEF Numbers
    <3> QED
      BY <2>2, <3>2, <3>4
  <2> QED
    BY <2>1, <2>2
<1>3. /\ Inner(extent) /\ (length = <<>> => extent = Alone(Unknown))
      /\ length # <<>> => /\ extent # Alone(Unknown) /\ ParseNumber(extent) = Ok(length[1])
                          /\ length = <<length[1]>>
  <2>1. CASE length = <<>>
    BY <1>1, <2>1, InnerTexts DEF Extent
  <2>2. CASE length # <<>>
    <3>1. PICK full \in Numbers : length = <<full>>
      BY <2>2 DEF IsExtent
    <3>2. length[1] = full /\ length = <<length[1]>>
      BY <3>1
    <3>3. extent = Numeral(full)
      BY <1>1, <2>2, <3>2 DEF Extent
    <3>4. Plain(extent) /\ ParseNumber(extent) = Ok(full)
      BY <3>3, NumeralIsPlain
    <3> HIDE DEF Numbers
    <3> QED
      BY <2>2, <3>2, <3>4, InnerTexts
  <2> QED
    BY <2>1, <2>2
<1>4. IsText(span) /\ IsText(extent) /\ Slash \notin ToSet(span)
  BY <1>2, <1>3 DEF Inner
<1>5. IsCut(t, span, Slash, extent) /\ Len(t) > 0
  BY <1>1, <1>4, TextIsCut
<1>6. /\ IsText(t) /\ ToSet(t) = ToSet(span) \cup {Slash} \cup ToSet(extent)
      /\ Len(parts) = 2 /\ parts[1] = span /\ parts[2] = extent
  BY <1>1, <1>5 DEF IsCut
<1>7. Slash \notin {Blank, NewLine, NotUtf8}
  BY DEF Slash, Blank, NewLine, NotUtf8
<1>8. {Blank, NewLine, NotUtf8} \cap ToSet(t) = {}
  BY <1>2, <1>3, <1>6, <1>7 DEF Inner
<1>9. ASSUME Onward(range) PROVE ParseBytesRange(t) = Ok(BytesRange(range, length))
  <2>1. PICK first, last, number, known :
           /\ first = ParseNumber(ends[1]) /\ last = ParseNumber(ends[2]) /\ number = ParseNumber(parts[2])
           /\ known = IF parts[2] = Alone(Unknown) THEN <<>> ELSE <<number.val>>
    OBVIOUS
  <2>2. ends = SplitFirst(parts[1], Dash)
    BY <1>1, <1>6
  <2>3. ParseBytesRange(t) =
           IF Len(parts) < 2 \/ (parts[2] # Alone(Unknown) /\ ~number.ok) THEN Err
           ELSE IF parts[1] = Alone(Unknown) THEN Ok(BytesRange(<<>>, known))
           ELSE OkIf(Len(ends) = 2 /\ first.ok /\ last.ok /\ first.val <= last.val,
                     BytesRange(<<first.val, last.val>>, known))
    BY <1>1, <2>1, <2>2, ReadBytesRange
  <2>4. ~(Len(parts) < 2)
    BY <1>6
  <2>5. /\ parts[2] = Alone(Unknown) \/ number.ok
        /\ known = length
    <3>1. CASE length = <<>>
      BY <1>3, <1>6, <2>1, <3>1
    <3>2. CASE length # <<>>
      <4>1. number = Ok(length[1]) /\ parts[2] # Alone(Unknown)
        BY <1>3, <1>6, <2>1, <3>2
      <4>2. number.ok /\ number.val = length[1]
        BY <1>0, <4>1
      <4>3. known = <<length[1]>>
        BY <2>1, <4>1, <4>2
      <4> QED
        BY <1>3, <3>2, <4>2, <4>3
    <3> QED
      BY <3>1, <3>2
  <2>6. CASE range = <<>>
    BY <1>2, <1>6, <2>3, <2>4, <2>5, <2>6
  <2>7. CASE range # <<>>
    <3>1. first = Ok(range[1]) /\ last = Ok(range[2]) /\ Len(ends) = 2
      BY <1>2, <2>1, <2>7
    <3>2. first.ok /\ last.ok /\ first.val = range[1] /\ last.val = range[2]
      BY <1>0, <3>1
    <3>3. range[1] <= range[2]
      BY <1>9, <2>7 DEF Onward
    <3>4. <<first.val, last.val>> = range
      BY <1>2, <2>7, <3>2
    <3>5. parts[1] # Alone(Unknown)
      BY <1>2, <1>6, <2>7
    <3>6. ParseBytesRange(t) = OkIf(Len(ends) = 2 /\ first.ok /\ last.ok /\ first.val <= last.val,
                                    BytesRange(range, length))
      BY <2>3, <2>4, <2>5, <3>4, <3>5
    <3>7. Len(ends) = 2 /\ first.ok /\ last.ok /\ first.val <= last.val
      BY <3>1, <3>2, <3>3
    <3> QED
      BY <3>6, <3>7 DEF OkIf
  <2> QED
    BY <2>6, <2>7
<1> QED
  BY <1>5, <1>6, <1>8, <1>9

(* What is read after the unit are such positions and such a length.        *)
LEMMA BytesAreTyped ==
    ASSUME NEW t, NEW reading, reading = ParseBytesRange(t), reading.ok
    PROVE  \E range, length : IsSpan(range) /\ IsExtent(length) /\ reading = Ok(BytesRange(range, length))
<1>0. ~Err.ok /\ \A test, x : OkIf(test, x).ok => test /\ OkIf(test, x) = Ok(x)
  BY DEF Err, OkIf
<1>1. PICK parts : parts = SplitFirst(t, Slash)
  OBVIOUS
<1>2. PICK ends, number : ends = SplitFirst(parts[1], Dash) /\ number = ParseNumber(parts[2])
  OBVIOUS
<1>3. PICK first, last, known :
         /\ first = ParseNumber(ends[1]) /\ last = ParseNumber(ends[2])
         /\ known = IF parts[2] = Alone(Unknown) THEN <<>> ELSE <<number.val>>
  OBVIOUS
<1>4. reading =
         IF Len(parts) < 2 \/ (parts[2] # Alone(Unknown) /\ ~number.ok) THEN Err
         ELSE IF parts[1] = Alone(Unknown) THEN Ok(BytesRange(<<>>, known))
         ELSE OkIf(Len(ends) = 2 /\ first.ok /\ last.ok /\ first.val <= last.val,
                   BytesRange(<<first.val, last.val>>, known))
  BY <1>1, <1>2, <1>3, ReadBytesRange
<1>5. ~(Len(parts) < 2 \/ (parts[2] # Alone(Unknown) /\ ~number.ok))
  BY <1>0, <1>4
<1> HIDE DEF Numbers
<1>6. IsExtent(known)
  <2>1. CASE parts[2] = Alone(Unknown)
    BY <1>3, <2>1 DEF IsExtent
  <2>2. CASE parts[2] # Alone(Unknown)
    <3>1. number.val \in Numbers
      BY <1>2, <1>5, <2>2, ReadNumber
    <3>2. known = <<number.val>>
      BY <1>3, <2>2
    <3> QED
      BY <3>1, <3>2 DEF IsExtent
  <2> QED
    BY <2>1, <2>2
<1>7. CASE parts[1] = Alone(Unknown)
  <2>1. PICK range : range = <<>>
    OBVIOUS
  <2>2. IsSpan(range) /\ reading = Ok(BytesRange(range, known))
    BY <1>4, <1>5, <1>7, <2>1 DEF IsSpan
  <2> QED
    BY <1>6, <2>2
<1>8. CASE parts[1] # Alone(Unknown)
  <2>1. PICK range : range = <<first.val, last.val>>
    OBVIOUS
  <2>2. reading = OkIf(Len(ends) = 2 /\ first.ok /\ last.ok /\ first.val <= last.val, BytesRange(range, known))
    BY <1>4, <1>5, <1>8, <2>1
  <2>3. first.ok /\ last.ok /\ reading = Ok(BytesRange(range, known))
    BY <1>0, <2>2
  <2>4. first.val \in Numbers /\ last.val \in Numbers
    BY <1>3, <2>3, ReadNumber
  <2>5. IsSpan(range)
    BY <2>1, <2>4 DEF IsSpan
  <2> QED
    BY <1>6, <2>3, <2>5
<1> QED
  BY <1>7, <1>8

\* A Content-Range of another unit.
InOther(unit, resp) == [unit |-> unit, resp |-> resp]

(* How a Content-Range is printed.                                          *)
LEMMA PrintedContentRange ==
    /\ \A range, length : PrintContentRange(BytesRange(range, length))
                          = Both(Both(Alone(Bytes), Alone(Blank)), Both(Both(Span(range), Alone(Slash)), Extent(length)))
    /\ \A unit, resp : unit # Alone(Bytes)
          => PrintContentRange(InOther(unit, resp)) = Both(Both(unit, Alone(Blank)), resp)
<1>1. /\ Alone(Bytes) = <<"bytes">> /\ Alone(Blank) = <<" ">> /\ Alone(Slash) = <<"/">> /\ Alone(Dash) = <<"-">>
      /\ Alone(Unknown) = <<"*">>
  BY DEF Alone, Bytes, Blank, Slash, Dash, Unknown
<1>2. ASSUME NEW range, NEW length
      PROVE  PrintContentRange(BytesRange(range, length))
             = Both(Both(Alone(Bytes), Alone(Blank)), Both(Both(Span(range), Alone(Slash)), Extent(length)))
  <2>1. PICK c : c = BytesRange(range, length)
    OBVIOUS
  <2>2. c.unit = <<"bytes">> /\ c.range = range /\ c.length = length
    BY <2>1 DEF BytesRange
  <2>3. PICK span, extent :
           /\ span = IF range = <<>> THEN <<"*">> ELSE Numeral(range[1]) \o <<"-">> \o Numeral(range[2])
           /\ extent = IF length = <<>> THEN <<"*">> ELSE Numeral(length[1])
    OBVIOUS
  <2>4. PrintContentRange(c) = <<"bytes">> \o <<" ">> \o (span \o <<"/">> \o extent)
    BY <2>2, <2>3, Zenon DEF PrintContentRange
  <2>5. span = Span(range)
    BY <1>1, <2>3, Zenon DEF Span, Both
  <2>6. extent = Extent(length)
    BY <1>1, <2>3, Zenon DEF Extent
  <2> QED
    BY <1>1, <2>1, <2>4, <2>5, <2>6, Zenon DEF Both
<1>3. ASSUME NEW unit, NEW resp, unit # Alone(Bytes)
      PROVE  PrintContentRange(InOther(unit, resp)) = Both(Both(unit, Alone(Blank)), resp)
  <2>1. PICK c : c = InOther(unit, resp)
    OBVIOUS
  <2>2. c.unit = unit /\ c.resp = resp /\ c.unit # <<"bytes">>
    BY <1>1, <1>3, <2>1 DEF InOther
  <2>3. PrintContentRange(c) = unit \o <<" ">> \o resp
    BY <2>2, Zenon DEF PrintContentRange
  <2> QED
    BY <1>1, <2>1, <2>3, Zenon DEF Both
<1> QED
  BY <1>2, <1>3

(* How it is read.                                                          *)
LEMMA ReadContentRange ==
    ASSUME NEW lines, NEW text, text = OneRawStr(lines), NEW parts, parts = SplitFirst(text.val, Blank)
    PROVE  ParseContentRange(lines) =
              IF ~text.ok \/ Len(parts) < 2 THEN Err
              ELSE IF parts[1] = Alone(Bytes) THEN ParseBytesRange(parts[2])
              ELSE Ok(InOther(parts[1], parts[2]))
<1>1. Alone(Bytes) = <<"bytes">> /\ Blank = " "
  BY DEF Alone, Bytes, Blank
<1>2. parts = SplitFirst(text.val, " ")
  BY <1>1
<1>3. ParseContentRange(lines) =
         IF ~text.ok \/ Len(parts) < 2 THEN Err
         ELSE IF parts[1] = <<"bytes">> THEN ParseBytesRange(parts[2])
         ELSE Ok([unit |-> parts[1], resp |-> parts[2]])
  BY <1>2, Zenon DEF ParseContentRange
<1> QED
  BY <1>1, <1>3, Zenon DEF InOther

(* The two kinds of Content-Range, and which of them Faithful allows.       *)
LEMMA ContentRangeIs ==
    ASSUME NEW v
    PROVE  /\ IsContentRange(v) =>
                 \/ \E range, length : IsSpan(range) /\ IsExtent(length) /\ v = BytesRange(range, length)
                 \/ \E unit, resp : /\ unit # Alone(Bytes) /\ IsString(unit) /\ IsString(resp)
                                    /\ v = InOther(unit, resp)
           /\ \A range, length :
                 /\ IsSpan(range) /\ IsExtent(length) => IsContentRange(BytesRange(range, length))
                 /\ FaithfulContentRange(BytesRange(range, length)) <=> Onward(range)
           /\ \A unit, resp : unit # Alone(Bytes) =>
                 /\ IsString(unit) /\ IsString(resp) => IsContentRange(InOther(unit, resp))
                 /\ FaithfulContentRange(InOther(unit, resp)) =>
                       Blank \notin ToSet(unit) /\ Bare(Both(Both(unit, Alone(Blank)), resp))
<1>1. Alone(Bytes) = <<"bytes">> /\ Alone(Blank) = <<" ">> /\ Blank = " "
  BY DEF Alone, Bytes, Blank
<1>2. ASSUME IsContentRange(v), v.unit = Alone(Bytes)
      PROVE  \E range, length : IsSpan(range) /\ IsExtent(length) /\ v = BytesRange(range, length)
  <2> HIDE DEF Numbers
  <2>1. PICK m \in Numbers, n \in Numbers, full \in Numbers :
           \E range \in {<<>>, <<m, n>>}, length \in {<<>>, <<full>>} : v = BytesRange(range, length)
    BY <1>1, <1>2, Zenon DEF IsContentRange
  <2>2. PICK range \in {<<>>, <<m, n>>}, length \in {<<>>, <<full>>} : v = BytesRange(range, length)
    BY <2>1
  <2>3. IsSpan(range)
    BY <2>2 DEF IsSpan
  <2>4. IsExtent(length)
    BY <2>2 DEF IsExtent
  <2> QED
    BY <2>2, <2>3, <2>4
<1>3. ASSUME IsContentRange(v), v.unit # Alone(Bytes)
      PROVE  \E unit, resp : /\ unit # Alone(Bytes) /\ IsString(unit) /\ IsString(resp)
                             /\ v = InOther(unit, resp)
  <2>1. PICK unit, resp : unit = v.unit /\ resp = v.resp
    OBVIOUS
  <2>2. v = [unit |-> unit, resp |-> resp] /\ IsString(unit) /\ IsString(resp)
    BY <1>1, <1>3, <2>1, Zenon DEF IsContentRange
  <2>3. v = InOther(unit, resp)
    BY <2>2 DEF InOther
  <2> QED
    BY <1>3, <2>1, <2>2, <2>3
<1>4. ASSUME NEW range, NEW length
      PROVE  /\ IsSpan(range) /\ IsExtent(length) => IsContentRange(BytesRange(range, length))
             /\ FaithfulContentRange(BytesRange(range, length)) <=> Onward(range)
  <2>1. PICK c : c = BytesRange(range, length)
    OBVIOUS
  <2>2. c.unit = <<"bytes">> /\ c.range = range
    BY <2>1 DEF BytesRange
  <2>3. FaithfulContentRange(c) <=> Onward(range)
    BY <2>2 DEF FaithfulContentRange, Onward
  <2>4. 0 \in Numbers
    BY DEF Numbers
  <2> HIDE DEF Numbers
  <2>5. ASSUME IsSpan(range), IsExtent(length) PROVE IsContentRange(c)
    <3>1. PICK m \in Numbers, n \in Numbers : range \in {<<>>, <<m, n>>}
      BY <2>4, <2>5 DEF IsSpan
    <3>2. PICK full \in Numbers : length \in {<<>>, <<full>>}
      BY <2>4, <2>5 DEF IsExtent
    <3> QED
      BY <2>1, <2>2, <3>1, <3>2, Zenon DEF IsContentRange
  <2> QED
    BY <2>1, <2>3, <2>5
<1>5. ASSUME NEW unit, NEW resp, unit # Alone(Bytes)
      PROVE  /\ IsString(unit) /\ IsString(resp) => IsContentRange(InOther(unit, resp))
             /\ FaithfulContentRange(InOther(unit, resp)) =>
                   Blank \notin ToSet(unit) /\ Bare(Both(Both(unit, Alone(Blank)), resp))
  <2>1. PICK c : c = InOther(unit, resp)
    OBVIOUS
  <2>2. c.unit = unit /\ c.resp = resp /\ unit # <<"bytes">>
    BY <1>1, <1>5, <2>1 DEF InOther
  <2>3. c = [unit |-> c.unit, resp |-> c.resp]
    BY <2>1, <2>2 DEF InOther
  <2>4. IsString(unit) /\ IsString(resp) => IsContentRange(c)
    BY <2>2, <2>3, Zenon DEF IsContentRange
  <2>5. ASSUME FaithfulContentRange(c)
        PROVE  Blank \notin ToSet(unit) /\ Bare(Both(Both(unit, Alone(Blank)), resp))
    <3>1. " " \notin ToSet(unit) /\ Bare(unit \o <<" ">> \o resp)
      BY <2>2, <2>5, Zenon DEF FaithfulContentRange
    <3>2. Both(Both(unit, Alone(Blank)), resp) = unit \o <<" ">> \o resp
      BY <1>1, Zenon DEF Both
    <3> QED
      BY <1>1, <3>1, <3>2, Zenon
  <2> QED
    BY <2>1, <2>4, <2>5
<1> QED
  BY <1>2, <1>3, <1>4, <1>5

(* What is printed of a Content-Range is text, and read as that             *)
(* Content-Range if Faithful allows it.                                     *)
LEMMA ContentRangeIsReadBack ==
    ASSUME NEW v, IsContentRange(v), NEW line, line = PrintContentRange(v)
    PROVE  /\ IsText(line)
           /\ FaithfulContentRange(v) => NewLine \notin ToSet(line) /\ ParseContentRange(<<line>>) = Ok(v)
<1>0. Ok(line).ok /\ Ok(line).val = line
  BY DEF Ok
<1>1. ASSUME NEW range, NEW length, IsSpan(range), IsExtent(length), v = BytesRange(range, length)
      PROVE  /\ IsText(line)
             /\ FaithfulContentRange(v) => NewLine \notin ToSet(line) /\ ParseContentRange(<<line>>) = Ok(v)
  <2>1. PICK front, rest : /\ front = Alone(Bytes)
                           /\ rest = Both(Both(Span(range), Alone(Slash)), Extent(length))
    OBVIOUS
  <2>2. line = Both(Both(front, Alone(Blank)), rest)
    BY <1>1, <2>1, PrintedContentRange
  <2>3. /\ IsText(rest) /\ Len(rest) > 0 /\ {Blank, NewLine, NotUtf8} \cap ToSet(rest) = {}
        /\ Onward(range) => ParseBytesRange(rest) = Ok(BytesRange(range, length))
    BY <1>1, <2>1, BytesAreReadBack
  <2>4. IsText(front) /\ ToSet(front) = {Bytes} /\ Len(front) = 1 /\ front[1] = Bytes
    BY <2>1, AloneIs
  <2>5. Bytes \notin {Blank, NewLine, NotUtf8} /\ Blank \notin {NewLine, NotUtf8}
    BY MarksDiffer, ListSeparator
  <2>6. Blank \notin ToSet(front)
    BY <2>4, <2>5
  <2>7. IsCut(line, front, Blank, rest) /\ Len(line) > 0
    BY <2>2, <2>3, <2>4, <2>6, TextIsCut
  <2>8. PICK parts : parts = SplitFirst(line, Blank)
    OBVIOUS
  <2>9. /\ Len(parts) = 2 /\ parts[1] = front /\ parts[2] = rest
        /\ IsText(line) /\ ToSet(line) = ToSet(front) \cup {Blank} \cup ToSet(rest)
    BY <2>7, <2>8 DEF IsCut
  <2>10. {NewLine, NotUtf8} \cap ToSet(line) = {}
    BY <2>3, <2>4, <2>5, <2>9
  <2>11. line[1] = Bytes
    <3>1. PICK u : u = Both(front, Alone(Blank))
      OBVIOUS
    <3>2. AreBoth(u, front, Alone(Blank))
      BY <2>4, <3>1, AloneIs, PlacesOfBoth
    <3>3. \A i \in 1..Len(front) : u[i] = front[i]
      BY <3>2 DEF AreBoth
    <3>4. u[1] = Bytes
      BY <2>4, <3>3
    <3>5. line[1] = Both(front, Alone(Blank))[1]
      BY <2>2, <2>3, <2>4, <2>6, CutInTwo
    <3> QED
      BY <3>1, <3>4, <3>5
  <2>12. line[Len(line)] \notin {Blank, NewLine}
    <3>1. line[Len(line)] = rest[Len(rest)]
      <4>1. IsText(rest) /\ Len(rest) > 0
        BY <2>3
      <4>2. IsText(front) /\ Blank \notin ToSet(front)
        BY <2>4, <2>6
      <4>3. Len(rest) > 0 => line[Len(line)] = rest[Len(rest)]
        BY <2>2, <4>1, <4>2, CutInTwo
      <4> QED
        BY <4>1, <4>3
    <3>2. Len(rest) \in DOMAIN rest
      BY <2>3, TextIs
    <3>3. rest[Len(rest)] \in ToSet(rest)
      BY <3>2 DEF ToSet
    <3> QED
      BY <2>3, <3>1, <3>3
  <2>13. OneRawStr(<<line>>) = Ok(line)
    <3>1. IsUtf8(line)
      BY <2>10 DEF IsUtf8
    <3>2. line[1] \notin {Blank, NewLine}
      BY <2>5, <2>11
    <3> QED
      BY <2>7, <2>9, <2>12, <3>1, <3>2, LineIsOne
  <2>14. ASSUME FaithfulContentRange(v) PROVE ParseContentRange(<<line>>) = Ok(v)
    <3>1. Onward(range)
      BY <1>1, <2>14, ContentRangeIs
    <3>2. PICK lines, text : lines = <<line>> /\ text = OneRawStr(lines)
      OBVIOUS
    <3>3. text.ok /\ text.val = line
      BY <1>0, <2>13, <3>2
    <3>4. ParseContentRange(lines) = IF ~text.ok \/ Len(parts) < 2 THEN Err
                                     ELSE IF parts[1] = Alone(Bytes) THEN ParseBytesRange(parts[2])
                                     ELSE Ok(InOther(parts[1], parts[2]))
      BY <2>8, <3>2, <3>3, ReadContentRange
    <3>5. ~(Len(parts) < 2) /\ parts[1] = Alone(Bytes)
      BY <2>1, <2>9
    <3>6. ParseContentRange(lines) = ParseBytesRange(rest)
      BY <2>9, <3>3, <3>4, <3>5
    <3> QED
      BY <1>1, <2>3, <3>1, <3>2, <3>6
  <2>15. NewLine \notin ToSet(line)
    BY <2>10
  <2> QED
    BY <2>9, <2>14, <2>15
<1>2. ASSUME NEW unit, NEW resp, unit # Alone(Bytes), IsString(unit), IsString(resp), v = InOther(unit, resp)
      PROVE  /\ IsText(line)
             /\ FaithfulContentRange(v) => NewLine \notin ToSet(line) /\ ParseContentRange(<<line>>) = Ok(v)
  <2>1. line = Both(Both(unit, Alone(Blank)), resp)
    BY <1>2, PrintedContentRange
  <2>2. IsText(unit) /\ IsText(resp) /\ NotUtf8 \notin ToSet(unit) /\ NotUtf8 \notin ToSet(resp)
    BY <1>2 DEF IsString, IsUtf8
  <2>3. IsText(line)
    <3>1. PICK front : front = Both(unit, Alone(Blank))
      OBVIOUS
    <3>2. IsText(front)
      BY <2>2, <3>1, AloneIs, PlacesOfBoth DEF AreBoth
    <3> QED
      BY <2>1, <2>2, <3>1, <3>2, PlacesOfBoth DEF AreBoth
  <2>4. ASSUME FaithfulContentRange(v)
        PROVE  NewLine \notin ToSet(line) /\ ParseContentRange(<<line>>) = Ok(v)
    <3>1. Blank \notin ToSet(unit) /\ Bare(line)
      BY <1>2, <2>1, <2>4, ContentRangeIs
    <3>2. Trim(line) = line /\ NewLine \notin ToSet(line)
      BY <3>1 DEF Bare
    <3>3. PICK parts : parts = SplitFirst(line, Blank)
      OBVIOUS
    <3>4. /\ Len(parts) = 2 /\ parts[1] = unit /\ parts[2] = resp
          /\ ToSet(line) = ToSet(unit) \cup {Blank} \cup ToSet(resp)
          /\ Len(line) > 0
      <4>1. IsCut(line, unit, Blank, resp) /\ Len(line) > 0
        BY <2>1, <2>2, <3>1, TextIsCut
      <4> QED
        BY <3>3, <4>1 DEF IsCut
    <3>5. OneRawStr(<<line>>) = Ok(line)
      <4>1. IsUtf8(line)
        BY <2>2, <3>4, ListSeparator DEF IsUtf8
      <4> QED
        BY <2>3, <3>2, <3>4, <4>1, LineIsOne
    <3>6. PICK lines, text : lines = <<line>> /\ text = OneRawStr(lines)
      OBVIOUS
    <3>7. text.ok /\ text.val = line
      BY <1>0, <3>5, <3>6
    <3>8. ParseContentRange(lines) = IF ~text.ok \/ Len(parts) < 2 THEN Err
                                     ELSE IF parts[1] = Alone(Bytes) THEN ParseBytesRange(parts[2])
                                     ELSE Ok(InOther(parts[1], parts[2]))
      BY <3>3, <3>6, <3>7, ReadContentRange
    <3>9. ParseContentRange(lines) = Ok(v)
      <4>1. ~(Len(parts) < 2) /\ parts[1] # Alone(Bytes) /\ InOther(parts[1], parts[2]) = v
        BY <1>2, <3>4
      <4> QED
        BY <3>7, <3>8, <4>1
    <3> QED
      BY <3>2, <3>6, <3>9
  <2> QED
    BY <2>3, <2>4
<1> QED
  BY <1>1, <1>2, ContentRangeIs

(* What is read as a Content-Range header is one.                           *)
LEMMA ContentRangeIsTyped ==
    ASSUME NEW lines, AllTexts(lines), NEW reading, reading = ParseContentRange(lines), reading.ok
    PROVE  reading = Ok(reading.val) /\ IsContentRange(reading.val)
<1>0. ~Err.ok /\ \A x : Ok(x).val = x
  BY DEF Err, Ok
<1>1. PICK text, t, parts : text = OneRawStr(lines) /\ t = text.val /\ parts = SplitFirst(t, Blank)
  OBVIOUS
<1>2. reading = IF ~text.ok \/ Len(parts) < 2 THEN Err
                ELSE IF parts[1] = Alone(Bytes) THEN ParseBytesRange(parts[2])
                ELSE Ok(InOther(parts[1], parts[2]))
  BY <1>1, ReadContentRange
<1>3. text.ok /\ ~(Len(parts) < 2)
  BY <1>0, <1>2
<1>4. IsText(t) /\ IsUtf8(t)
  BY <1>1, <1>3, TextOfOne
<1>5. \A k \in 1..2 : IsText(parts[k]) /\ ToSet(parts[k]) \subseteq ToSet(t)
  BY <1>1, <1>3, <1>4, PartsOfText
<1>6. IsString(parts[1]) /\ IsString(parts[2])
  BY <1>4, <1>5 DEF IsString, IsUtf8
<1>7. CASE parts[1] = Alone(Bytes)
  <2>1. reading = ParseBytesRange(parts[2])
    BY <1>2, <1>3, <1>7
  <2>2. PICK range, length : IsSpan(range) /\ IsExtent(length) /\ reading = Ok(BytesRange(range, length))
    BY <2>1, BytesAreTyped
  <2> QED
    BY <1>0, <2>2, ContentRangeIs
<1>8. CASE parts[1] # Alone(Bytes)
  <2>1. reading = Ok(InOther(parts[1], parts[2]))
    BY <1>2, <1>3, <1>8
  <2> QED
    BY <1>0, <1>6, <1>8, <2>1, ContentRangeIs
<1> QED
  BY <1>7, <1>8

(* What a server names of a representation is positions a Content-Range can *)
(* hold, in their order, and is what was asked for.                         *)
LEMMA SatisfiableIsSpan ==
    ASSUME NEW spec, IsByteRangeSpec(spec), NEW full \in FullLengths,
           NEW range, range = ToSatisfiableRange(spec, full)
    PROVE  /\ IsSpan(range) /\ Onward(range) /\ full \in Numbers
           /\ (IF range = <<>> THEN {} ELSE range[1]..range[2]) = {p \in 0..(full - 1) : Wanted(spec, p, full)}
<1>1. full \in Nat /\ 0..full \subseteq Numbers
  BY LengthsAssumption
<1>2. Numbers \subseteq Nat
  BY DEF Numbers
<1> HIDE DEF Numbers
<1>3. PICK m \in Numbers, n \in Numbers : spec \in {FromTo(m, n), AllFrom(m), LastBytes(m)}
  BY DEF IsByteRangeSpec
<1>4. m \in Nat /\ n \in Nat
  BY <1>2
<1>5. spec \in ByteRangeSpecs
  BY <1>3, <1>4 DEF ByteRangeSpecs
<1>6. /\ (IF range = <<>> THEN {} ELSE range[1]..range[2]) = {p \in 0..(full - 1) : Wanted(spec, p, full)}
      /\ range # <<>> => 0 <= range[1] /\ range[1] <= range[2] /\ range[2] < full
  BY <1>1, <1>5, SatisfiableIsWanted
<1>7. range = <<>> \/ \E a, b \in Nat : range = <<a, b>>
  <2>1. CASE full = 0
    BY <2>1 DEF ToSatisfiableRange
  <2>2. CASE full # 0 /\ spec = FromTo(m, n)
    <3>1. PICK b : b = IF n < full - 1 THEN n ELSE full - 1
      OBVIOUS
    <3>2. b \in Nat
      BY <1>1, <1>4, <2>2, <3>1
    <3>3. range = IF m < full /\ m <= n THEN <<m, b>> ELSE <<>>
      BY <2>2, <3>1 DEF ToSatisfiableRange, FromTo
    <3> QED
      BY <1>4, <3>2, <3>3
  <2>3. CASE full # 0 /\ spec = AllFrom(m)
    <3>1. range = IF m < full THEN <<m, full - 1>> ELSE <<>>
      BY <2>3 DEF ToSatisfiableRange, AllFrom
    <3>2. full - 1 \in Nat
      BY <1>1, <2>3
    <3> QED
      BY <1>4, <3>1, <3>2
  <2>4. CASE full # 0 /\ spec = LastBytes(m)
    <3>1. range = IF m = 0 THEN <<>> ELSE IF m > full THEN <<0, full - 1>> ELSE <<full - m, full - 1>>
      BY <2>4 DEF ToSatisfiableRange, LastBytes
    <3>2. full - 1 \in Nat /\ (~(m > full) => full - m \in Nat)
      BY <1>1, <1>4, <2>4
    <3> QED
      BY <3>1, <3>2
  <2> QED
    BY <1>3, <2>1, <2>2, <2>3, <2>4
<1>8. Onward(range)
  BY <1>6 DEF Onward
<1>9. IsSpan(range)
  <2>1. CASE range = <<>>
    BY <2>1 DEF IsSpan
  <2>2. CASE range # <<>>
    <3>1. PICK a \in Nat, b \in Nat : range = <<a, b>>
      BY <1>7, <2>2
    <3>2. range[1] = a /\ range[2] = b
      BY <3>1
    <3>3. a <= b /\ b < full
      BY <1>6, <2>2, <3>2
    <3>4. a \in 0..full /\ b \in 0..full
      BY <1>1, <3>3
    <3> QED
      BY <1>1, <3>1, <3>4 DEF IsSpan
  <2> QED
    BY <2>1, <2>2
<1>10. full \in Numbers
  <2>1. full \in 0..full
    BY <1>1
  <2> QED
    BY <1>1, <2>1
<1> QED
  BY <1>6, <1>8, <1>9, <1>10

-----------------------------------------------------------------------------
(* Headers of one text, one number or one word.                            *)

\* The headers whose line is the value's text as it is, with a scheme before it, and the others.
AsItIs == {"Access-Control-Allow-Origin", "Authorization<String>", "ProxyAuthorization<String>"}
AfterScheme == {"Authorization<Bearer>", "ProxyAuthorization<Bearer>"}
OneWord == {"Expect", "Access-Control-Allow-Credentials"}
PlainHeaders == AsItIs \cup AfterScheme \cup OneWord \cup {"Last-Event-ID", "Pragma", "Content-Length"}

\* The words of the headers of one word.
WordOf(name) == IF name = "Expect" THEN "100-continue" ELSE "true"

(* They are neither the macros' headers nor those of the other lemmas.      *)
LEMMA PlainNames ==
    /\ PlainHeaders \cap DOMAIN MacroHeaders = {} /\ PlainHeaders \cap Combined = {}
    /\ \A name \in PlainHeaders :
          name \notin {"Set-Cookie", "Cookie", "Preference-Applied", "Range", "Content-Range"}
    /\ OneText \subseteq PlainHeaders
<1>1. PlainHeaders \cap DOMAIN MacroHeaders = {}
  BY DEF PlainHeaders, AsItIs, AfterScheme, OneWord, MacroHeaders, Table
<1>2. \A name \in PlainHeaders :
         name \notin {"Set-Cookie", "Cookie", "Preference-Applied", "Range", "Content-Range",
                      "Cache-Control", "Prefer", "Link", "Referrer-Policy"}
  BY DEF PlainHeaders, AsItIs, AfterScheme, OneWord
<1>3. PlainHeaders \cap Combined = {}
  BY <1>1, <1>2 DEF Combined
<1>4. OneText \subseteq PlainHeaders
  BY DEF OneText, PlainHeaders, AsItIs, AfterScheme, OneWord
<1> QED
  BY <1>1, <1>2, <1>3, <1>4

(* The schemes of the headers of credentials.                               *)
LEMMA SchemesAre ==
    /\ DOMAIN Schemes = {"Authorization<String>", "Authorization<Basic>", "Authorization<Bearer>"}
    /\ DOMAIN ProxySchemes = {"ProxyAuthorization<String>", "ProxyAuthorization<Basic>", "ProxyAuthorization<Bearer>"}
    /\ Schemes["Authorization<String>"] = "String" /\ Schemes["Authorization<Bearer>"] = "Bearer"
    /\ ProxySchemes["ProxyAuthorization<String>"] = "String" /\ ProxySchemes["ProxyAuthorization<Bearer>"] = "Bearer"
<1>1. PICK rows : rows = {<<"Authorization<String>", "String">>, <<"Authorization<Basic>", "Basic">>,
                          <<"Authorization<Bearer>", "Bearer">>}
  OBVIOUS
<1>2. Schemes = Table(rows)
  BY <1>1 DEF Schemes
<1>3. DOMAIN Schemes = {"Authorization<String>", "Authorization<Basic>", "Authorization<Bearer>"}
  BY <1>1, <1>2 DEF Table
<1>4. \A row \in rows : \A r \in rows : r[1] = row[1] => r = row
  BY <1>1
<1>5. Schemes["Authorization<String>"] = "String" /\ Schemes["Authorization<Bearer>"] = "Bearer"
  <2>1. PICK row \in rows : row[1] = "Authorization<String>" /\ row[2] = "String"
    BY <1>1
  <2>2. PICK other \in rows : other[1] = "Authorization<Bearer>" /\ other[2] = "Bearer"
    BY <1>1
  <2>3. Schemes[row[1]] = row[2] /\ Schemes[other[1]] = other[2]
    BY <1>2, <1>4, TableIs
  <2> QED
    BY <2>1, <2>2, <2>3
<1>6. PICK more : more = {<<"ProxyAuthorization<String>", "String">>, <<"ProxyAuthorization<Basic>", "Basic">>,
                          <<"ProxyAuthorization<Bearer>", "Bearer">>}
  OBVIOUS
<1>7. ProxySchemes = Table(more)
  BY <1>6 DEF ProxySchemes
<1>8. DOMAIN ProxySchemes = {"ProxyAuthorization<String>", "ProxyAuthorization<Basic>", "ProxyAuthorization<Bearer>"}
  BY <1>6, <1>7 DEF Table
<1>9. \A row \in more : \A r \in more : r[1] = row[1] => r = row
  BY <1>6
<1>10. /\ ProxySchemes["ProxyAuthorization<String>"] = "String"
       /\ ProxySchemes["ProxyAuthorization<Bearer>"] = "Bearer"
  <2>1. PICK row \in more : row[1] = "ProxyAuthorization<String>" /\ row[2] = "String"
    BY <1>6
  <2>2. PICK other \in more : other[1] = "ProxyAuthorization<Bearer>" /\ other[2] = "Bearer"
    BY <1>6
  <2>3. ProxySchemes[row[1]] = row[2] /\ ProxySchemes[other[1]] = other[2]
    BY <1>7, <1>9, TableIs
  <2> QED
    BY <2>1, <2>2, <2>3
<1> QED
  BY <1>3, <1>5, <1>8, <1>10

(* How each of them is printed and read, and what Faithful admits.          *)
LEMMA PlainDispatch ==
    ASSUME NEW name \in PlainHeaders, NEW v, NEW lines
    PROVE  /\ name \in AsItIs =>
                 /\ PrintedText(name, v) = v /\ ParseHeader(name, lines) = OneLine(lines)
                 /\ HasType(name, v) <=> IsString(v)
                 /\ Faithful(name, v) <=> NewLine \notin ToSet(v)
           /\ name \in AfterScheme =>
                 /\ PrintedText(name, v) = <<"Bearer", " ">> \o v
                 /\ ParseHeader(name, lines) = ParseAuthorization("Bearer", lines)
                 /\ HasType(name, v) <=> IsString(v)
                 /\ Faithful(name, v) <=> v # <<>> /\ NewLine \notin ToSet(v)
           /\ name \in OneWord =>
                 /\ PrintedText(name, v) = v /\ ParseHeader(name, lines) = Word(lines, <<WordOf(name)>>)
                 /\ HasType(name, v) <=> v = <<WordOf(name)>>
           /\ name = "Last-Event-ID" =>
                 /\ PrintedText(name, v) = v /\ ParseHeader(name, lines) = ParseLastEventId(lines)
                 /\ HasType(name, v) <=> IsString(v)
                 /\ Faithful(name, v) <=> v = <<>> \/ Bare(v)
           /\ name = "Pragma" =>
                 /\ PrintedText(name, v) = v /\ ParseHeader(name, lines) = ParsePragma(lines)
                 /\ HasType(name, v) <=> IsString(v)
                 /\ Faithful(name, v) <=> Bare(v) /\ (Lower(v) = <<"no-cache">> => v = Lower(v))
           /\ name = "Content-Length" =>
                 /\ PrintedText(name, v) = Numeral(v) /\ ParseHeader(name, lines) = ParseContentLength(lines)
                 /\ HasType(name, v) <=> v \in Numbers
           /\ PrintHeader(name, v) = <<NewlineReplaced(PrintedText(name, v))>>
<1> HIDE DEF Numbers
<1>1. name \notin DOMAIN MacroHeaders /\ name \notin {"Set-Cookie", "Cookie", "Preference-Applied", "Range", "Content-Range"}
  BY PlainNames
<1>2. CASE name \in AsItIs
  <2>1. /\ name \notin AfterScheme /\ name \notin OneWord
        /\ name \notin {"Last-Event-ID", "Pragma", "Content-Length"} /\ name \in OneText
    BY <1>2 DEF AsItIs, AfterScheme, OneWord, OneText
  <2>2. PrintedText(name, v) = v
    BY <1>1, <1>2, SchemesAre DEF PrintedText, AsItIs, PrintAuthorization, PrintProxyAuthorization
  <2>3. PICK line : line = OneLine(lines)
    OBVIOUS
  <2>4. ~line.ok => line = Err
    BY <2>3 DEF OneLine, OkIf, Ok, Err
  <2>5. ParseAuthorization("String", lines) = line
    BY <2>3, <2>4 DEF ParseAuthorization
  <2>6. ParseHeader(name, lines) = line
    BY <1>1, <1>2, <2>3, <2>5, SchemesAre DEF ParseHeader, AsItIs, ParseProxyAuthorization, ParseAllowOrigin
  <2>7. HasType(name, v) <=> IsString(v)
    BY <1>1, <1>2, <2>1 DEF HasType, AsItIs
  <2>8. Faithful(name, v) <=> NewLine \notin ToSet(v)
    BY <1>1, <1>2 DEF Faithful, AsItIs
  <2>9. PrintHeader(name, v) = <<NewlineReplaced(PrintedText(name, v))>>
    BY <1>1 DEF PrintHeader
  <2> QED
    BY <1>2, <2>1, <2>2, <2>3, <2>6, <2>7, <2>8, <2>9
<1>3. CASE name \in AfterScheme
  <2>1. /\ name \notin AsItIs /\ name \notin OneWord
        /\ name \notin {"Last-Event-ID", "Pragma", "Content-Length"} /\ name \in OneText
    BY <1>3 DEF AsItIs, AfterScheme, OneWord, OneText
  <2>2. PrintedText(name, v) = <<"Bearer", " ">> \o v
    BY <1>1, <1>3, SchemesAre DEF PrintedText, AfterScheme, PrintAuthorization, PrintProxyAuthorization
  <2>3. ParseHeader(name, lines) = ParseAuthorization("Bearer", lines)
    BY <1>1, <1>3, SchemesAre DEF ParseHeader, AfterScheme, ParseProxyAuthorization
  <2>4. HasType(name, v) <=> IsString(v)
    BY <1>1, <1>3, <2>1 DEF HasType, AfterScheme
  <2>5. Faithful(name, v) <=> v # <<>> /\ NewLine \notin ToSet(v)
    BY <1>1, <1>3 DEF Faithful, AfterScheme
  <2>6. PrintHeader(name, v) = <<NewlineReplaced(PrintedText(name, v))>>
    BY <1>1 DEF PrintHeader
  <2> QED
    BY <1>3, <2>1, <2>2, <2>3, <2>4, <2>5, <2>6
<1>4. CASE name \in OneWord
  <2>1. /\ name \notin AsItIs /\ name \notin AfterScheme
        /\ name \notin {"Last-Event-ID", "Pragma", "Content-Length"} /\ name \notin OneText
    BY <1>4 DEF AsItIs, AfterScheme, OneWord, OneText
  <2>2. PrintedText(name, v) = v
    BY <1>1, <1>4, SchemesAre DEF PrintedText, OneWord
  <2>3. ParseHeader(name, lines) = Word(lines, <<WordOf(name)>>)
    BY <1>1, <1>4, SchemesAre DEF ParseHeader, OneWord, WordOf, ParseExpect, ParseAllowCredentials
  <2>4. HasType(name, v) <=> v = <<WordOf(name)>>
    BY <1>1, <1>4, <2>1 DEF HasType, OneWord, WordOf
  <2>5. PrintHeader(name, v) = <<NewlineReplaced(PrintedText(name, v))>>
    BY <1>1 DEF PrintHeader
  <2> QED
    BY <1>4, <2>1, <2>2, <2>3, <2>4, <2>5
<1>5. CASE name \in {"Last-Event-ID", "Pragma", "Content-Length"}
  <2>1. /\ name \notin AsItIs /\ name \notin AfterScheme /\ name \notin OneWord
        /\ name \notin DOMAIN Schemes /\ name \notin DOMAIN ProxySchemes
    BY <1>5, SchemesAre DEF AsItIs, AfterScheme, OneWord
  <2>2. name \in {"Last-Event-ID", "Pragma"} => PrintedText(name, v) = v
    BY <1>1, <2>1 DEF PrintedText
  <2>3. name = "Content-Length" => PrintedText(name, v) = Numeral(v)
    BY <1>1, <2>1 DEF PrintedText
  <2>4. name = "Last-Event-ID" => ParseHeader(name, lines) = ParseLastEventId(lines)
    BY <1>1, <2>1 DEF ParseHeader
  <2>5. name = "Pragma" => ParseHeader(name, lines) = ParsePragma(lines)
    BY <1>1, <2>1 DEF ParseHeader
  <2>6. name = "Content-Length" => ParseHeader(name, lines) = ParseContentLength(lines)
    BY <1>1, <2>1 DEF ParseHeader
  <2>7. /\ name \in {"Last-Event-ID", "Pragma"} => (HasType(name, v) <=> IsString(v))
        /\ name = "Content-Length" => (HasType(name, v) <=> v \in Numbers)
    BY <1>1, <2>1 DEF HasType, OneText
  <2>8. name = "Last-Event-ID" => (Faithful(name, v) <=> v = <<>> \/ Bare(v))
    BY <1>1 DEF Faithful
  <2>9. name = "Pragma" => (Faithful(name, v) <=> Bare(v) /\ (Lower(v) = <<"no-cache">> => v = Lower(v)))
    BY <1>1 DEF Faithful
  <2>10. PrintHeader(name, v) = <<NewlineReplaced(PrintedText(name, v))>>
    BY <1>1 DEF PrintHeader
  <2> QED
    BY <1>5, <2>1, <2>2, <2>3, <2>4, <2>5, <2>6, <2>7, <2>8, <2>9, <2>10
<1> QED
  BY <1>2, <1>3, <1>4, <1>5 DEF PlainHeaders

(* The words of the headers of one word are in lower case.                  *)
LEMMA WordIsLower ==
    ASSUME NEW name \in OneWord, NEW word, word = WordOf(name)
    PROVE  Lower(Alone(word)) = Alone(word) /\ word \notin {NewLine, NotUtf8}
<1>1. word \in {"100-continue", "true"}
  BY DEF WordOf
<1>2. word \notin DOMAIN LowerOf
  BY <1>1 DEF LowerOf, Table
<1>3. PICK t : t = Alone(word)
  OBVIOUS
<1>4. DOMAIN t = {1} /\ t[1] = word /\ t = [i \in {1} |-> word]
  BY <1>3 DEF Alone
<1>5. Lower(t) = [i \in {1} |-> word]
  BY <1>2, <1>4 DEF Lower, Cased
<1>6. word \notin {NewLine, NotUtf8}
  BY <1>1 DEF NewLine, NotUtf8
<1> QED
  BY <1>3, <1>4, <1>5, <1>6

\* A text that is two tokens, and then another.
IsAfterTwo(line, a, b, v) ==
    /\ IsText(line) /\ Len(line) = 2 + Len(v) /\ line[1] = a
    /\ SubSeq(line, 3, Len(line)) = v /\ ToSet(line) = {a, b} \cup ToSet(v)

(* What follows two tokens.                                                 *)
LEMMA AfterTwo ==
    ASSUME NEW a, NEW b, NEW v, IsText(v), NEW line, line = Both(Both(Alone(a), Alone(b)), v)
    PROVE  IsAfterTwo(line, a, b, v)
<1>1. PICK first, second, two : first = Alone(a) /\ second = Alone(b) /\ two = Both(first, second)
  OBVIOUS
<1>2. /\ IsText(first) /\ Len(first) = 1 /\ first[1] = a /\ ToSet(first) = {a}
      /\ IsText(second) /\ Len(second) = 1 /\ ToSet(second) = {b}
  BY <1>1, AloneIs
<1>3. 1 \in 1..1 /\ 1 \in 1..2 /\ 1 + 1 = 2
  OBVIOUS
<1>4. IsText(two) /\ Len(two) = 2 /\ two[1] = a /\ ToSet(two) = {a, b}
  <2>1. AreBoth(two, first, second)
    BY <1>1, <1>2, PlacesOfBoth
  <2>2. two[1] = a
    BY <1>2, <1>3, <2>1 DEF AreBoth
  <2>3. Len(two) = 2
    BY <1>2, <1>3, <2>1 DEF AreBoth
  <2>4. ToSet(two) = {a, b}
    BY <1>2, <2>1 DEF AreBoth
  <2> QED
    BY <2>1, <2>2, <2>3, <2>4 DEF AreBoth
<1>5. AreBoth(line, two, v)
  BY <1>1, <1>4, PlacesOfBoth
<1>6. IsText(line) /\ Len(line) = 2 + Len(v) /\ ToSet(line) = {a, b} \cup ToSet(v)
  BY <1>4, <1>5 DEF AreBoth
<1>7. line[1] = a
  BY <1>3, <1>4, <1>5 DEF AreBoth
<1>8. SubSeq(line, 3, Len(line)) = v
  <2>1. PICK from \in Nat : from = 2
    OBVIOUS
  <2>2. \A i \in 1..Len(v) : line[from + i] = v[i]
    BY <1>4, <1>5, <2>1 DEF AreBoth
  <2>3. SubSeq(line, from + 1, from + Len(v)) = v
    BY <2>2, PieceIs
  <2>4. from + 1 = 3 /\ from + Len(v) = Len(line)
    BY <1>6, <2>1
  <2> QED
    BY <2>3, <2>4
<1> QED
  BY <1>6, <1>7, <1>8, Zenon DEF IsAfterTwo

(* What follows the scheme.                                                 *)
LEMMA AfterSchemeIs ==
    ASSUME NEW v, IsText(v), NEW line, line = <<"Bearer", " ">> \o v
    PROVE  /\ IsText(line) /\ Len(line) = 2 + Len(v) /\ line[1] = "Bearer"
           /\ SubSeq(line, 3, Len(line)) = v /\ ToSet(line) = {"Bearer", " "} \cup ToSet(v)
<1>1. line = Both(Both(Alone("Bearer"), Alone(" ")), v)
  BY TwoAre, Zenon DEF Both
<1>2. IsAfterTwo(line, "Bearer", " ", v)
  BY <1>1, AfterTwo
<1> QED
  BY <1>2, Zenon DEF IsAfterTwo

(* A text alone on its line.                                                *)
LEMMA LineAsItIs ==
    ASSUME NEW line, IsText(line), IsUtf8(line)
    PROVE  OneLine(<<line>>) = Ok(line)
<1>1. PICK lines : lines = <<line>>
  OBVIOUS
<1>2. Len(lines) = 1 /\ lines[1] = line
  BY <1>1
<1>3. OneLine(lines) = Ok(line)
  BY <1>2 DEF OneLine, OkIf
<1> QED
  BY <1>1, <1>3

(* A bare text of a header of one line.                                     *)
LEMMA BareLineIsOne ==
    ASSUME NEW line, IsString(line), Bare(line)
    PROVE  OneRawStr(<<line>>) = Ok(line) /\ NewLine \notin ToSet(line) /\ line # <<>>
<1>1. IsText(line) /\ IsUtf8(line) /\ line # <<>> /\ Trim(line) = line /\ NewLine \notin ToSet(line)
  BY DEF IsString, Bare
<1>2. Len(line) > 0
  BY <1>1, NoText, TextIs
<1> QED
  BY <1>1, <1>2, LineIsOne

(* Cutting a line behind its scheme leaves it text, and a line whose first   *)
(* word is the scheme as it is.                                             *)
LEMMA CutOffIsText ==
    ASSUME NEW t, IsText(t), IsUtf8(t), NEW cut, cut = SchemeCutOff(t)
    PROVE  /\ IsText(cut) /\ IsUtf8(cut)
           /\ t[1] = "Bearer" => cut = t
<1>1. DOMAIN LongerThanScheme = {"Bearerxy"}
  BY DEF LongerThanScheme
<1>2. t[1] = "Bearer" => cut = t
  BY <1>1 DEF SchemeCutOff
<1>3. CASE ~(t # <<>> /\ t[1] \in DOMAIN LongerThanScheme)
  BY <1>3 DEF SchemeCutOff
<1>4. CASE t # <<>> /\ t[1] \in DOMAIN LongerThanScheme
  <2> DEFINE S == {"Bearer", "x", "y"}
  <2>1. PICK head, tail : head = LongerThanScheme[t[1]] /\ tail = SubSeq(t, 2, Len(t))
    OBVIOUS
  <2>2. cut = head \o tail
    BY <1>4, <2>1 DEF SchemeCutOff
  <2>3. head = <<"Bearer", "x", "y">>
    BY <1>1, <1>4, <2>1 DEF LongerThanScheme
  <2>4. IsText(head)
    BY <2>3, ShortTexts
  <2>5. head \in Seq(S)
    BY <2>3
  <2>6. ToSet(head) \subseteq S
    BY <2>5, TokensOfSeq
  <2>7. IsText(tail) /\ ToSet(tail) \subseteq ToSet(t)
    <3>1. PICK n : n = Len(t)
      OBVIOUS
    <3>2. n \in Int /\ n <= Len(t) /\ 2 \in Nat \ {0}
      BY <3>1, TextIs
    <3> QED
      BY <2>1, <3>1, <3>2, TokensOfPiece
  <2>8. IsText(cut) /\ ToSet(cut) = ToSet(head) \cup ToSet(tail)
    BY <2>2, <2>4, <2>7, TextAfterText, TokensOfBoth
  <2>9. NotUtf8 \notin S
    BY DEF NotUtf8
  <2> QED
    BY <1>2, <2>6, <2>7, <2>8, <2>9 DEF IsUtf8
<1> QED
  BY <1>2, <1>3, <1>4

(* Such a header is read back as it was printed.                            *)
LEMMA PlainIsReadBack ==
    ASSUME NEW name \in PlainHeaders, NEW v, HasType(name, v), NEW line, line = PrintedText(name, v)
    PROVE  /\ IsText(line)
           /\ Faithful(name, v) => NewLine \notin ToSet(line) /\ ParseHeader(name, <<line>>) = Ok(v)
<1> HIDE DEF Numbers
<1>1. CASE name \in AsItIs
  <2>1. line = v /\ IsText(v) /\ IsUtf8(v) /\ (Faithful(name, v) => NewLine \notin ToSet(v))
    BY <1>1, PlainDispatch DEF IsString
  <2>2. ParseHeader(name, <<line>>) = OneLine(<<line>>)
    BY <1>1, PlainDispatch
  <2> QED
    BY <2>1, <2>2, LineAsItIs
<1>2. CASE name \in AfterScheme
  <2>1. /\ line = <<"Bearer", " ">> \o v /\ IsText(v) /\ IsUtf8(v)
        /\ Faithful(name, v) => v # <<>> /\ NewLine \notin ToSet(v)
    BY <1>2, PlainDispatch DEF IsString
  <2>2. /\ IsText(line) /\ Len(line) = 2 + Len(v) /\ line[1] = "Bearer"
        /\ SubSeq(line, 3, Len(line)) = v /\ ToSet(line) = {"Bearer", " "} \cup ToSet(v)
    BY <2>1, AfterSchemeIs
  <2>3. {"Bearer", " "} \cap {NewLine, NotUtf8} = {}
    BY DEF NewLine, NotUtf8
  <2>4. IsUtf8(line)
    BY <2>1, <2>2, <2>3 DEF IsUtf8
  <2>5. ASSUME Faithful(name, v) PROVE NewLine \notin ToSet(line) /\ ParseHeader(name, <<line>>) = Ok(v)
    <3>1. PICK reading : reading = OneLine(<<line>>)
      OBVIOUS
    <3>2. reading.ok /\ reading.val = line
      <4>1. IsText(line) /\ IsUtf8(line)
        BY <2>2, <2>4
      <4>2. reading = Ok(line)
        BY <3>1, <4>1, LineAsItIs
      <4> QED
        BY <4>2 DEF Ok
    <3>3. Len(v) # 0 /\ Len(v) \in Nat
      <4>1. IsText(v) /\ v # <<>>
        BY <2>1, <2>5
      <4>2. Len(v) \in Nat
        BY <4>1, TextIs
      <4> QED
        BY <4>1, <4>2, NoText
    <3>4. ParseAuthorization("Bearer", <<line>>) = Ok(v)
      <4>0. PICK cut : cut = SchemeCutOff(reading.val)
        OBVIOUS
      <4>1. ParseAuthorization("Bearer", <<line>>) =
               IF Len(cut) < 3 \/ cut[1] # "Bearer" THEN Err ELSE Ok(SubSeq(cut, 3, Len(cut)))
        BY <3>1, <3>2, <4>0 DEF ParseAuthorization
      <4>3. cut = line
        BY <2>2, <2>4, <3>2, <4>0, CutOffIsText
      <4>2. ~(Len(line) < 3) /\ line[1] = "Bearer"
        <5>1. PICK m, n : m = Len(v) /\ n = Len(line)
          OBVIOUS
        <5>2. m \in Nat /\ m # 0 /\ n = 2 + m
          BY <2>2, <3>3, <5>1, Zenon
        <5>3. ~(n < 3)
          BY <5>2
        <5> QED
          BY <2>2, <5>1, <5>3, Zenon
      <4> QED
        BY <2>2, <4>1, <4>2, <4>3
    <3>5. ParseHeader(name, <<line>>) = ParseAuthorization("Bearer", <<line>>)
      BY <1>2, PlainDispatch
    <3> QED
      BY <2>1, <2>2, <2>3, <2>5, <3>4, <3>5
  <2> QED
    BY <2>2, <2>5
<1>3. CASE name \in OneWord
  <2>1. PICK word : word = WordOf(name)
    OBVIOUS
  <2>2. v = <<word>> /\ line = v
    BY <1>3, <2>1, PlainDispatch
  <2>3. IsText(line)
    BY <2>2, ShortTexts
  <2>4. Lower(line) = line /\ word \notin {NewLine, NotUtf8}
    BY <1>3, <2>1, <2>2, WordIsLower DEF Alone
  <2>5. NewLine \notin ToSet(line)
    BY <2>2, <2>4 DEF ToSet
  <2>6. Word(<<line>>, <<word>>) = Ok(v)
    <3>1. PICK lines : lines = <<line>>
      OBVIOUS
    <3>2. Len(lines) = 1 /\ lines[1] = line
      BY <3>1
    <3>3. Word(lines, v) = Ok(v)
      BY <2>2, <2>4, <3>2 DEF Word, OkIf
    <3> QED
      BY <2>2, <3>1, <3>3
  <2>7. ParseHeader(name, <<line>>) = Word(<<line>>, <<word>>)
    BY <1>3, <2>1, PlainDispatch
  <2> QED
    BY <2>3, <2>5, <2>6, <2>7
<1>4. CASE name = "Last-Event-ID"
  <2>1. line = v /\ IsString(v) /\ (Faithful(name, v) => v = <<>> \/ Bare(v))
    BY <1>4, PlainDispatch
  <2>2. IsText(line)
    BY <2>1 DEF IsString
  <2>3. ParseHeader(name, <<line>>) = ParseLastEventId(<<line>>)
    BY <1>4, PlainDispatch
  <2>4. CASE v = <<>>
    <3>1. ParseLastEventId(<<line>>) = Ok(<<>>)
      BY <2>1, <2>4 DEF ParseLastEventId
    <3>2. NewLine \notin ToSet(line)
      BY <2>1, <2>4, NoText
    <3> QED
      BY <2>2, <2>3, <2>4, <3>1, <3>2
  <2>5. CASE v # <<>>
    <3>1. <<line>> # <<<<>>>>
      BY <2>1, <2>5
    <3>2. ParseLastEventId(<<line>>) = OneRawStr(<<line>>)
      BY <3>1 DEF ParseLastEventId
    <3> QED
      BY <2>1, <2>2, <2>3, <2>5, <3>2, BareLineIsOne
  <2> QED
    BY <2>4, <2>5
<1>5. CASE name = "Pragma"
  <2>1. /\ line = v /\ IsString(v)
        /\ Faithful(name, v) => Bare(v) /\ (Lower(v) = <<"no-cache">> => v = Lower(v))
    BY <1>5, PlainDispatch
  <2>2. IsText(line)
    BY <2>1 DEF IsString
  <2>3. ParseHeader(name, <<line>>) = ParsePragma(<<line>>)
    BY <1>5, PlainDispatch
  <2>4. ASSUME Faithful(name, v) PROVE NewLine \notin ToSet(line) /\ ParsePragma(<<line>>) = Ok(v)
    <3>1. PICK text : text = OneRawStr(<<line>>)
      OBVIOUS
    <3>2. text = Ok(v) /\ NewLine \notin ToSet(line)
      BY <2>1, <2>4, <3>1, BareLineIsOne
    <3>3. text.ok /\ text.val = v
      BY <3>2 DEF Ok
    <3>4. ParsePragma(<<line>>) = IF Lower(v) = <<"no-cache">> THEN Ok(Lower(v)) ELSE text
      BY <3>1, <3>3 DEF ParsePragma
    <3> QED
      BY <2>1, <2>4, <3>2, <3>4
  <2> QED
    BY <2>2, <2>3, <2>4
<1>6. CASE name = "Content-Length"
  <2>1. v \in Numbers /\ line = Numeral(v)
    BY <1>6, PlainDispatch
  <2>2. Plain(line) /\ ParseNumber(line) = Ok(v)
    BY <2>1, NumeralIsPlain
  <2>3. Trim(line) = line /\ IsUtf8(line)
    BY <2>2, PlainIsWhole
  <2>4. IsText(line) /\ NewLine \notin ToSet(line)
    BY <2>2 DEF Plain, Delimiters
  <2>5. PICK lines : lines = <<line>>
    OBVIOUS
  <2>6. DOMAIN lines = {1} /\ lines[1] = line /\ lines # <<>>
    BY <2>5
  <2>7. PICK numbers : numbers = [i \in DOMAIN lines |->
                                     IF IsUtf8(lines[i]) THEN ParseNumber(Trim(lines[i])) ELSE Err]
    OBVIOUS
  <2>8. DOMAIN numbers = {1} /\ numbers[1] = Ok(v)
    BY <2>2, <2>3, <2>6, <2>7
  <2>9. numbers[1].ok
    BY <2>8 DEF Ok
  <2>10. ParseContentLength(lines) = Ok(v)
    BY <2>6, <2>7, <2>8, <2>9 DEF ParseContentLength
  <2>11. ParseHeader(name, lines) = ParseContentLength(lines)
    BY <1>6, PlainDispatch
  <2> QED
    BY <2>4, <2>5, <2>10, <2>11
<1> QED
  BY <1>1, <1>2, <1>3, <1>4, <1>5, <1>6 DEF PlainHeaders

(* What is read of such a header has its type.                              *)
LEMMA PlainIsTyped ==
    ASSUME NEW name \in PlainHeaders, NEW lines, AllTexts(lines),
           NEW reading, reading = ParseHeader(name, lines), reading.ok
    PROVE  reading = Ok(reading.val) /\ HasType(name, reading.val)
<1> HIDE DEF Numbers
<1>0. ~Err.ok /\ \A x : Ok(x).val = x
  BY DEF Err, Ok
<1>1. PICK v : v = reading.val
  OBVIOUS
<1>2. ASSUME NEW line, line = OneLine(lines), line.ok PROVE line = Ok(line.val) /\ IsString(line.val)
  <2>1. Len(lines) = 1 /\ IsUtf8(lines[1]) /\ line = Ok(lines[1])
    BY <1>0, <1>2 DEF OneLine, OkIf
  <2>2. line.val = lines[1]
    BY <1>0, <2>1
  <2>3. IsText(lines[1])
    BY <2>1 DEF AllTexts
  <2> QED
    BY <2>1, <2>2, <2>3 DEF IsString
<1>3. ASSUME NEW text, text = OneRawStr(lines), text.ok PROVE text = Ok(text.val) /\ IsString(text.val)
  <2>1. text = Ok(Trim(lines[1]))
    BY <1>0, <1>3 DEF OneRawStr, OkIf
  <2>2. IsText(text.val) /\ IsUtf8(text.val)
    BY <1>3, TextOfOne
  <2> QED
    BY <1>0, <2>1, <2>2 DEF IsString
<1>4. CASE name \in AsItIs
  <2>1. reading = OneLine(lines) /\ (HasType(name, v) <=> IsString(v))
    BY <1>4, PlainDispatch
  <2> QED
    BY <1>1, <1>2, <2>1
<1>5. CASE name \in AfterScheme
  <2>1. reading = ParseAuthorization("Bearer", lines) /\ (HasType(name, v) <=> IsString(v))
    BY <1>5, PlainDispatch
  <2>2. PICK line, text : line = OneLine(lines) /\ text = SchemeCutOff(line.val)
    OBVIOUS
  <2>3. line.ok /\ reading = Ok(SubSeq(text, 3, Len(text)))
    BY <1>0, <2>1, <2>2 DEF ParseAuthorization
  <2>4. IsText(text) /\ IsUtf8(text)
    BY <1>2, <2>2, <2>3, CutOffIsText DEF IsString
  <2>5. v = SubSeq(text, 3, Len(text))
    BY <1>0, <1>1, <2>3
  <2>6. IsText(v) /\ ToSet(v) \subseteq ToSet(text)
    <3>1. Len(text) \in Nat
      BY <2>4, TextIs
    <3> QED
      BY <2>4, <2>5, <3>1, TokensOfPiece
  <2>7. IsString(v)
    BY <2>4, <2>6 DEF IsString, IsUtf8
  <2> QED
    BY <1>1, <2>1, <2>3, <2>5, <2>7
<1>6. CASE name \in OneWord
  <2>1. PICK word : word = <<WordOf(name)>>
    OBVIOUS
  <2>2. reading = Word(lines, word) /\ (HasType(name, v) <=> v = word)
    BY <1>6, <2>1, PlainDispatch
  <2>3. reading = Ok(word)
    BY <1>0, <2>2 DEF Word, OkIf
  <2> QED
    BY <1>0, <1>1, <2>2, <2>3
<1>7. CASE name = "Last-Event-ID"
  <2>1. reading = ParseLastEventId(lines) /\ (HasType(name, v) <=> IsString(v))
    BY <1>7, PlainDispatch
  <2>2. reading = Ok(<<>>) \/ reading = OneRawStr(lines)
    BY <2>1 DEF ParseLastEventId
  <2>3. IsString(<<>>)
    BY NoText DEF IsString, IsUtf8
  <2> QED
    BY <1>0, <1>1, <1>3, <2>1, <2>2, <2>3
<1>8. CASE name = "Pragma"
  <2>1. reading = ParsePragma(lines) /\ (HasType(name, v) <=> IsString(v))
    BY <1>8, PlainDispatch
  <2>2. PICK word : word = <<"no-cache">>
    OBVIOUS
  <2>3. reading = Ok(word) \/ reading = OneRawStr(lines)
    BY <2>1, <2>2 DEF ParsePragma
  <2>4. IsString(word)
    <3>1. IsText(word)
      BY <2>2, ShortTexts
    <3>2. NotUtf8 \notin ToSet(word)
      BY <2>2 DEF ToSet, NotUtf8
    <3> QED
      BY <3>1, <3>2 DEF IsString, IsUtf8
  <2> QED
    BY <1>0, <1>1, <1>3, <2>1, <2>3, <2>4
<1>9. CASE name = "Content-Length"
  <2>1. reading = ParseContentLength(lines) /\ (HasType(name, v) <=> v \in Numbers)
    BY <1>9, PlainDispatch
  <2>2. PICK numbers : numbers = [i \in DOMAIN lines |->
                                     IF IsUtf8(lines[i]) THEN ParseNumber(Trim(lines[i])) ELSE Err]
    OBVIOUS
  <2>3. lines # <<>> /\ reading = numbers[1]
    BY <1>0, <2>1, <2>2 DEF ParseContentLength
  <2>4. 1 \in DOMAIN lines
    BY <2>3, NoText, TextIs DEF AllTexts
  <2>5. reading = ParseNumber(Trim(lines[1]))
    BY <1>0, <2>2, <2>3, <2>4
  <2>6. v \in Numbers
    BY <1>1, <2>5, ReadNumber
  <2>7. reading = Ok(v)
    <3>1. \E n : reading = Ok(n)
      BY <1>0, <2>5 DEF ParseNumber
    <3> QED
      BY <1>0, <1>1, <3>1
  <2> QED
    BY <1>1, <2>1, <2>6, <2>7
<1> QED
  BY <1>4, <1>5, <1>6, <1>7, <1>8, <1>9 DEF PlainHeaders

-----------------------------------------------------------------------------
(* Headers that are kept on their way.                                     *)

\* The macros' headers of such items, and the others of this module.
OtherHeaders == PlainHeaders \cup {"Range", "Content-Range"}
KeptHeaders == KeptMacros \cup OtherHeaders

(* The others are not among the macros' and are one line.                   *)
LEMMA KeptNames ==
    /\ \A name \in KeptMacros : /\ name \in KeptHeaders /\ name \in DOMAIN MacroHeaders
                               /\ IsKept(MacroHeaders[name]) /\ ~MacroHeaders[name].weighted
    /\ \A name \in KeptHeaders : name \in KeptMacros \/ name \in OtherHeaders
    /\ \A name \in OtherHeaders : name \in PlainHeaders \/ name \in {"Range", "Content-Range"}
    /\ \A name \in OtherHeaders :
          /\ name \in KeptHeaders /\ name \notin DOMAIN MacroHeaders /\ name \notin Combined
          /\ name # "Set-Cookie" /\ name # "Preference-Applied"
    /\ {"Range", "Content-Range"} \subseteq KeptHeaders /\ "Cookie" \notin KeptHeaders
<1>1. \A name \in {"Cookie", "Range", "Content-Range"} : name \notin DOMAIN MacroHeaders
  BY DEF MacroHeaders, Table
<1>2. \A name \in KeptMacros : name \in DOMAIN MacroHeaders /\ IsKept(MacroHeaders[name])
  BY DEF KeptMacros
<1>3. \A name \in KeptMacros : ~MacroHeaders[name].weighted
  BY <1>2 DEF IsKept
<1>4. \A name \in {"Range", "Content-Range"} : name \notin Combined
  BY <1>1 DEF Combined
<1>5. \A name \in OtherHeaders :
         /\ name \notin DOMAIN MacroHeaders /\ name \notin Combined
         /\ name # "Set-Cookie" /\ name # "Preference-Applied" /\ name # "Cookie"
  BY <1>1, <1>4, PlainNames DEF OtherHeaders
<1>6. "Cookie" \notin KeptHeaders
  BY <1>1, <1>2, <1>5 DEF KeptHeaders
<1> QED
  BY <1>2, <1>3, <1>5, <1>6 DEF KeptHeaders, OtherHeaders

(* Which headers are among them, and which are lists.                       *)
LEMMA TagHeadersAreKept ==
    /\ {"ETag", "If-Match", "If-None-Match"} \subseteq KeptMacros
    /\ MacroHeaders["ETag"].grammar = "single" /\ MacroHeaders["ETag"].item = TagKind
    /\ \A name \in {"If-Match", "If-None-Match"} :
          MacroHeaders[name].grammar = "any" /\ MacroHeaders[name].item = TagKind
<1>1. \E h : /\ h = MacroHeaders["ETag"] /\ h.grammar = "single" /\ h.item = TagKind /\ ~h.weighted
  <2>1. PICK h : h = Single("entity tag")
    OBVIOUS
  <2>2. h = MacroHeaders["ETag"]
    BY <2>1, TagHeaders DEF ETag
  <2>3. h.grammar = "single" /\ h.item = TagKind /\ ~h.weighted
    BY <2>1 DEF Single, TagKind
  <2> QED
    BY <2>2, <2>3
<1>2. ASSUME NEW name \in {"If-Match", "If-None-Match"}
      PROVE  \E h : /\ h = MacroHeaders[name] /\ h.grammar = "any" /\ h.item = TagKind /\ ~h.weighted
  <2>1. PICK h : h = AnyOrListOf("entity tag")
    OBVIOUS
  <2>2. h = MacroHeaders[name]
    BY <2>1, TagHeaders DEF IfMatch, IfNoneMatch
  <2>3. h.grammar = "any" /\ h.item = TagKind /\ ~h.weighted
    BY <2>1 DEF AnyOrListOf, TagKind
  <2> QED
    BY <2>2, <2>3
<1>3. TagKind \in KeptKinds /\ \A name \in {"ETag", "If-Match", "If-None-Match"} : name \in DOMAIN MacroHeaders
  BY TagHeaders DEF KeptKinds
<1>4. "ETag" \in KeptMacros
  BY <1>1, <1>3 DEF KeptMacros, IsKept
<1>5. {"If-Match", "If-None-Match"} \subseteq KeptMacros
  BY <1>2, <1>3 DEF KeptMacros, IsKept
<1> QED
  BY <1>1, <1>2, <1>4, <1>5

(* The lines of those that are combined are lists.                          *)
LEMMA CombinedAreLists ==
    ASSUME NEW name \in KeptHeaders, name \in Combined
    PROVE  MacroHeaders[name].grammar \in {"list", "any"} /\ name \in KeptMacros
<1>1. DOMAIN MacroHeaders \cap
         {"Cache-Control", "Prefer", "Preference-Applied", "Link", "Referrer-Policy"} = {}
  BY DEF MacroHeaders, Table
<1>2. name \in KeptMacros /\ name \in DOMAIN MacroHeaders
  BY KeptNames
<1> QED
  BY <1>1, <1>2 DEF Combined

\* Lines are those of a value: if it is faithful, it is what they are read as.
Carries(name, lines, v) == HasType(name, v) /\ (Faithful(name, v) => ParseHeader(name, lines) = Ok(v))

(* Printing changes a text only if it has line breaks in it.                *)
LEMMA NothingReplaced ==
    ASSUME NEW line, IsText(line)
    PROVE  NewlineReplaced(line) = line <=> NewLine \notin ToSet(line)
<1>1. NewLine \notin ToSet(NewlineReplaced(line))
  BY DEF NewlineReplaced, ToSet, NewLine
<1> QED
  BY <1>1, LineIsKept

(* A value carries itself on the lines that are printed of it.              *)
LEMMA PrintedCarries ==
    ASSUME NEW name \in KeptHeaders, NEW v, HasType(name, v), NEW lines, lines = PrintHeader(name, v)
    PROVE  AllTexts(lines) /\ Len(lines) = 1 /\ Carries(name, lines, v)
<1>1. PICK line, kept : line = PrintedText(name, v) /\ kept = NewlineReplaced(line)
  OBVIOUS
<1>2. /\ IsText(line) /\ lines = <<kept>>
      /\ Faithful(name, v) => NewLine \notin ToSet(line) /\ ParseHeader(name, <<line>>) = Ok(v)
  <2>1. CASE name \in KeptMacros
    <3>1. PICK h : h = MacroHeaders[name]
      OBVIOUS
    <3>2. name \in DOMAIN MacroHeaders /\ IsKept(h)
      BY <2>1, <3>1, KeptNames
    <3>3. /\ lines = <<kept>> /\ line = PrintMacro(h, v) /\ IsValue(h, v)
          /\ Faithful(name, v) <=> FaithfulMacro(h, v)
      BY <1>1, <3>1, <3>2, MacroDispatch
    <3>4. ParseHeader(name, <<line>>) = ParseMacro(h, <<line>>)
      BY <3>1, <3>2, MacroDispatch
    <3>5. IsText(line)
      BY <3>2, <3>3, MacroIsText
    <3>6. FaithfulMacro(h, v) => kept = line /\ ParseMacro(h, <<line>>) = Ok(v)
      BY <1>1, <3>2, <3>3, MacroIsReadBack
    <3>7. kept = line => NewLine \notin ToSet(line)
      BY <1>1, <3>5, NothingReplaced
    <3> QED
      BY <3>3, <3>4, <3>5, <3>6, <3>7
  <2>2. CASE name = "Range"
    <3>1. IsRange(v) /\ (Faithful(name, v) <=> FaithfulRange(v))
      BY <2>2, RangeDispatch
    <3>2. line = PrintRange(v) /\ lines = <<kept>>
      BY <1>1, <2>2, RangeDispatch
    <3>3. ParseHeader(name, <<line>>) = ParseRange(<<line>>)
      BY <2>2, RangeDispatch
    <3> QED
      BY <3>1, <3>2, <3>3, RangeIsReadBack
  <2>3. CASE name = "Content-Range"
    <3>1. IsContentRange(v) /\ (Faithful(name, v) <=> FaithfulContentRange(v))
      BY <2>3, RangeDispatch
    <3>2. line = PrintContentRange(v) /\ lines = <<kept>>
      BY <1>1, <2>3, RangeDispatch
    <3>3. ParseHeader(name, <<line>>) = ParseContentRange(<<line>>)
      BY <2>3, RangeDispatch
    <3> QED
      BY <3>1, <3>2, <3>3, ContentRangeIsReadBack
  <2>4. CASE name \in PlainHeaders
    <3>1. lines = <<kept>>
      BY <1>1, <2>4, PlainDispatch
    <3> QED
      BY <1>1, <2>4, <3>1, PlainIsReadBack
  <2> QED
    BY <2>1, <2>2, <2>3, <2>4, KeptNames
<1>3. name # "Set-Cookie"
  BY KeptNames, HeaderTables
<1>4. /\ IsText(lines) /\ Len(lines) = 1 /\ \A i \in DOMAIN lines : IsText(lines[i])
  BY <1>1, <1>2, <1>3, PrintedLines
<1>5. AllTexts(lines)
  BY <1>4, TextIs DEF AllTexts
<1>6. ASSUME Faithful(name, v) PROVE ParseHeader(name, lines) = Ok(v)
  <2>1. kept = line
    BY <1>1, <1>2, <1>6, NothingReplaced
  <2> QED
    BY <1>2, <1>6, <2>1
<1> QED
  BY <1>4, <1>5, <1>6 DEF Carries

(* What is read has the header's type.                                      *)
LEMMA ReadIsTyped ==
    ASSUME NEW name \in KeptHeaders, NEW lines, AllTexts(lines), NoLineBreak(lines),
           NEW reading, reading = ParseHeader(name, lines), reading.ok
    PROVE  reading = Ok(reading.val) /\ HasType(name, reading.val)
<1>1. CASE name \in KeptMacros
  <2>1. PICK h, v : h = MacroHeaders[name] /\ v = reading.val
    OBVIOUS
  <2>2. name \in DOMAIN MacroHeaders /\ IsKept(h)
    BY <1>1, <2>1, KeptNames
  <2>3. reading = ParseMacro(h, lines) /\ (HasType(name, v) <=> IsValue(h, v))
    BY <2>1, <2>2, MacroDispatch
  <2> QED
    BY <2>1, <2>2, <2>3, MacroIsTyped
<1>2. CASE name = "Range"
  <2>1. reading = ParseRange(lines)
    BY <1>2, RangeDispatch
  <2>2. reading = Ok(reading.val) /\ IsRange(reading.val)
    BY <2>1, RangeIsTyped
  <2> QED
    BY <1>2, <2>2, RangeDispatch
<1>3. CASE name = "Content-Range"
  <2>1. reading = ParseContentRange(lines)
    BY <1>3, RangeDispatch
  <2>2. reading = Ok(reading.val) /\ IsContentRange(reading.val)
    BY <2>1, ContentRangeIsTyped
  <2> QED
    BY <1>3, <2>2, RangeDispatch
<1>4. CASE name \in PlainHeaders
  BY <1>4, PlainIsTyped
<1> QED
  BY <1>1, <1>2, <1>3, <1>4, KeptNames

(* Lines are read the same when two have been combined.                     *)
LEMMA CombinedAreReadTheSame ==
    ASSUME NEW name \in KeptHeaders, name \in Combined,
           NEW lines, AllTexts(lines), Len(lines) > 1, NEW merged, merged = Merging(lines)
    PROVE  AllTexts(merged) /\ ParseHeader(name, merged) = ParseHeader(name, lines)
<1>1. PICK h : h = MacroHeaders[name]
  OBVIOUS
<1>2. name \in DOMAIN MacroHeaders /\ IsKept(h) /\ h.grammar \in {"list", "any"}
  BY <1>1, CombinedAreLists, KeptNames
<1>3. AllTexts(merged) /\ ParseMacro(h, merged) = ParseMacro(h, lines)
  BY <1>2, MacroIsMerged
<1>4. ParseHeader(name, merged) = ParseMacro(h, merged) /\ ParseHeader(name, lines) = ParseMacro(h, lines)
  BY <1>1, <1>2, MacroDispatch
<1> QED
  BY <1>3, <1>4

\* One more line.
OneMoreLine(lines, line) == Append(lines, line)

(* It is the last.                                                          *)
LEMMA OneMoreLineIs ==
    ASSUME NEW lines, IsText(lines), NEW line, NEW all, all = OneMoreLine(lines, line)
    PROVE  /\ IsText(all) /\ Len(all) = Len(lines) + 1 /\ all[Len(lines) + 1] = line
           /\ \A i \in 1..Len(lines) : all[i] = lines[i]
<1>1. PICK S : S = ToSet(lines) \cup {line}
  OBVIOUS
<1>2. lines \in Seq(S) /\ line \in S
  BY <1>1, TextIs
<1>3. all = Append(lines, line)
  BY DEF OneMoreLine
<1>4. all \in Seq(S) /\ Len(all) = Len(lines) + 1
  BY <1>2, <1>3
<1>5. all[Len(lines) + 1] = line
  BY <1>2, <1>3
<1>6. \A i \in 1..Len(lines) : all[i] = lines[i]
  BY <1>2, <1>3
<1> QED
  BY <1>4, <1>5, <1>6, SeqIsText

(* A value and one more, on a line of its own, are all their items.         *)
LEMMA AppendedCarries ==
    ASSUME NEW name \in KeptHeaders, name \in Combined,
           NEW v, HasType(name, v), IsItems(name, v), NEW w, HasType(name, w), IsItems(name, w),
           NEW lines, lines = OneMoreLine(PrintHeader(name, v), PrintedText(name, w))
    PROVE  AllTexts(lines) /\ Carries(name, lines, Concatenated(name, v, w))
<1>1. PICK h, a, b : /\ h = MacroHeaders[name] /\ a = NewlineReplaced(PrintMacro(h, v))
                     /\ b = PrintMacro(h, w)
  OBVIOUS
<1>2. name \in DOMAIN MacroHeaders /\ IsKept(h) /\ h.grammar \in {"list", "any"}
  BY <1>1, CombinedAreLists, KeptNames
<1>3. /\ PrintHeader(name, v) = <<a>> /\ PrintedText(name, w) = b
      /\ IsValue(h, v) /\ IsValue(h, w) /\ ParseHeader(name, lines) = ParseMacro(h, lines)
  BY <1>1, <1>2, MacroDispatch
<1>4. IsText(a) /\ IsText(b)
  <2>1. PICK first : first = PrintHeader(name, v)
    OBVIOUS
  <2>2. AllTexts(first) /\ Len(first) = 1
    BY <2>1, PrintedCarries
  <2>3. IsText(first[1])
    BY <2>2 DEF AllTexts
  <2>4. first[1] = a
    BY <1>3, <2>1, OnePlace
  <2> QED
    BY <1>1, <1>2, <1>3, <2>3, <2>4, MacroIsText
<1>5. PICK first : first = <<a>>
  OBVIOUS
<1>6. IsText(lines) /\ Len(lines) = 2 /\ lines[1] = a /\ lines[2] = b
  <2>1. IsText(first) /\ Len(first) = 1 /\ first[1] = a /\ lines = OneMoreLine(first, b)
    BY <1>3, <1>5, ShortTexts
  <2>2. PICK n : n = Len(first)
    OBVIOUS
  <2>3. /\ IsText(lines) /\ Len(lines) = n + 1 /\ lines[n + 1] = b
        /\ \A i \in 1..n : lines[i] = first[i]
    <3>1. PICK x : x = lines
      OBVIOUS
    <3>2. IsText(first) /\ x = OneMoreLine(first, b)
      BY <2>1, <3>1
    <3>3. IsText(x)
      BY <3>2, OneMoreLineIs
    <3>4. Len(x) = Len(first) + 1 /\ x[Len(first) + 1] = b
      BY <3>2, OneMoreLineIs
    <3>5. \A i \in 1..Len(first) : x[i] = first[i]
      BY <3>2, OneMoreLineIs
    <3> QED
      BY <2>2, <3>1, <3>3, <3>4, <3>5
  <2> QED
    BY <2>1, <2>2, <2>3
<1>7. AllTexts(lines)
  <2>1. ASSUME NEW i \in 1..2 PROVE IsText(lines[i])
    <3>1. i = 1 \/ i = 2
      OBVIOUS
    <3> QED
      BY <1>4, <1>6, <3>1
  <2> QED
    BY <1>6, <2>1 DEF AllTexts
<1>8. HasAny(name) <=> h.grammar = "any"
  BY <1>1, <1>2 DEF HasAny
<1>9. PICK both, all : both = Wrapped(h, Both(Listed(h, v), Listed(h, w))) /\ all = Concatenated(name, v, w)
  OBVIOUS
<1>10. both = all
  <2>1. ItemsOf(name, v) = Listed(h, v) /\ ItemsOf(name, w) = Listed(h, w)
    BY <1>8 DEF ItemsOf, Listed
  <2>2. all = IF HasAny(name) THEN [any |-> FALSE, items |-> Both(Listed(h, v), Listed(h, w))]
              ELSE Both(Listed(h, v), Listed(h, w))
    BY <1>9, <2>1, Zenon DEF Concatenated, Both
  <2> QED
    BY <1>8, <1>9, <2>2 DEF Wrapped
<1>11. h.grammar = "any" => ~v.any /\ ~w.any
  BY <1>8 DEF IsItems
<1>12. IsValue(h, both) /\ (FaithfulMacro(h, both) => ParseMacro(h, lines) = Ok(both))
  BY <1>1, <1>2, <1>3, <1>6, <1>9, <1>11, TwoValuesAreRead
<1>13. (HasType(name, both) <=> IsValue(h, both)) /\ (Faithful(name, both) <=> FaithfulMacro(h, both))
  BY <1>1, <1>2, MacroDispatch
<1>14. Carries(name, lines, both)
  BY <1>3, <1>12, <1>13 DEF Carries
<1> QED
  BY <1>7, <1>9, <1>10, <1>14

\* The inductive invariant: the lines carry what the sender means, and what was last read.
KeptInv ==
    header \in KeptHeaders =>
        /\ AllTexts(wire)
        /\ meant.ok =>
              /\ Carries(header, wire, meant.val)
              /\ got # <<>> /\ Faithful(header, meant.val) => got[1] = Ok(meant.val)
        /\ Read => Carries(header, wire, got[1].val)

\* A server means by its answer the range of the question, as far as there are bytes.
AskedInv ==
    header = "Content-Range" /\ asked # <<>> /\ Faithful("Range", asked.range) =>
        LET spec == asked.range.specs[asked.place]
        IN  /\ IsByteRangeSpec(spec) /\ asked.full \in FullLengths
            /\ meant = Ok(BytesRange(ToSatisfiableRange(spec, asked.full), <<asked.full>>))

(* A header that is sent, or that arrives from elsewhere.                   *)
LEMMA KeptInit ==
    ASSUME Init
    PROVE  KeptInv
<1>0. \A x : Ok(x).val = x
  BY DEF Ok
<1>1. got = <<>> /\ ~Read
  BY DEF Init, Read
<1>2. CASE \E m \in Sent : header = m.header /\ meant = Ok(m.value)
                           /\ wire = PrintHeader(m.header, m.value)
  <2>1. PICK m \in Sent : header = m.header /\ meant = Ok(m.value)
                          /\ wire = PrintHeader(m.header, m.value)
    BY <1>2
  <2>2. HasType(header, m.value) /\ meant.val = m.value /\ wire = PrintHeader(header, m.value)
    BY <1>0, <2>1, SentAssumption
  <2>3. header \in KeptHeaders => AllTexts(wire) /\ Carries(header, wire, m.value)
    BY <2>2, PrintedCarries
  <2> QED
    BY <1>1, <2>2, <2>3 DEF KeptInv
<1>3. CASE \E m \in Arrivals : header = m.header /\ wire = m.lines
                               /\ meant = ParseHeader(m.header, m.lines)
  <2>1. PICK m \in Arrivals : header = m.header /\ wire = m.lines
                              /\ meant = ParseHeader(m.header, m.lines)
    BY <1>3
  <2>2. IsText(wire) /\ (\A i \in DOMAIN wire : IsText(wire[i])) /\ NoLineBreak(wire)
        /\ meant = ParseHeader(header, wire)
    BY <2>1, ArrivalsAssumption
  <2>3. AllTexts(wire)
    BY <2>2, TextIs DEF AllTexts
  <2>4. ASSUME header \in KeptHeaders, meant.ok PROVE Carries(header, wire, meant.val)
    BY <2>2, <2>3, <2>4, ReadIsTyped DEF Carries
  <2> QED
    BY <1>1, <2>3, <2>4 DEF KeptInv
<1> QED
  BY <1>2, <1>3 DEF Init

(* A relay reads what the lines carry, and its lines carry what it read.    *)
LEMMA KeptRelay ==
    ASSUME TypeOK, KeptInv, header \in KeptHeaders, Relay
    PROVE  /\ KeptInv'
           /\ Read /\ Faithful(header, got[1].val) => got'[1] = Ok(got[1].val)
<1>0. \A x : Ok(x).val = x /\ Ok(x).ok
  BY DEF Ok
<1>1. PICK reading : reading = ParseHeader(header, wire)
  OBVIOUS
<1>2. /\ got' = <<reading>> /\ header' = header /\ meant' = meant
      /\ wire' = IF reading.ok /\ CanPrint(header, reading.val)
                 THEN PrintHeader(header, reading.val) ELSE wire
  BY <1>1 DEF Relay
<1>3. got'[1] = reading /\ got' # <<>>
  BY <1>2
<1>4. AllTexts(wire) /\ NoLineBreak(wire)
  BY DEF KeptInv, TypeOK
<1>5. ASSUME reading.ok
      PROVE  /\ reading = Ok(reading.val) /\ AllTexts(wire')
             /\ Carries(header, wire', reading.val)
  <2>1. reading = Ok(reading.val) /\ HasType(header, reading.val)
    BY <1>1, <1>4, <1>5, ReadIsTyped
  <2>2. wire' = PrintHeader(header, reading.val)
    <3>1. header # "Content-Disposition"
      <4>1. "Content-Disposition" \notin PlainHeaders
        BY DEF PlainHeaders, AsItIs, AfterScheme, OneWord
      <4> QED
        BY <4>1, KeptNames, HeaderTables
    <3> QED
      BY <1>2, <1>5, <3>1 DEF CanPrint
  <2> QED
    BY <2>1, <2>2, PrintedCarries
<1>6. ASSUME NEW v, Carries(header, wire, v)
      PROVE  Carries(header, wire', v) /\ (Faithful(header, v) => reading = Ok(v))
  <2>1. HasType(header, v)
    BY <1>6 DEF Carries
  <2>2. ASSUME Faithful(header, v) PROVE reading = Ok(v) /\ ParseHeader(header, wire') = Ok(v)
    <3>1. reading = Ok(v)
      BY <1>1, <1>6, <2>2 DEF Carries
    <3>2. reading.ok /\ reading.val = v
      BY <1>0, <3>1
    <3> QED
      BY <1>5, <2>2, <3>1, <3>2 DEF Carries
  <2> QED
    BY <2>1, <2>2 DEF Carries
<1>7. AllTexts(wire')
  BY <1>2, <1>4, <1>5
<1>8. meant.ok => /\ Carries(header, wire', meant.val)
                  /\ Faithful(header, meant.val) => got'[1] = Ok(meant.val)
  BY <1>3, <1>6 DEF KeptInv
<1>9. Read' => Carries(header, wire', got'[1].val)
  BY <1>3, <1>5 DEF Read
<1>10. KeptInv'
  BY <1>2, <1>7, <1>8, <1>9 DEF KeptInv
<1>11. Read /\ Faithful(header, got[1].val) => got'[1] = Ok(got[1].val)
  BY <1>3, <1>6 DEF KeptInv
<1> QED
  BY <1>10, <1>11

(* Two lines become one, that carries the same.                             *)
LEMMA KeptMerge ==
    ASSUME KeptInv, header \in KeptHeaders, MergeLines
    PROVE  KeptInv'
<1>1. header \in Combined /\ Len(wire) > 1 /\ header' = header /\ meant' = meant /\ got' = got
  BY DEF MergeLines
<1>2. PICK merged : merged = wire'
  OBVIOUS
<1>3. merged = Merging(wire)
  BY <1>2, Zenon DEF MergeLines, Merging
<1>4. AllTexts(wire)
  BY DEF KeptInv
<1>5. AllTexts(merged) /\ ParseHeader(header, merged) = ParseHeader(header, wire)
  BY <1>1, <1>3, <1>4, CombinedAreReadTheSame
<1>6. ASSUME NEW v, Carries(header, wire, v) PROVE Carries(header, merged, v)
  BY <1>5, <1>6 DEF Carries
<1> QED
  BY <1>1, <1>2, <1>5, <1>6 DEF KeptInv, Read

(* One more value, that its sender means too.                               *)
LEMMA KeptAppend ==
    ASSUME TypeOK, KeptInv, header \in KeptHeaders, EncodeAppend
    PROVE  KeptInv'
<1>0. \A x : Ok(x).val = x
  BY DEF Ok
<1>1. PICK m \in Appended :
         /\ m.header = header /\ IsItems(header, m.value)
         /\ wire' = Append(wire, PrintedText(header, m.value))
         /\ meant' = Ok(Concatenated(header, meant.val, m.value))
  BY DEF EncodeAppend
<1>2. /\ header \in Combined /\ hops = 0 /\ meant.ok /\ IsItems(header, meant.val)
      /\ wire = PrintHeader(header, meant.val) /\ header' = header /\ got' = got
  BY DEF EncodeAppend, EncodedLists
<1>3. got = <<>>
  BY <1>2 DEF TypeOK
<1>4. PICK all, lines : lines = wire' /\ all = Concatenated(header, meant.val, m.value)
  OBVIOUS
<1>5. lines = OneMoreLine(PrintHeader(header, meant.val), PrintedText(header, m.value))
  BY <1>1, <1>2, <1>4 DEF OneMoreLine
<1>6. HasType(header, meant.val) /\ HasType(header, m.value)
  BY <1>1, <1>2, AppendedAssumption DEF KeptInv, Carries
<1>7. AllTexts(lines) /\ Carries(header, lines, all)
  BY <1>1, <1>2, <1>4, <1>5, <1>6, AppendedCarries
<1>8. meant'.val = all /\ ~Read'
  BY <1>0, <1>1, <1>2, <1>3, <1>4 DEF Read
<1> QED
  BY <1>2, <1>3, <1>4, <1>7, <1>8 DEF KeptInv

(* A client asks about the tag it was given.                                *)
LEMMA KeptRevalidate ==
    ASSUME KeptInv, Revalidate
    PROVE  header \in KeptHeaders /\ header' \in KeptHeaders /\ KeptInv' /\ got' = <<>>
<1>0. \A x : Ok(x).val = x
  BY DEF Ok
<1>1. header = "ETag" /\ Read
  BY DEF Revalidate, Read
<1>2. header \in KeptHeaders
  BY <1>1, TagHeadersAreKept, KeptNames
<1>3. PICK tag : tag = got[1].val
  OBVIOUS
<1>4. IsEntityTag(tag)
  BY <1>1, <1>2, <1>3, ETagIsOneTag DEF KeptInv, Carries
<1>5. PICK name \in {"If-None-Match", "If-Match"} :
         Send(name, [any |-> FALSE, items |-> <<got[1].val>>], [tag |-> meant.val])
  BY DEF Revalidate
<1>6. PICK v, items : items = <<tag>> /\ v = [any |-> FALSE, items |-> items]
  OBVIOUS
<1>7. header' = name /\ got' = <<>> /\ meant' = Ok(v) /\ wire' = PrintHeader(name, v)
  BY <1>3, <1>5, <1>6 DEF Send
<1>8. PICK h : h = MacroHeaders[name]
  OBVIOUS
<1>9. /\ name \in KeptHeaders /\ name \in DOMAIN MacroHeaders /\ h.grammar = "any" /\ h.item = TagKind
      /\ IsKept(h)
  BY <1>8, TagHeadersAreKept, KeptNames
<1>10. IsList(h, items)
  <2>1. IsText(items) /\ DOMAIN items = {1} /\ items[1] = tag
    BY <1>6, ShortTexts, OnePlace
  <2>2. IsItem(h.item, tag)
    BY <1>4, <1>9, TagItem
  <2> QED
    BY <1>9, <2>1, <2>2, UnweightedItems DEF IsKept
<1>11. HasType(name, v)
  <2>1. v.any = FALSE /\ v.items = items
    BY <1>6
  <2>2. v = [any |-> v.any, items |-> v.items]
    BY <1>6, <2>1
  <2>3. IsValue(h, v)
    BY <1>9, <1>10, <2>1, <2>2, AnyGrammar
  <2> QED
    BY <1>8, <1>9, <2>3, MacroDispatch
<1>12. PICK lines : lines = wire'
  OBVIOUS
<1>13. AllTexts(lines) /\ Carries(name, lines, v)
  BY <1>7, <1>9, <1>11, <1>12, PrintedCarries
<1>14. meant'.val = v /\ ~Read'
  BY <1>0, <1>7 DEF Read
<1>15. KeptInv'
  BY <1>7, <1>12, <1>13, <1>14 DEF KeptInv
<1> QED
  BY <1>2, <1>7, <1>9, <1>15

(* A server answers a request for ranges.                                   *)
LEMMA KeptServe ==
    ASSUME KeptInv, ServeRange
    PROVE  header \in KeptHeaders /\ header' \in KeptHeaders /\ KeptInv' /\ AskedInv' /\ got' = <<>>
<1>0. \A x : Ok(x).val = x
  BY DEF Ok
<1>1. header = "Range" /\ Read /\ meant.ok /\ got # <<>> /\ got[1].val.unit = <<"bytes">>
  BY DEF ServeRange, Read
<1>2. PICK i \in DOMAIN meant.val.specs \cap DOMAIN got[1].val.specs, full \in FullLengths :
         Send("Content-Range", BytesRange(ToSatisfiableRange(got[1].val.specs[i], full), <<full>>),
              [range |-> meant.val, place |-> i, full |-> full])
  BY Zenon DEF ServeRange
<1>3. header \in KeptHeaders /\ "Content-Range" \in KeptHeaders
  BY <1>1, KeptNames
<1>4. PICK r, spec, range, length, v, question :
         /\ r = got[1].val /\ spec = r.specs[i] /\ range = ToSatisfiableRange(spec, full)
         /\ length = <<full>> /\ v = BytesRange(range, length)
         /\ question = [range |-> meant.val, place |-> i, full |-> full]
  OBVIOUS
<1>5. /\ header' = "Content-Range" /\ got' = <<>> /\ meant' = Ok(v) /\ wire' = PrintHeader("Content-Range", v)
      /\ asked' = question
  BY <1>2, <1>4, Zenon DEF Send
<1>6. IsByteRangeSpec(spec)
  <2>1. HasType("Range", r)
    BY <1>1, <1>3, <1>4 DEF KeptInv, Carries
  <2>2. IsRange(r) /\ r.unit = <<"bytes">> /\ i \in DOMAIN r.specs
    BY <1>1, <1>4, <2>1, RangeDispatch
  <2>3. \A k \in DOMAIN r.specs : IsByteRangeSpec(r.specs[k])
    BY <2>2, Zenon DEF IsRange
  <2> QED
    BY <1>4, <2>2, <2>3
<1>7. HasType("Content-Range", v)
  <2>1. IsSpan(range) /\ full \in Numbers
    BY <1>4, <1>6, SatisfiableIsSpan
  <2> HIDE DEF Numbers
  <2>2. IsExtent(length)
    BY <1>4, <2>1 DEF IsExtent
  <2>3. IsContentRange(v)
    BY <1>4, <2>1, <2>2, ContentRangeIs
  <2> QED
    BY <2>3, RangeDispatch
<1>8. PICK lines : lines = wire'
  OBVIOUS
<1>9. AllTexts(lines) /\ Carries("Content-Range", lines, v)
  BY <1>3, <1>5, <1>7, <1>8, PrintedCarries
<1>10. meant'.val = v /\ ~Read'
  BY <1>0, <1>5 DEF Read
<1>11. KeptInv'
  BY <1>5, <1>8, <1>9, <1>10 DEF KeptInv
<1>12. question.range = meant.val /\ question.place = i /\ question.full = full
  BY <1>4
<1>13. ASSUME Faithful("Range", meant.val) PROVE r = meant.val
  <2>1. got[1] = Ok(meant.val)
    BY <1>1, <1>3, <1>13 DEF KeptInv
  <2> QED
    BY <1>0, <1>4, <2>1
<1>14. AskedInv'
  <2> SUFFICES ASSUME Faithful("Range", meant.val)
               PROVE  /\ IsByteRangeSpec(meant.val.specs[i]) /\ full \in FullLengths
                      /\ meant' = Ok(BytesRange(ToSatisfiableRange(meant.val.specs[i], full), <<full>>))
    BY <1>5, <1>12 DEF AskedInv
  <2>1. r = meant.val
    BY <1>13
  <2> QED
    BY <1>4, <1>5, <1>6, <2>1
<1> QED
  BY <1>3, <1>5, <1>11, <1>14

(* No other header becomes one of these, and these become none.             *)
LEMMA KeptStep ==
    ASSUME TypeOK, KeptInv, [Next]_vars
    PROVE  /\ KeptInv' /\ (header' \in KeptHeaders <=> header \in KeptHeaders)
           /\ header \in KeptHeaders /\ got' # <<>> /\ Read /\ Faithful(header, got[1].val) =>
                 got'[1] = Ok(got[1].val) \/ got'[1] = got[1]
<1>1. CASE Relay
  <2>1. header' = header
    BY <1>1 DEF Relay
  <2>2. CASE header \in KeptHeaders
    BY <1>1, <2>1, <2>2, KeptRelay
  <2>3. CASE header \notin KeptHeaders
    BY <2>1, <2>3 DEF KeptInv
  <2> QED
    BY <2>2, <2>3
<1>2. CASE MergeLines
  <2>1. header' = header /\ got' = got
    BY <1>2 DEF MergeLines
  <2>2. CASE header \in KeptHeaders
    BY <1>2, <2>1, <2>2, KeptMerge
  <2>3. CASE header \notin KeptHeaders
    BY <2>1, <2>3 DEF KeptInv
  <2> QED
    BY <2>1, <2>2, <2>3
<1>3. CASE EncodeAppend
  <2>1. header' = header /\ got' = got
    BY <1>3 DEF EncodeAppend
  <2>2. CASE header \in KeptHeaders
    BY <1>3, <2>1, <2>2, KeptAppend
  <2>3. CASE header \notin KeptHeaders
    BY <2>1, <2>3 DEF KeptInv
  <2> QED
    BY <2>1, <2>2, <2>3
<1>4. CASE AddCookie
  <2>1. header = "Cookie" /\ header' = "Cookie"
    BY <1>4 DEF AddCookie, Send
  <2>2. header \notin KeptHeaders /\ header' \notin KeptHeaders
    BY <2>1, KeptNames
  <2> QED
    BY <2>2 DEF KeptInv
<1>5. CASE ServeRange
  BY <1>5, KeptServe
<1>6. CASE Revalidate
  BY <1>6, KeptRevalidate
<1>7. CASE UNCHANGED vars
  <2>1. header' = header /\ wire' = wire /\ meant' = meant /\ got' = got
    BY <1>7 DEF vars
  <2> QED
    BY <2>1 DEF KeptInv, Read
<1> QED
  BY <1>1, <1>2, <1>3, <1>4, <1>5, <1>6, <1>7 DEF Next

(* A value that Faithful allows is read back from the lines printed of it   *)
(* as it was, whatever text its items hold and however many there are       *)
(* (parse_header and fmt_header of the header! macro's headers without      *)
(* weights, of Range and Content-Range, and of the headers of one text, one *)
(* number or one word).                                                     *)
THEOREM KeptIsReadBack ==
    ASSUME NEW name \in KeptHeaders, NEW v, HasType(name, v), Faithful(name, v)
    PROVE  ParseHeader(name, PrintHeader(name, v)) = Ok(v)
<1>1. PICK lines : lines = PrintHeader(name, v)
  OBVIOUS
<1>2. Carries(name, lines, v)
  BY <1>1, PrintedCarries
<1> QED
  BY <1>1, <1>2 DEF Carries

(* However often one of these headers is read and printed again on its way, *)
(* whether its lines are combined or not and whatever is appended to it,    *)
(* its reader gets what its sender meant, if Faithful allows it             *)
(* (fmt_header and parse_header, TypedHeaders::encode_append).              *)
THEOREM MeaningIsKept == Spec => [](header \in KeptHeaders => MeaningKept)
<1>1. Init => KeptInv
  BY KeptInit
<1>2. TypeOK /\ KeptInv /\ [Next]_vars => KeptInv'
  BY KeptStep
<1>3. TypeOK /\ KeptInv => (header \in KeptHeaders => MeaningKept)
  <2> SUFFICES ASSUME TypeOK, KeptInv, header \in KeptHeaders,
                      got # <<>>, meant.ok, Faithful(header, meant.val)
               PROVE  got[1].ok /\ Same(header, got[1].val, meant.val)
    BY DEF MeaningKept
  <2>1. got[1] = Ok(meant.val)
    BY DEF KeptInv
  <2>2. got[1].ok /\ got[1].val = meant.val
    BY <2>1 DEF Ok
  <2>3. header \in DOMAIN MacroHeaders => ~MacroHeaders[header].weighted
    BY KeptNames
  <2>4. Same(header, meant.val, meant.val)
    BY <2>3 DEF Same
  <2> QED
    BY <2>2, <2>4
<1> QED
  BY <1>1, <1>2, <1>3, ExchangeTypeCorrect, PTL DEF Spec

(* What one reader of such a header passes on, the next one reads the same, *)
(* also where the sender's meaning is lost: if Faithful allows what was     *)
(* read, no later hop changes it.                                           *)
THEOREM NothingDrifts == Spec /\ header \in KeptHeaders => NoDrift
<1>1. Init => KeptInv
  BY KeptInit
<1>2. TypeOK /\ KeptInv /\ [Next]_vars => KeptInv' /\ (header \in KeptHeaders => (header \in KeptHeaders)')
  BY KeptStep
<1>3. TypeOK /\ KeptInv /\ header \in KeptHeaders /\ [Next]_vars
         => [Read /\ got' # <<>> /\ asked' = asked /\ Faithful(header, got[1].val)
               => got'[1].ok /\ Gist(header, got'[1].val) = Gist(header, got[1].val)]_vars
  <2> SUFFICES ASSUME TypeOK, KeptInv, header \in KeptHeaders, [Next]_vars,
                      Read, got' # <<>>, Faithful(header, got[1].val)
               PROVE  got'[1].ok /\ Gist(header, got'[1].val) = Gist(header, got[1].val)
    OBVIOUS
  <2>1. got'[1] = Ok(got[1].val) \/ got'[1] = got[1]
    BY KeptStep
  <2>2. CASE got'[1] = Ok(got[1].val)
    <3>1. got'[1].ok /\ got'[1].val = got[1].val
      BY <2>2 DEF Ok
    <3> QED
      BY <3>1
  <2>3. CASE got'[1] = got[1]
    BY <2>3 DEF Read
  <2> QED
    BY <2>1, <2>2, <2>3
<1> QED
  BY <1>1, <1>2, <1>3, ExchangeTypeCorrect, PTL DEF Spec, NoDrift

(* The bytes a Content-Range names are the bytes the client's Range asked   *)
(* for, as far as the representation has them, however often both were      *)
(* relayed, whatever positions, lengths and lists of ranges are sent        *)
(* (range.rs to_satisfiable_range, fmt_header and parse_header of Range and *)
(* Content-Range).                                                          *)
THEOREM RangesAreServed == Spec => []ServedIsAskedFor
<1>1. Init => KeptInv /\ AskedInv
  <2>1. Init => asked = <<>>
    BY DEF Init
  <2> QED
    BY <2>1, KeptInit DEF AskedInv
<1>2. TypeOK /\ KeptInv /\ [Next]_vars => KeptInv'
  BY KeptStep
<1>3. KeptInv /\ AskedInv /\ [Next]_vars => AskedInv'
  <2> SUFFICES ASSUME KeptInv, AskedInv, [Next]_vars PROVE AskedInv'
    OBVIOUS
  <2>1. CASE Relay
    BY <2>1 DEF Relay, AskedInv
  <2>2. CASE MergeLines
    BY <2>2 DEF MergeLines, AskedInv
  <2>3. CASE EncodeAppend
    BY <2>3 DEF EncodeAppend, AskedInv
  <2>4. CASE AddCookie
    <3>1. header' = "Cookie"
      BY <2>4 DEF AddCookie, Send
    <3> QED
      BY <3>1 DEF AskedInv
  <2>5. CASE ServeRange
    BY <2>5, KeptServe
  <2>6. CASE Revalidate
    <3>1. header' \in {"If-None-Match", "If-Match"}
      BY <2>6 DEF Revalidate, Send
    <3> QED
      BY <3>1 DEF AskedInv
  <2>7. CASE UNCHANGED vars
    BY <2>7 DEF vars, AskedInv
  <2> QED
    BY <2>1, <2>2, <2>3, <2>4, <2>5, <2>6, <2>7 DEF Next
<1>4. KeptInv /\ AskedInv => ServedIsAskedFor
  <2> SUFFICES ASSUME KeptInv, AskedInv, header = "Content-Range", asked # <<>>, got # <<>>,
                      Faithful("Range", asked.range)
               PROVE  LET range == got[1].val.range
                          spec == asked.range.specs[asked.place]
                      IN  /\ got[1].ok
                          /\ got[1].val.length = <<asked.full>>
                          /\ (IF range = <<>> THEN {} ELSE range[1]..range[2])
                             = {p \in 0..(asked.full - 1) : Wanted(spec, p, asked.full)}
    BY Zenon DEF ServedIsAskedFor
  <2>1. PICK spec, full, range, length, v :
           /\ spec = asked.range.specs[asked.place] /\ full = asked.full
           /\ range = ToSatisfiableRange(spec, full) /\ length = <<full>> /\ v = BytesRange(range, length)
    OBVIOUS
  <2>2. IsByteRangeSpec(spec) /\ full \in FullLengths /\ meant = Ok(v)
    BY <2>1 DEF AskedInv
  <2>3. meant.ok /\ meant.val = v
    BY <2>2 DEF Ok
  <2>4. /\ Onward(range)
        /\ (IF range = <<>> THEN {} ELSE range[1]..range[2]) = {p \in 0..(full - 1) : Wanted(spec, p, full)}
    BY <2>1, <2>2, SatisfiableIsSpan
  <2>5. Faithful("Content-Range", v)
    BY <2>1, <2>4, RangeDispatch, ContentRangeIs
  <2>6. got[1] = Ok(v)
    BY <2>3, <2>5, KeptNames DEF KeptInv
  <2>7. got[1].ok /\ got[1].val = v
    BY <2>6 DEF Ok
  <2>8. got[1].val.range = range /\ got[1].val.length = length
    BY <2>1, <2>7 DEF BytesRange
  <2> QED
    BY <2>1, <2>4, <2>7, <2>8
<1> QED
  BY <1>1, <1>2, <1>3, <1>4, ExchangeTypeCorrect, PTL DEF Spec

=============================================================================
