--------------------------- MODULE MCHeaderStore ---------------------------
(***************************************************************************)
(* A map of the headers Authorization, read as either of two types, and    *)
(* Content-Disposition. Lines and values go by names; TablesAreReal says   *)
(* that they are read and printed as HeaderTypes does.                     *)
(***************************************************************************)
EXTENDS HeaderStoreProps, TLC

CONSTANTS BasicAuth, TextAuth, Disposition

Real == INSTANCE HeaderTypes

MCTypes == {BasicAuth, TextAuth, Disposition}
RustName == BasicAuth :> "Authorization<Basic>" @@ TextAuth :> "Authorization<String>"
            @@ Disposition :> "Content-Disposition"

MCSpellings ==
    {"Authorization", "authorization", "Content-Disposition", "content-disposition", "not a name"}
MCLowerCase == [s \in MCSpellings |->
    CASE s \in {"Authorization", "authorization"} -> "authorization"
      [] s \in {"Content-Disposition", "content-disposition"} -> "content-disposition"
      [] OTHER -> s]
MCNoHttpNames == {"not a name"}
\* Content-Disposition is not among the literals of header/mod.rs.
MCLiteral == [s \in MCSpellings |-> IF s = "authorization" THEN "Authorization" ELSE s]
MCHeaderName == BasicAuth :> "Authorization" @@ TextAuth :> "Authorization"
                @@ Disposition :> "Content-Disposition"

MCLines == {"basic line", "control line", "bytes line"}
MCUnsendable == {"control line"}
MCNotText == {"bytes line"}
MCGiven == {<<>>, <<"basic line">>, <<"bytes line">>}
MCMaxLines == 2
MCMaxEntries == 2
LineListsUsed == UNION {[1..k -> MCLines] : k \in 0..MCMaxLines}

\* The values that can be read, and two that programs build: credentials without a password, and
\* a file name that is not text, which is written only in the extended format. A control
\* character in a value is printed as it is.
ReadAs ==
    BasicAuth :> (<<"basic line">> :> "empty password")
    @@ TextAuth :> (<<"basic line">> :> "basic text" @@ <<"control line">> :> "control text")
    @@ Disposition :> (<<"basic line">> :> "basic type" @@ <<"control line">> :> "control type")
MCFormat ==
    BasicAuth :> ("empty password" :> <<"basic line">> @@ "no password" :> <<"basic line">>)
    @@ TextAuth :> ("basic text" :> <<"basic line">> @@ "control text" :> <<"control line">>)
    @@ Disposition :> ("basic type" :> <<"basic line">> @@ "control type" :> <<"control line">>
                       @@ "bad name" :> Panics)
MCParse == [t \in MCTypes |-> [l \in LineListsUsed |-> IF l \in DOMAIN ReadAs[t] THEN ReadAs[t][l] ELSE NoValue]]
MCValues == [t \in MCTypes |-> DOMAIN MCFormat[t]]

-----------------------------------------------------------------------------
Text == "basic line" :> <<"Basic", " ", "QWxhZGRpbjo=">> @@ "control line" :> <<"NUL">>
        @@ "bytes line" :> <<Real!NotUtf8>>
Texts(lines) == [i \in DOMAIN lines |-> Text[lines[i]]]

Aladdin(password) == [username |-> <<"Aladdin">>, password |-> password]
TypeOnly(t) == [disposition |-> t, parameters |-> <<>>]
Meaning == "empty password" :> Aladdin(<<<<>>>>) @@ "no password" :> Aladdin(<<>>)
           @@ "basic text" :> Text["basic line"] @@ "control text" :> Text["control line"]
           @@ "bad name" :> [disposition |-> <<"attachment">>,
                             parameters |-> <<Real!Filename(<<"UTF-8">>, <<>>, <<Real!NotUtf8>>)>>]
           @@ "basic type" :> TypeOnly(Text["basic line"]) @@ "control type" :> TypeOnly(Text["control line"])

ASSUME TablesAreReal ==
    \A t \in MCTypes :
        /\ \A l \in LineListsUsed :
              LET reading == Real!ParseHeader(RustName[t], Texts(l))
              IN  IF reading.ok THEN MCParse[t][l] # NoValue /\ Meaning[MCParse[t][l]] = reading.val
                  ELSE MCParse[t][l] = NoValue
        /\ \A v \in MCValues[t] :
              IF Real!CanPrint(RustName[t], Meaning[v])
              THEN MCFormat[t][v] # Panics /\ Texts(MCFormat[t][v]) = Real!PrintHeader(RustName[t], Meaning[v])
              ELSE MCFormat[t][v] = Panics
=============================================================================
