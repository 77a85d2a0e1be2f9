------------------------------ MODULE MCFrontEnd ------------------------------
(***************************************************************************)
(* Files over an event type "net" with fields of every type: every two     *)
(* lexemes side by side; conditions with every two operators and           *)
(* three levels of precedence; operands of every type joined by operators  *)
(* of every class; statements of every form; and sample files with one     *)
(* token left out, doubled, replaced or cut off.  Words and longs both     *)
(* have six bits.                                                          *)
(***************************************************************************)
EXTENDS Language

KeywordType ==
    [w \in {"and", "or", "not", "true", "false", "startswith", "istartswith", "endswith", "iendswith",
            "contains", "icontains", "iequals", "matches", "for", "any", "all", "in", "private",
            "rule", "sequence", "event"} |->
        CASE w = "and" -> "AND" [] w = "or" -> "OR" [] w = "not" -> "NOT"
          [] w = "true" -> "TRUE" [] w = "false" -> "FALSE"
          [] w = "startswith" -> "STARTSWITH" [] w = "istartswith" -> "ISTARTSWITH"
          [] w = "endswith" -> "ENDSWITH" [] w = "iendswith" -> "IENDSWITH"
          [] w = "contains" -> "CONTAINS" [] w = "icontains" -> "ICONTAINS"
          [] w = "iequals" -> "IEQUALS" [] w = "matches" -> "MATCHES"
          [] w = "for" -> "FOR" [] w = "any" -> "ANY" [] w = "all" -> "ALL" [] w = "in" -> "IN"
          [] w = "private" -> "PRIVATE" [] w = "rule" -> "RULE"
          [] w = "sequence" -> "SEQUENCE" [] w = "event" -> "IMPORT"]

Names == {"net", "file", "r", "q", "w", "n", "s", "t", "arr", "items", "st", "call", "zero", "i", "m", "x", "k"}
MCWords == DOMAIN KeywordType \cup Names \cup {"a", "c", "A"}
MCDigitValue == "0" :> 0 @@ "1" :> 1 @@ "2" :> 2 @@ "3" :> 3 @@ "5" :> 5 @@ "9" :> 9 @@ "a" :> 10 @@ "c" :> 12 @@ "A" :> 10
MCEscape == "n" :> "newline" @@ "\"" :> "\"" @@ "\\" :> "\\"

Value(base, array, function, args) ==
    [base |-> base, array |-> array, function |-> function, args |-> args, fields |-> <<>>]
Struct(array, fields) ==
    [base |-> "struct", array |-> array, function |-> FALSE, args |-> <<>>, fields |-> fields]
Plain(base) == Value(base, FALSE, FALSE, <<>>)

MCSchema ==
    "net" :> ("n" :> Plain("num") @@ "s" :> Plain("str") @@ "t" :> Plain("bool")
              @@ "arr" :> Value("num", TRUE, FALSE, <<>>) @@ "st" :> Struct(FALSE, "n" :> Plain("num"))
              @@ "items" :> Struct(TRUE, "n" :> Plain("num"))
              @@ "call" :> Value("num", FALSE, TRUE, <<"num", "str">>)
              @@ "zero" :> Value("bool", FALSE, TRUE, <<>>))
    @@ "file" :> ("n" :> Plain("num"))

-----------------------------------------------------------------------------
(* Lexemes *)

Lexeme(cells, new) == [cells |-> cells, new |-> new]
TwoCells ==
    "==" :> <<"=", "=">> @@ "!=" :> <<"!", "=">> @@ "<=" :> <<"<", "=">> @@ ">=" :> <<">", "=">>
    @@ "<<" :> <<"<", "<">> @@ ">>" :> <<">", ">">> @@ ".." :> <<".", ".">>

Literals ==
    "0" :> Lexeme(<<"0">>, <<Token("NUMBER", 0)>>) @@ "1" :> Lexeme(<<"1">>, <<Token("NUMBER", 1)>>)
    @@ "2" :> Lexeme(<<"2">>, <<Token("NUMBER", 2)>>)
    @@ "95" :> Lexeme(<<"9", "5">>, <<Token("NUMBER", 63)>>)
    @@ "0xA1" :> Lexeme(<<"0", "x", "A", "1">>, <<Token("NUMBER", 63)>>)
    @@ "0xa" :> Lexeme(<<"0", "x", "a">>, <<Token("NUMBER", 10)>>)
    @@ "n1" :> Lexeme(<<"n", "1">>, <<Token("IDENTIFIER", <<"n", "1">>)>>)
    @@ "'x'" :> Lexeme(<<"'", "x", "'">>, <<Token("STRING", <<"x">>)>>)
    @@ "''" :> Lexeme(<<"backtick", "backtick">>, <<Token("STRING", <<>>)>>)
    @@ "'/n'" :> Lexeme(<<"\"", "\\", "n", "\\", "\"", "/", "/", "\"">>,
                        <<Token("STRING", <<"newline", "\"", "/", "/">>)>>)
    @@ "/x/" :> Lexeme(<<"/", "x", "\\", "n", "/">>, <<Token("REGEX", <<"x", "\\", "n">>)>>)
    @@ "/x/im" :> Lexeme(<<"/", "x", "/", "i", "m", "i">>,
                         <<[type |-> "REGEX", value |-> <<"x">>, flags |-> {"i", "m"}]>>)

Passed ==
    " " :> Lexeme(<<" ">>, <<>>) @@ "newline" :> Lexeme(<<"newline">>, <<>>)
    @@ "//" :> Lexeme(<<"/", "/", "x", "*", "/", "newline">>, <<>>)
    @@ "/**/" :> Lexeme(<<"/", "*", "x", "newline", "/", "*", "newline", "/", "*", "/">>, <<>>)

\* The lexemes that the scanner refuses or loses, at the end of a file.
Refusals ==
    "E1" :> Lexeme(<<"\"", "x">>, <<>>) @@ "E2" :> Lexeme(<<"\"", "x", "newline", "\"">>, <<>>)
    @@ "E3" :> Lexeme(<<"\"", "\\", "x", "\"">>, <<>>) @@ "E4" :> Lexeme(<<"\"", "\\">>, <<>>)
    @@ "E5" :> Lexeme(<<" ", "0", "x">>, <<>>) @@ "E6" :> Lexeme(<<"/", "*", "x">>, <<>>)
    @@ "E7" :> Lexeme(<<"/", "/", "x">>, <<>>)
    @@ "E8" :> Lexeme(<<" ", "matches", "/", "x", "newline">>, <<>>)
    @@ "E9" :> Lexeme(<<" ", "matches", "/", "x", "/">>, <<>>)
    @@ "E10" :> Lexeme(<<" ", "3", "1">>, <<>>)

Keys ==
    UNION {DOMAIN Literals, DOMAIN Passed, DOMAIN Refusals, DOMAIN TwoCells, DOMAIN Single, DOMAIN Short,
           MCWords, {"/"}}

MCLexemeOf ==
    [k \in Keys |->
        IF k \in DOMAIN Literals THEN Literals[k]
        ELSE IF k \in DOMAIN Passed THEN Passed[k]
        ELSE IF k \in DOMAIN Refusals THEN Refusals[k]
        ELSE IF k \in DOMAIN TwoCells THEN Lexeme(TwoCells[k], <<Token(Long[TwoCells[k]], <<>>)>>)
        ELSE IF k \in DOMAIN Single THEN Lexeme(<<k>>, <<Token(Single[k], <<>>)>>)
        ELSE IF k \in DOMAIN Short THEN Lexeme(<<k>>, <<Token(Short[k], <<>>)>>)
        ELSE IF k = "/" THEN Lexeme(<<k>>, <<Token("DIV", <<>>)>>)
        ELSE IF k \in DOMAIN KeywordType THEN Lexeme(<<k>>, <<Token(KeywordType[k], <<>>)>>)
        ELSE Lexeme(<<k>>, <<Token("IDENTIFIER", <<k>>)>>)]

Numbers == {"0", "1", "2", "95", "0xA1", "0xa"}
WordLike == MCWords \cup Numbers \cup {"n1"}

\* Two lexemes that would be one, or others, if nothing stood between them.
Glued(a, b) ==
    CASE a \in {"0", "1", "2", "95"} -> b \in {"A", "x"} \cup Numbers
      [] a \in {"(", ")", "[", "]", "{", "}", ",", ":", "==", "'x'", "''", "'/n'"} -> FALSE
      [] a \in {"!", "="} -> b \in {"=", "=="}
      [] a \in {"<", ">"} -> b \in {"=", "==", a, a \o a, a \o "="}
      [] a \in {".", "\\"} -> b \in {".", ".."}
      [] a = "/" -> b \in {"/", "*", "//", "/**/", "/x/", "/x/im"}
      [] OTHER -> a \in WordLike \cup {"/x/", "/x/im"} /\ b \in WordLike

\* The lexemes of a list with what stands between them: "tight", only the
\* blanks that are needed; "wide", blanks, newlines and comments in turn.
Laid(keys, layout) ==
    LET Gap(i) == IF layout = "wide"
                  THEN CASE i % 4 = 0 -> <<" ">> [] i % 4 = 1 -> <<"newline">>
                         [] i % 4 = 2 -> <<" ", "//">> [] OTHER -> <<" ", "/**/">>
                  ELSE IF i < Len(keys) /\ Glued(keys[i], keys[i + 1]) THEN <<" ">> ELSE <<>>
        laid[i \in 0..Len(keys)] == IF i = 0 THEN <<>> ELSE laid[i - 1] \o <<keys[i]>> \o Gap(i)
    IN  laid[Len(keys)]

File(keys, layout, wellFormed) ==
    [lexemes |-> Laid(keys, layout), wellFormed |-> wellFormed]

-----------------------------------------------------------------------------
(* Programs *)

Sides == {"==", "!", "<", "<=", ">", ">>", ".", "..", "/", "(", "-", "*", "#", "=", "\\", "0", "95", "0xA1",
          "n1", "n", "i", "and", "matches", "'x'", "''", "'/n'"}
Pairs ==
    {File(<<p[1], p[2]>>, "tight", FALSE) :
        p \in Sides \X Sides \ {<<"matches", "/">>}}
    \cup {File(<<a, b>>, "wide", FALSE) : a \in {"/", "n", "0", "'x'"}, b \in Sides}

\* Files that the scanner refuses, or of which it drops the end.
Broken ==
    {[lexemes |-> <<"n", e>>, wellFormed |-> FALSE] : e \in DOMAIN Refusals}

Rule(cond) == <<"rule", "r", ":", "net", "{">> \o cond \o <<"}">>

Binary == {"and", "or", "==", "!=", "contains", "icontains", "startswith", "istartswith", "endswith",
           "iendswith", "iequals", "<", "<=", ">", ">=", "+", "-", "*", "/", "%", "<<", ">>", "&", "^", "|"}
OfLevel == {"and", "or", "==", "<", "-", "*", "<<", "&", "^", "|"}
Looser == {"and", "or", "==", "<", "-", "*"}
Signs == {<<>>, <<"-">>, <<"!", "~">>, <<"#">>}

TwoOperators == {Rule(<<"n", a, "1", b, "s">>) : a \in Binary, b \in Binary}
ThreeOperators == {Rule(<<"n", a, "1", b, "s", c, "x">>) : a \in Looser, b \in Looser, c \in Looser}
Prefixed ==
    {Rule(p \o <<"n", a>> \o q \o <<"s", ".", "n", b, "1">>) :
        a \in OfLevel, b \in {"and", "<", "-", "&"}, p \in Signs \cup {<<"not">>}, q \in Signs}
    \cup {Rule(<<"n", a, "not", "-", "x", b, "1">>) : a \in {"and", "or"}, b \in OfLevel}

\* Operands: of each type, of none, and those that are dealt with specially.
Operands ==
    { <<"1">>, <<"true">>, <<"'x'">>, <<"q">>, <<"w">>, <<"r">>, <<"x">>, <<"net">>,
      <<"net", ".", "n">>, <<"net", ".", "s">>, <<"net", ".", "t">>, <<"net", ".", "x">>,
      <<"file", ".", "n">>, <<"net", ".", "arr">>, <<"net", ".", "arr", "[", "net", ".", "n", "]">>,
      <<"net", ".", "arr", "[", "'x'", "]">>, <<"net", ".", "n", "[", "1", "]">>,
      <<"net", ".", "call">>, <<"net", ".", "call", "(", "1", ",", "net", ".", "s", ")">>,
      <<"net", ".", "call", "(", "1", ",", "true", ")">>, <<"net", ".", "call", "(", "1", ")">>,
      <<"net", ".", "zero", "(", ")">>, <<"net", ".", "call", "(", ")">>,
      <<"net", ".", "st", ".", "n">>, <<"net", ".", "st">>, <<"net", ".", "n", ".", "x">>,
      <<"net", ".", "items", "[", "1", "]", ".", "n">>, <<"net", ".", "items", "[", "'x'", "]", ".", "n">>,
      <<"net", ".", "items", "[", "1", "]">>, <<"net", ".", "call", "(", "1", ",", "'x'", ")", ".", "n">>,
      <<"(", "net", ")", ".", "n">>, <<"(", "net", ".", "arr", ")", "[", "1", "]">>,
      <<"net", ".", "st", ".", "n", "(", "1", ")", ".", "x">>, <<"x", "(", "1", ")">>,
      <<"net", ".", "st", ".", "n", "(", "1", ")">>, <<"'x'", ".", "n">>,
      <<"(", "net", ".", "n", "+", "1", ")">>, <<"#", "net", ".", "s">>, <<"-", "net", ".", "n">>,
      <<"-", "net", ".", "s">>, <<"not", "net", ".", "t">>, <<"!", "(", "q", ")">> }
Classes == {"and", "==", "<", "+", "contains"}

\* The names q (a rule for net) and w (a sequence) are declared before.
Named(cond) ==
    <<"event", "net", "rule", "q", ":", "net", "{", "true", "}", "sequence", "w", "[", "q", "]">> \o Rule(cond)

For(quantifier, from, to, cond) ==
    <<"for">> \o quantifier \o <<"i", "in", "(">> \o from \o <<"..">> \o to \o <<")", ":", "(">> \o cond \o <<")">>

Ranges ==
    {For(<<"all">>, <<"0">>, to, cond) :
        to \in { <<"net", ".", "n">>, <<"net", ".", "s">>, <<"i">> },
        cond \in { <<"net", ".", "arr", "[", "i", "]", "==", "1">>, <<"i">>, <<"i", "<", "k">>,
                   For(<<"2">>, <<"i">>, <<"1">>, <<"true">>),
                   <<"not", "net", ".", "items", "[", "i", "+", "1", "]", ".", "n", "==", "i">> }}
    \cup {For(<<"any">>, <<"0">>, <<"1">>, <<"true">>), For(<<"any", "2">>, <<"0">>, <<"1">>, <<"true">>),
          For(<<"2">>, <<"-", "1">>, <<"(", "2", ")">>, <<"q">>) \o <<"and", "q">>,
          For(<<"1">>, <<"0">>, <<"2">>, <<"true">>) \o <<".", "n">>}

Conditions ==
    {<<a, "matches", "/x/">> : a \in {"1", "'x'"}} \cup {<<"net", ".", "s", "matches", "/x/im">>}
    \cup Operands \cup Ranges
    \cup {a \o <<op>> \o b : a \in Operands, op \in Classes,
                             b \in {<<"1">>, <<"true">>, <<"'x'">>}}

Quantified(keys) == \E i \in 1..(Len(keys) - 2) : keys[i] = "any" /\ keys[i + 1] = "2"

Body(cond) == <<"{">> \o cond \o <<"}">>
Statements ==
    { <<"event", "net">>, <<"event", "net", "event", "net", "event", "x">>,
      <<"rule", "r">> \o Body(<<"true">>), <<"rule", "r">> \o Body(<<"net", ".", "t">>),
      <<"rule", "r", ":", "x">> \o Body(<<"true">>),
      <<"rule", "q">> \o Body(<<"true">>) \o <<"rule", "r">> \o Body(<<"q">>) \o Rule(<<"q">>),
      <<"private", "rule", "q", ":", "file">> \o Body(<<"file", ".", "n", "<", "1">>)
        \o <<"private", "rule", "q", ":", "file">> \o Body(<<"q">>),
      <<"rule", "q", ":", "net">> \o Body(<<"true">>) \o <<"rule", "r", ":", "file">> \o Body(<<"q">>),
      <<"rule", "q", ":", "net">> \o Body(<<"1">>) \o Rule(<<"q">>) \o <<"event", "q">>,
      Rule(<<"r">>) \o <<"event", "r">>, <<"event", "r">> \o Rule(<<"true">>),
      <<"sequence", "w", "[", "r", "]">> \o Rule(<<"true">>), <<"sequence", "w", "[", "]">>,
      Rule(<<"true">>) \o <<"sequence", "w", ":", "2", "s", "[", "r", ",", "r", "]">> \o <<"sequence", "w", "[", "w", "]">>,
      <<"sequence", "w", "[", ":", "net">> \o Body(<<"net", ".", "t">>) \o <<",">> \o Body(<<"true">>) \o <<"]">>,
      <<"sequence", "w", "[", ":", "net">> \o Body(<<"net", ".", "n">>) \o <<",", "x", "]">>,
      <<"sequence", "w", ":", "1", "m", "[", ":", "x">> \o Body(<<"true">>) \o <<"]">>,
      <<"sequence", "w", ":", "2", "m", "[">> \o Body(<<"true">>) \o <<"]">>,
      <<"sequence", "w", ":", "0xA1", "m", "[">> \o Body(<<"(", "net", ")", ".", "n">>) \o <<"]">> }

Samples ==
    { Named(<<"net", ".", "call", "(", "1", ",", "-", "1", ")", "+", "net", ".", "arr", "[", "2", "]">>),
      Rule(For(<<"all">>, <<"0">>, <<"1">>, <<"n", "(", "s", ",", "x", ")", ".", "n", "==", "1">>)),
      Rule(<<"n", "(", "s", "[", "1", "]", "(", "x", ")", ".", "n", ")", "and", "not", "x", "|", "(", "1", ")">>),
      <<"private", "rule", "q">> \o Body(<<"n", "and", "(", "s", "or", "x", ")", "<", "1">>)
        \o <<"sequence", "w", ":", "2", "m", "[", "q", ",", ":", "net">> \o Body(<<"true">>) \o <<"]">> }

Without(keys, k) == SubSeq(keys, 1, k - 1) \o SubSeq(keys, k + 1, Len(keys))
With(keys, k, key) == SubSeq(keys, 1, k) \o <<key>> \o SubSeq(keys, k + 1, Len(keys))
Damaged ==
    UNION {{Without(keys, k) : k \in 1..Len(keys)} \cup {SubSeq(keys, 1, k) : k \in 1..(Len(keys) - 1)}
           \cup {With(keys, k, key) : k \in 1..Len(keys), key \in {")", "}", "(", "x", "for", ":"}}
           \cup {With(Without(keys, k), k - 1, key) : k \in 1..Len(keys), key \in {"]", "{", "not", "rule"}}
           : keys \in Samples}

MCPrograms ==
    Pairs \cup Broken
    \cup {File(keys, "tight", TRUE) : keys \in TwoOperators \cup ThreeOperators \cup Prefixed \cup Statements}
    \cup {File(keys, "wide", TRUE) : keys \in Statements}
    \cup {File(Named(c), "tight", ~Quantified(c)) : c \in Conditions}
    \cup {File(keys, "tight", FALSE) : keys \in Damaged}

\* The promise of the scanner is for all of them but the broken ones.
ASSUME LexicalFiles ==
    \A p \in MCPrograms : p \in Broken <=> ~Lexical(p.lexemes)
=============================================================================
