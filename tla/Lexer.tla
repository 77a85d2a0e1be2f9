-------------------------------- MODULE Lexer ---------------------------------
(***************************************************************************)
(* The scanner (libalca/lexer.c): one step per ac_lex_scanToken, which     *)
(* takes one lexeme, blank or comment off the source.                      *)
(*                                                                         *)
(* The source is a sequence of cells: a punctuation character, quote,      *)
(* digit, blank, newline, or a group of letters that the scanner takes as  *)
(* a whole.  An identifier or a string is the sequence of its cells, the   *)
(* value NULL of an empty string the empty sequence.                       *)
(***************************************************************************)
EXTENDS Naturals, Sequences, FiniteSets

CONSTANTS
    Words,        \* groups of letters and underscores
    Keywords,     \* [keyword -> its token type, none of them EOF]
    DigitValue,   \* [digit or hexadecimal letter -> its value]
    LowerHex, UpperHex,   \* the hexadecimal letters, words of one letter
    Modifiers,    \* the letters that may follow a regex
    Escape,       \* [character after a backslash -> the character it stands for]
    Word,         \* the integers are those of a word: 2^32 in the code
    LongMax       \* LONG_MAX: half a word less one on Windows, beyond a word elsewhere

Digits == DOMAIN DigitValue \ (LowerHex \cup UpperHex)

Single ==
    [c \in {"(", ")", "[", "]", "{", "}", ",", "+", "-", "*", "%", "|", "&", "~", "^", ":", "#"} |->
        CASE c = "(" -> "LPAREN"   [] c = ")" -> "RPAREN"
          [] c = "[" -> "LBRACKET" [] c = "]" -> "RBRACKET"
          [] c = "{" -> "LBRACE"   [] c = "}" -> "RBRACE"
          [] c = "," -> "COMMA"    [] c = ":" -> "COLON"
          [] c = "+" -> "PLUS"     [] c = "-" -> "MINUS"
          [] c = "*" -> "MULT"     [] c = "%" -> "MOD"
          [] c = "|" -> "PIPE"     [] c = "&" -> "BITAND"
          [] c = "~" -> "BITNOT"   [] c = "^" -> "BITXOR"
          [] c = "#" -> "HASH"]

\* A backslash is scanned like a dot.
Short ==
    [c \in {"\\", ".", "!", "=", ">", "<"} |->
        CASE c \in {"\\", "."} -> "DOT" [] c = "!" -> "BANG" [] c = "=" -> "EQUAL"
          [] c = ">" -> "GREATER" [] c = "<" -> "LESS"]

Long ==
    [c \in {<<"\\", ".">>, <<".", ".">>, <<"!", "=">>, <<"=", "=">>, <<">", "=">>, <<">", ">">>,
            <<"<", "=">>, <<"<", "<">>} |->
        CASE c[2] = "." -> "DOT_DOT"
          [] c = <<"!", "=">> -> "BANG_EQUAL"    [] c = <<"=", "=">> -> "EQUAL_EQUAL"
          [] c = <<">", "=">> -> "GREATER_EQUAL" [] c = <<">", ">">> -> "SHR"
          [] c = <<"<", "=">> -> "LESS_EQUAL"    [] c = <<"<", "<">> -> "SHL"]

Quotes == {"backtick", "\"", "'"}

\* The cells that begin a lexeme and are neither letters nor digits.
Marks == DOMAIN Single \cup DOMAIN Short \cup {"/"} \cup Quotes

ASSUME LexerAssumption ==
    /\ DOMAIN Keywords \subseteq Words
    /\ \A w \in DOMAIN Keywords : Keywords[w] # "EOF"
    /\ LowerHex \cup UpperHex \cup Modifiers \subseteq Words
    /\ Words \cap DOMAIN DigitValue = LowerHex \cup UpperHex
    /\ (Words \cup DOMAIN DigitValue) \cap (Marks \cup {"newline", ""}) = {}
    /\ "x" \notin DOMAIN DigitValue
    /\ Word \in Nat \ {0} /\ LongMax \in Nat

VARIABLES
    source,    \* the text being scanned
    current,   \* the number of cells taken
    line,      \* the line of the next cell
    tokens,
    status     \* "SUCCESS", "UNSUCCESSFUL" or "CRASHED"

lexer == <<source, current, line, tokens, status>>

LexInit(text) ==
    /\ source = text
    /\ current = 0 /\ line = 1
    /\ tokens = <<>>
    /\ status = "SUCCESS"

lex_isEof == current >= Len(source)

-----------------------------------------------------------------------------
\* Cells by their position from current, the next one being number 1; "" is NUL.
lex_peek(k) == IF current + k <= Len(source) THEN source[current + k] ELSE ""

Token(type, value) == [type |-> type, value |-> value, flags |-> {}]

Newlines(n) == {k \in 1..n : lex_peek(k) = "newline"}

OnLine(n) == IF Newlines(n) = {} THEN line ELSE line + 1   \* mutant: counts once per lexeme

\* The line after n cells.
LineAfter(n) == line + Cardinality(Newlines(n))

AddTokensEarly(new, n) ==   \* mutant: the end is seen one cell before it is reached
    LET all == IF current + n + 1 >= Len(source) THEN Append(new, Token("EOF", <<>>)) ELSE new
    IN  [i \in 1..Len(all) |-> [type |-> all[i].type, value |-> all[i].value,
                                flags |-> all[i].flags, line |-> LineAfter(n)]]

\* lex_add_token for the new tokens, and for EOF if n cells reach the end.
AddTokens(new, n) ==
    LET all == IF current + n >= Len(source) THEN Append(new, Token("EOF", <<>>)) ELSE new
    IN  [i \in 1..Len(all) |-> [type |-> all[i].type, value |-> all[i].value,
                                flags |-> all[i].flags, line |-> LineAfter(n)]]

\* n cells are taken and the new tokens added.
Take(n, new) ==
    /\ current' = current + n
    /\ line' = LineAfter(n)
    /\ tokens' = tokens \o AddTokens(new, n)
    /\ UNCHANGED <<source, status>>

\* lex_panic after n cells; nothing is scanned any more.
Panic(n, how) ==
    /\ current' = current + n
    /\ line' = LineAfter(n)
    /\ status' = how
    /\ UNCHANGED <<source, tokens>>

Rest == 1..(Len(source) - current)
FirstOf(S) == CHOOSE k \in S : \A j \in S : k <= j

\* How many cells from number k on are in S.
RunOf(k, S) ==
    LET others == {j \in Rest : j >= k /\ lex_peek(j) \notin S}
    IN  (IF others = {} THEN Len(source) - current + 1 ELSE FirstOf(others)) - k

Cells(k, n) == SubSeq(source, current + k, current + k + n - 1)

At(S) == status = "SUCCESS" /\ ~lex_isEof /\ lex_peek(1) \in S

-----------------------------------------------------------------------------
Punctuation == At(DOMAIN Single) /\ Take(1, <<Token(Single[lex_peek(1)], <<>>)>>)

OneOrTwo ==
    /\ At(DOMAIN Short)
    /\ LET two == <<lex_peek(1), lex_peek(2)>>
       IN  IF two \in DOMAIN Long THEN Take(2, <<Token(Long[two], <<>>)>>)
                                  ELSE Take(1, <<Token(Short[lex_peek(1)], <<>>)>>)

\* The last cell of a comment: a newline, or the slash after an asterisk.
CommentEnds ==
    {k \in Rest : /\ k > 2
                  /\ IF lex_peek(2) = "/" THEN lex_peek(k) = "newline"
                     ELSE k > 3 /\ lex_peek(k - 1) = "*" /\ lex_peek(k) = "/"}

AtComment == At({"/"}) /\ lex_peek(2) \in {"/", "*"}

lex_handleComment ==
    /\ AtComment
    /\ IF CommentEnds = {} THEN Panic(Len(source) - current, "UNSUCCESSFUL")
                           ELSE Take(FirstOf(CommentEnds), <<>>)

lex_last_token_type == IF tokens = <<>> THEN "EOF" ELSE tokens[Len(tokens)].type

Division ==
    /\ At({"/"}) /\ ~AtComment
    /\ lex_last_token_type # "MATCHES"
    /\ Take(1, <<Token("DIV", <<>>)>>)

\* Which cells are backslashes that begin an escape sequence, cells[1] being the
\* delimiter of a literal; a regex has none.
Escapes(cells) ==
    LET e[k \in 1..Len(cells)] == k > 1 /\ cells[1] # "/" /\ cells[k] = "\\" /\ ~e[k - 1]
    IN  e

Ahead == Cells(1, Len(source) - current)

\* The first cell that ends the literal: its delimiter, or one that is refused.
Refused(k) == IF Escapes(Ahead)[k - 1] THEN lex_peek(k) \notin DOMAIN Escape ELSE lex_peek(k) = "newline"
LiteralEnds == {k \in Rest \ {1} : Refused(k) \/ (~Escapes(Ahead)[k - 1] /\ lex_peek(k) = lex_peek(1))}

\* What a literal stands for, its delimiters being the first and the last cell.
Content(cells) ==
    LET escapes == Escapes(cells)
        kept == SelectSeq([j \in 1..(Len(cells) - 2) |-> j + 1], LAMBDA j : ~escapes[j])
    IN  [i \in 1..Len(kept) |-> IF escapes[kept[i] - 1] THEN Escape[cells[kept[i]]] ELSE cells[kept[i]]]

\* The modifiers after a regex; the token is added by the cell that follows them.
RegexTakes(k) ==
    LET n == RunOf(k + 1, Modifiers)
    IN  Take(k + n, IF current + k + n >= Len(source) THEN <<>>
                    ELSE <<[type |-> "REGEX", value |-> Content(Cells(1, k)),
                            flags |-> {lex_peek(k + j) : j \in 1..n}]>>)

\* A literal that the end of the source cuts off is dropped without an error,
\* unless it is cut off inside an escape sequence.
lex_handleString ==
    /\ At(Quotes) \/ (At({"/"}) /\ ~AtComment /\ lex_last_token_type = "MATCHES")
    /\ LET k == FirstOf(LiteralEnds)
           rest == Len(source) - current
       IN  IF LiteralEnds = {}
           THEN IF Escapes(Ahead)[rest] THEN Panic(rest + 1, "UNSUCCESSFUL") ELSE Take(rest, <<>>)
           ELSE IF Refused(k) THEN Panic(k, "UNSUCCESSFUL")
           ELSE IF lex_peek(1) = "/" THEN RegexTakes(k)
           ELSE Take(k, <<Token("STRING", Content(Cells(1, k)))>>)

\* strtoul, which saturates at ULONG_MAX, stored in 32 bits.
Numeral(base, cells) ==
    LET valid == {j \in 1..Len(cells) : \A i \in 1..j : DigitValue[cells[i]] < base}
        value[j \in 0..Len(cells)] ==
            IF j = 0 THEN 0
            ELSE IF j \notin valid THEN value[j - 1]
            ELSE LET v == base * value[j - 1] + DigitValue[cells[j]]
                 IN  IF v > 2 * LongMax + 1 THEN 2 * LongMax + 1 ELSE v
    IN  value[Len(cells)] % Word

\* Upper case hexadecimal letters are taken in base 10 as well; 0x without a
\* digit hands strtoul a null pointer; the number LONG_MAX is refused.
lex_handleInteger ==
    /\ At(Digits)
    /\ LET hex == lex_peek(1) = "0" /\ lex_peek(2) = "x"
           first == IF hex THEN 3 ELSE 1
           n == RunOf(first, Digits \cup UpperHex \cup (IF hex THEN LowerHex ELSE {}))
           num == Numeral(IF hex THEN 16 ELSE 10, Cells(first, n))
       IN  IF n = 0 THEN Panic(2, "CRASHED")
           ELSE IF num = LongMax THEN Panic(first - 1 + n, "UNSUCCESSFUL")
           ELSE Take(first - 1 + n, <<Token("NUMBER", num)>>)

lex_handleIdentifier ==
    /\ At(Words)
    /\ LET n == RunOf(1, Words \cup Digits)
           id == Cells(1, n)
       IN  Take(n, <<IF n = 1 /\ id[1] \in DOMAIN Keywords THEN Token(Keywords[id[1]], <<>>)
                     ELSE Token("IDENTIFIER", id)>>)

\* Blanks, newlines and every character that begins no lexeme are passed over.
Ignored ==
    /\ status = "SUCCESS" /\ ~lex_isEof
    /\ lex_peek(1) \notin Marks \cup Digits \cup Words
    /\ Take(1, <<>>)

lex_scanToken ==
    \/ Punctuation \/ OneOrTwo
    \/ lex_handleComment \/ Division \/ lex_handleString
    \/ lex_handleInteger \/ lex_handleIdentifier \/ Ignored
=============================================================================
