--------------------------- MODULE LexicalGrammar ----------------------------
(***************************************************************************)
(* The lexemes of the rule language, declared by the cells each consists   *)
(* of, the token it stands for and what may follow it; files written in    *)
(* them; and the promise that the scanner gives back the tokens of every   *)
(* such file.                                                              *)
(***************************************************************************)
EXTENDS Lexer, SequencesExt

CONSTANTS
    LexemeOf,   \* [lexeme -> [cells, new]], the tokens new that it adds
    Programs    \* the files, the sequence of their lexemes in a field lexemes

Cell == UNION {ToSet(LexemeOf[l].cells) : l \in DOMAIN LexemeOf}

ASSUME GrammarAssumption ==
    /\ \A l \in DOMAIN LexemeOf : LexemeOf[l].cells \in Seq(Cell) \ {<<>>}
    /\ \A p \in Programs : p.lexemes \in Seq(DOMAIN LexemeOf)

VARIABLE program

TextOf(lexemes) == FlattenSeq([i \in DOMAIN lexemes |-> LexemeOf[lexemes[i]].cells])

-----------------------------------------------------------------------------
(* The kinds of lexemes: cells that add the tokens new, with the cell next  *)
(* after them, "" at the end of the file.                                   *)

Only(cells, S) == \A k \in DOMAIN cells : cells[k] \in S

IsSign(cells, new, next) ==
    \/ /\ Len(cells) = 1 /\ cells[1] \in DOMAIN Single
       /\ new = <<Token(Single[cells[1]], <<>>)>>
    \/ /\ Len(cells) = 1 /\ cells[1] \in DOMAIN Short /\ <<cells[1], next>> \notin DOMAIN Long
       /\ new = <<Token(Short[cells[1]], <<>>)>>
    \/ cells \in DOMAIN Long /\ new = <<Token(Long[cells], <<>>)>>

\* A slash divides unless the token before it is `matches`.
IsDivision(cells, new, next, afterMatches) ==
    /\ cells = <<"/">> /\ next \notin {"/", "*"} /\ ~afterMatches
    /\ new = <<Token("DIV", <<>>)>>

IsWord(cells, new, next) ==
    /\ cells[1] \in Words /\ Only(cells, Words \cup Digits) /\ next \notin Words \cup Digits
    /\ new = <<IF Len(cells) = 1 /\ cells[1] \in DOMAIN Keywords THEN Token(Keywords[cells[1]], <<>>)
               ELSE Token("IDENTIFIER", cells)>>

\* A decimal number may have upper case hexadecimal letters after its first digit.
\* LONG_MAX is not a number of the language.
IsDecimal(cells, new, next) ==
    /\ cells[1] \in Digits /\ Only(cells, Digits \cup UpperHex) /\ next \notin Digits \cup UpperHex
    /\ ~(cells = <<"0">> /\ next = "x")
    /\ Numeral(10, cells) # LongMax /\ new = <<Token("NUMBER", Numeral(10, cells))>>

IsHexadecimal(cells, new, next) ==
    LET digits == SubSeq(cells, 3, Len(cells))
    IN  /\ cells[1] = "0" /\ cells[1] \in Digits /\ Len(cells) > 2 /\ cells[2] = "x"
        /\ Only(digits, Digits \cup UpperHex \cup LowerHex)
        /\ next \notin Digits \cup UpperHex \cup LowerHex
        /\ Numeral(16, digits) # LongMax /\ new = <<Token("NUMBER", Numeral(16, digits))>>

\* The delimiter, cells and escape sequences, and the delimiter again.
IsLiteral(cells) ==
    LET escapes == Escapes(cells)
        last == Len(cells)
    IN  /\ last > 1 /\ cells[last] = cells[1] /\ ~escapes[last - 1]
        /\ \A k \in 2..(last - 1) : IF escapes[k - 1] THEN cells[k] \in DOMAIN Escape
                                    ELSE cells[k] \notin {"newline", cells[1]}

IsString(cells, new) ==
    cells[1] \in Quotes /\ IsLiteral(cells) /\ new = <<Token("STRING", Content(cells))>>

\* A slash after `matches` begins a regex; letters after it are its modifiers.
\* It must not be empty, as two slashes begin a comment, nor end the file.
IsRegex(cells, new, next, afterMatches) ==
    /\ cells[1] = "/" /\ afterMatches
    /\ \E n \in 3..Len(cells) :
           /\ IsLiteral(SubSeq(cells, 1, n)) /\ cells[2] # "*"
           /\ \A k \in (n + 1)..Len(cells) : cells[k] \in Modifiers
           /\ next \notin Modifiers \cup {""}
           /\ new = <<[type |-> "REGEX", value |-> Content(SubSeq(cells, 1, n)),
                       flags |-> {cells[k] : k \in (n + 1)..Len(cells)}]>>

IsComment(cells, new) ==
    LET last == Len(cells)
    IN  /\ last > 2 /\ cells[1] = "/" /\ new = <<>>
        /\ \/ /\ cells[2] = "/" /\ cells[last] = "newline"
              /\ \A k \in 3..(last - 1) : cells[k] # "newline"
           \/ /\ cells[2] = "*" /\ last > 3 /\ cells[last - 1] = "*" /\ cells[last] = "/"
              /\ \A k \in 4..(last - 1) : ~(cells[k - 1] = "*" /\ cells[k] = "/")

IsBlank(cells, new) ==
    Len(cells) = 1 /\ cells[1] \notin Marks \cup Digits \cup Words /\ new = <<>>

IsLexeme(cells, new, next, afterMatches) ==
    \/ IsSign(cells, new, next) \/ IsDivision(cells, new, next, afterMatches)
    \/ IsWord(cells, new, next) \/ IsDecimal(cells, new, next) \/ IsHexadecimal(cells, new, next)
    \/ IsString(cells, new) \/ IsRegex(cells, new, next, afterMatches)
    \/ IsComment(cells, new) \/ IsBlank(cells, new)

-----------------------------------------------------------------------------
(* Files, by the sequence of their lexemes. *)

CellsOf(lexeme) == LexemeOf[lexeme].cells
New(lexeme) == LexemeOf[lexeme].new

\* The cell after lexeme number i.
NextCell(lexemes, i) == IF i < Len(lexemes) THEN CellsOf(lexemes[i + 1])[1] ELSE ""

\* The last token before lexeme number i is `matches`.
AfterMatches(lexemes, i) ==
    \E j \in 1..(i - 1) : /\ New(lexemes[j]) # <<>> /\ New(lexemes[j])[1].type = "MATCHES"
                          /\ \A k \in (j + 1)..(i - 1) : New(lexemes[k]) = <<>>

\* The file consists of lexemes, none of which runs into the next.
Lexical(lexemes) ==
    /\ lexemes # <<>>
    /\ \A i \in DOMAIN lexemes : IsLexeme(CellsOf(lexemes[i]), New(lexemes[i]), NextCell(lexemes, i),
                                         AfterMatches(lexemes, i))

NewlinesIn(text) == Cardinality({k \in 1..Len(text) : text[k] = "newline"})

\* The tokens of lexeme number i, on the line where it ends.
Placed(new, lexemes, i) ==
    [k \in DOMAIN new |-> [type |-> new[k].type, value |-> new[k].value, flags |-> new[k].flags,
                           line |-> 1 + NewlinesIn(TextOf(SubSeq(lexemes, 1, i)))]]

\* The tokens that the file is written with.
Written(lexemes) ==
    FlattenSeq([i \in DOMAIN lexemes |-> Placed(New(lexemes[i]), lexemes, i)])
        \o Placed(<<Token("EOF", <<>>)>>, lexemes, Len(lexemes))

\* The scanner refuses no file of lexemes and gives back the tokens that it is
\* written with, each with the line on which it ends, whatever blanks, newlines
\* and comments stand between them, and one EOF after them (ac_lex_scan,
\* lex_scanToken).
LexemesComeBack ==
    (status # "SUCCESS" \/ lex_isEof) /\ Lexical(program.lexemes) =>
        status = "SUCCESS" /\ tokens = Written(program.lexemes)

\* For any text: the scanner ends at most one cell behind the source, its tokens
\* lie on lines that ascend up to its own, and EOF is added when the end has been
\* reached, once, as the last token, and always unless the text is empty
\* (lex_advance, lex_add_token, lex_scanToken).
ScannerTypeOK ==
    /\ source = TextOf(program.lexemes)
    /\ current \in 0..(Len(source) + 1) /\ line \in 1..(Len(source) + 1)
    /\ status \in {"SUCCESS", "UNSUCCESSFUL", "CRASHED"}
    /\ \A i \in DOMAIN tokens :
           /\ tokens[i].line \in 1..line
           /\ i > 1 => tokens[i - 1].line <= tokens[i].line
           /\ tokens[i].type = "EOF" => i = Len(tokens) /\ lex_isEof
    /\ status = "SUCCESS" /\ lex_isEof /\ source # <<>> =>
           tokens # <<>> /\ lex_last_token_type = "EOF"

-----------------------------------------------------------------------------
\* The scanner by itself: what is done with its tokens leaves it alone.
ScanInit == program \in Programs /\ LexInit(TextOf(program.lexemes))
ScanNext == lex_scanToken /\ UNCHANGED program

scanner == <<lexer, program>>
ScanSpec == ScanInit /\ [][ScanNext]_scanner
=============================================================================
