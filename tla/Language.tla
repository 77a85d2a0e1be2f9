------------------------------- MODULE Language -------------------------------
(***************************************************************************)
(* What the front end promises beyond its tokens: the trees and verdict    *)
(* that a source file should come to, said without the parser's and the    *)
(* checker's steps, and the properties that compare the two.               *)
(***************************************************************************)
EXTENDS FrontEnd, TLC

(* Trees by looking at the whole of a range of tokens: its loosest operator *)
(* splits it.                                                               *)

T(k) == tokens[k].type

Opening == {"LPAREN", "LBRACKET", "LBRACE"}
Closing == {"RPAREN", "RBRACKET", "RBRACE"}

\* How many brackets opened from token i on are open before token k.
Depth(i, k) ==
    Cardinality({j \in i..(k - 1) : T(j) \in Opening}) - Cardinality({j \in i..k : T(j) \in Closing})

\* The bracket that token k, a closing one, closes.
Opener(i, k) ==
    CHOOSE j \in i..k : /\ T(j) \in Opening /\ Depth(i, j) = Depth(i, k)
                        /\ \A l \in (j + 1)..(k - 1) : Depth(i, l) > Depth(i, k)

Rank ==
    [op \in {"AND", "OR", "NOT", "EQUAL_EQUAL", "BANG_EQUAL", "CONTAINS", "ICONTAINS",
             "STARTSWITH", "ISTARTSWITH", "ENDSWITH", "IENDSWITH", "IEQUALS", "MATCHES", "GREATER",
             "GREATER_EQUAL", "LESS", "LESS_EQUAL", "PLUS", "MINUS", "MULT", "DIV", "MOD",
             "SHL", "SHR", "BITAND", "BITXOR", "PIPE"} |->
        CASE op = "AND" -> 1 [] op = "OR" -> 2 [] op = "NOT" -> 3
          [] op \in {"GREATER", "GREATER_EQUAL", "LESS", "LESS_EQUAL"} -> 5
          [] op \in {"PLUS", "MINUS"} -> 6 [] op \in {"MULT", "DIV", "MOD"} -> 7
          [] op \in {"SHL", "SHR"} -> 8
          [] op = "BITAND" -> 9 [] op = "BITXOR" -> 10 [] op = "PIPE" -> 11
          [] OTHER -> 4]

EndsOperand == {"IDENTIFIER", "NUMBER", "STRING", "REGEX", "TRUE", "FALSE", "RPAREN", "RBRACKET"}

\* The operators of tokens i..j outside brackets, `not` among them.
SplitsAt(i, j) ==
    {k \in i..j : T(k) \in DOMAIN Rank /\ Depth(i, k) = 0
                  /\ (T(k) = "NOT" \/ (k > i /\ T(k - 1) \in EndsOperand))}

\* The operator that binds loosest, the last one of several.
Loosest(S) ==
    CHOOSE k \in S : \A l \in S : Rank[T(l)] > Rank[T(k)] \/ (Rank[T(l)] = Rank[T(k)] /\ l <= k)

Parts(i, j) ==
    LET commas == SelectSeq([n \in 1..(j - i + 1) |-> i - 1 + n],
                            LAMBDA k : T(k) = "COMMA" /\ Depth(i, k) = 0)
        ends == Append(commas, j + 1)
    IN  IF i > j THEN <<>>
        ELSE [n \in 1..Len(ends) |-> <<IF n = 1 THEN i ELSE ends[n - 1] + 1, ends[n] - 1>>]

NodeAt(k, t) == [t |-> t, at |-> k]

LiteralAt(k) ==
    CASE T(k) = "IDENTIFIER" -> NodeAt(k, "id") @@ [name |-> Text(tokens[k].value)]
      [] T(k) = "NUMBER" -> NodeAt(k, "num") @@ [v |-> tokens[k].value]
      [] T(k) = "STRING" -> NodeAt(k, "str") @@ [v |-> tokens[k].value]
      [] T(k) = "REGEX" -> NodeAt(k, "regex") @@ [v |-> tokens[k].value, flags |-> tokens[k].flags]
      [] T(k) \in {"TRUE", "FALSE"} -> NodeAt(k, "bool") @@ [v |-> IF T(k) = "TRUE" THEN 1 ELSE 0]

RECURSIVE Shape(_, _)

\* `for` QUANTIFIER var in (from..to) : (cond), the quantifier one token here.
RangeShape(i, j) ==
    LET var == CHOOSE k \in i..j : T(k + 1) = "IN" /\ \A l \in i..k : T(l) # "IN"
        dots == CHOOSE k \in (var + 3)..j : T(k) = "DOT_DOT" /\ Depth(i, k) = 1
        open == Opener(i, j)
    IN  NodeAt(j, "range") @@
        [all |-> T(var - 1) = "ALL", any |-> FALSE,
         fixed |-> IF T(var - 1) = "NUMBER" THEN tokens[var - 1].value ELSE 0,
         var |-> Text(tokens[var].value), from |-> Shape(var + 3, dots - 1),
         to |-> Shape(dots + 1, open - 3), cond |-> Shape(open + 1, j - 1)]

\* The tokens i..j with a bracket at their end.
BracketShape(i, j) ==
    LET open == Opener(i, j)
        args == Parts(open + 1, j - 1)
    IN  CASE open = i -> NodeAt(j, "group") @@ [e |-> Shape(i + 1, j - 1)]
          [] open > i /\ T(open - 1) = "COLON" -> RangeShape(i, j)
          [] open > i /\ T(j) = "RBRACKET" ->
                NodeAt(j, "index") @@ [o |-> Shape(i, open - 1), i |-> Shape(open + 1, j - 1)]
          [] OTHER -> NodeAt(open, "call") @@
                      [fn |-> Shape(i, open - 1),
                       args |-> [n \in 1..Len(args) |-> Shape(args[n][1], args[n][2])]]

Shape(i, j) ==
    LET splits == SplitsAt(i, j)
        k == Loosest(splits)
    IN  CASE splits # {} /\ T(k) # "NOT" ->
                NodeAt(k, "bin") @@ [op |-> T(k), l |-> Shape(i, k - 1), r |-> Shape(k + 1, j),
                                     ty |-> "unset"]
          [] splits # {} /\ T(k) = "NOT" -> NodeAt(i, "un") @@ [op |-> "NOT", e |-> Shape(i + 1, j)]
          [] splits = {} /\ T(i) \in {"BANG", "BITNOT", "MINUS", "HASH"} ->
                NodeAt(i, "un") @@ [op |-> T(i), e |-> Shape(i + 1, j)]
          [] OTHER -> IF i = j THEN LiteralAt(i)
                      ELSE IF T(j) \in Closing THEN BracketShape(i, j)
                      ELSE NodeAt(j, "field") @@ [o |-> Shape(i, j - 2), name |-> Text(tokens[j].value),
                                                  literal |-> TRUE]
-----------------------------------------------------------------------------
(* Statements: they begin at their keywords, outside braces.               *)

Starts == {k \in 1..Len(tokens) : T(k) \in {"RULE", "SEQUENCE", "IMPORT"}}
StatementEnd(k) ==
    LET later == {l \in 1..Len(tokens) : l > k /\ T(l) \in {"RULE", "PRIVATE", "SEQUENCE", "IMPORT", "EOF"}}
    IN  FirstOf(later) - 1

\* The first bracket of this type from token k on.
NextOf(k, type) == FirstOf({l \in k..Len(tokens) : T(l) = type})

\* What stands before the brace: nothing, or a colon and an event type.
EventOf(k, brace) == IF brace > k THEN Text(tokens[k + 1].value) ELSE NoName

ElementShape(i, j) ==
    IF T(i) = "IDENTIFIER"
    THEN [kind |-> "external", at |-> i, name |-> Text(tokens[i].value)]
    ELSE LET brace == NextOf(i, "LBRACE")
         IN  [kind |-> "rule", at |-> i, name |-> NoName, private |-> TRUE,
              event |-> EventOf(i, brace), cond |-> Shape(brace + 1, j - 1)]

\* The span is that of the parsed statement, where seconds exceed a word.
SpanOf(k, parsed) ==
    LET exact == tokens[k + 3].value * (IF Text(tokens[k + 4].value) = "m" THEN 60 ELSE 1)
    IN  IF T(k + 2) # "COLON" THEN 0 ELSE IF exact >= Word THEN parsed.span ELSE exact

StatementShape(k, parsed) ==
    LET name == Text(tokens[k + 1].value)
        end == StatementEnd(k)
        brace == NextOf(k, "LBRACE")
        parts == Parts(NextOf(k, "LBRACKET") + 1, end - 1)
    IN  CASE T(k) = "IMPORT" -> [kind |-> "import", at |-> k + 1, name |-> name]
          [] T(k) = "RULE" ->
                [kind |-> "rule", at |-> k + 1, name |-> name,
                 private |-> k > 1 /\ T(k - 1) = "PRIVATE",
                 event |-> EventOf(k + 2, brace), cond |-> Shape(brace + 1, end - 1)]
          [] T(k) = "SEQUENCE" ->
                [kind |-> "sequence", at |-> k + 1, name |-> name, span |-> SpanOf(k, parsed),
                 rules |-> [n \in 1..Len(parts) |-> ElementShape(parts[n][1], parts[n][2])]]

Parsed == pc = "check" /\ checked = 0

\* The parser's trees are those of the language: operators split at the loosest
\* one, from the left, brackets and fields apply to all before them, and names,
\* event types, literals and spans are those that were written (ac_psr_expression
\* and what it calls, ac_psr_statement).
TreesHaveTheirShape ==
    program.wellFormed /\ Parsed =>
        LET starts == SetToSortSeq(Starts, <)
        IN  /\ Len(ast) = Len(starts)
            /\ \A n \in DOMAIN ast : ast[n] = StatementShape(starts[n], ast[n])

\* The pointers in a statement: its condition, and all that they lead to.
RECURSIVE Below(_)
Below(e) ==
    {e} \cup (CASE e.t = "call" -> Below(e.fn) \cup UNION {Below(a) : a \in ToSet(e.args)}
               [] e.t = "field" -> Below(e.o)
               [] e.t = "index" -> Below(e.o) \cup Below(e.i)
               [] e.t = "bin" -> Below(e.l) \cup Below(e.r)
               [] e.t \in {"un", "group"} -> Below(e.e)
               [] e.t = "range" -> Below(e.from) \cup Below(e.to) \cup Below(e.cond)
               [] OTHER -> {})

RulesOf(s) ==
    CASE s.kind = "rule" -> {s}
      [] s.kind = "sequence" -> {r \in ToSet(s.rules) : r.kind = "rule"}
      [] OTHER -> {}

\* `for any` is described by docs/RULES.md and not parsed.
ForAny == \E k \in 1..(Len(tokens) - 1) : T(k) = "FOR" /\ T(k + 1) = "ANY"

\* What the parser hands on is the whole file: no error is set, every token has
\* been taken and no null pointer is in a tree, although a grouping is made
\* from whatever comes back; and no well-formed file is refused
\* (ac_psr_ast, ac_psr_primary, ac_psr_match).
OnlyWholePrograms ==
    /\ Parsed => /\ ~parser.error /\ parser.current = Len(tokens)
                 /\ \A s \in ToSet(ast) : \A r \in RulesOf(s) : NoExpr \notin Below(r.cond)
    /\ pc = "failed" => ~program.wellFormed \/ ForAny

\* Whatever an error cuts off, no node of a tree is freed twice: the function
\* that meets the error and those that return through it free different parts
\* (ac_psr_call, ac_psr_finish_call, ac_psr_sequence, ac_expr_free_ast).
NothingFreedTwice == ~parser.twice

-----------------------------------------------------------------------------
(* Types, declared: what an operator takes and gives, what a name stands    *)
(* for.  none is the type of what has none.                                 *)

Signatures ==
    ({"PLUS", "MINUS", "DIV", "MULT", "SHR", "SHL", "BITAND", "BITXOR", "PIPE", "MOD"}
        \X {<<"num", "num">>} \X {"num"})
    \cup ({"GREATER", "GREATER_EQUAL", "LESS", "LESS_EQUAL"} \X {<<"num", "num">>} \X {"bool"})
    \cup ({"AND", "OR"} \X {<<"bool", "bool">>} \X {"bool"})
    \cup ({"EQUAL_EQUAL", "BANG_EQUAL"} \X {<<t, t>> : t \in Values} \X {"bool"})
    \cup ({"CONTAINS", "ICONTAINS", "STARTSWITH", "ISTARTSWITH", "ENDSWITH", "IENDSWITH", "IEQUALS"}
            \X {<<"str", "str">>} \X {"bool"})
    \cup {<<"MATCHES", <<"str", "regex">>, "bool">>, <<"HASH", <<"str">>, "num">>,
          <<"NOT", <<"bool">>, "bool">>, <<"BANG", <<"bool">>, "bool">>,
          <<"MINUS", <<"num">>, "num">>, <<"BITNOT", <<"num">>, "num">>}

ResultOf(op, args) ==
    LET found == {s \in Signatures : s[1] = op /\ s[2] = args}
    IN  IF found = {} THEN "none" ELSE (CHOOSE s \in found : TRUE)[3]

Nothing == [base |-> "none", array |-> FALSE, function |-> FALSE]

\* scope: the event type of the rule, what the names declared so far stand for,
\* and the iterators of the ranges around.
RECURSIVE TypeOf(_, _), ObjectOf(_, _)

\* The object an expression names, below the module of the event type.
ObjectOf(e, scope) ==
    CASE e.t = "id" /\ e.name = scope.event ->
            [base |-> "struct", array |-> FALSE, function |-> FALSE, fields |-> Schema[e.name]]
      [] e.t = "group" -> ObjectOf(e.e, scope)
      [] e.t = "field" ->
            LET o == ObjectOf(e.o, scope)
            IN  IF o.base = "struct" /\ ~o.array /\ ~o.function /\ e.name \in DOMAIN o.fields
                THEN o.fields[e.name] ELSE Nothing
      [] e.t = "index" ->
            LET o == ObjectOf(e.o, scope)
            IN  IF o.array /\ TypeOf(e.i, scope) = "num" THEN [o EXCEPT !.array = FALSE] ELSE Nothing
      [] e.t = "call" ->
            LET o == ObjectOf(e.fn, scope)
            IN  IF o.function /\ [n \in DOMAIN e.args |-> TypeOf(e.args[n], scope)] = o.args
                THEN [o EXCEPT !.function = FALSE] ELSE Nothing
      [] OTHER -> Nothing

Scalar(o) == o.base \in Values /\ ~o.array /\ ~o.function

TypeOf(e, scope) ==
    CASE e.t \in Values \cup {"regex"} -> e.t
      [] e.t = "id" ->
            IF e.name \in scope.iterators THEN "num"
            ELSE IF e.name \in DOMAIN scope.rules /\ scope.rules[e.name] = scope.event
            THEN "bool" ELSE "none"
      [] e.t = "group" -> TypeOf(e.e, scope)
      [] e.t = "bin" -> ResultOf(e.op, <<TypeOf(e.l, scope), TypeOf(e.r, scope)>>)
      [] e.t = "un" -> ResultOf(e.op, <<TypeOf(e.e, scope)>>)
      [] e.t = "range" ->
            IF /\ TypeOf(e.from, scope) = "num" /\ TypeOf(e.to, scope) = "num"
               /\ e.var \notin scope.names \cup scope.iterators
               /\ TypeOf(e.cond, [scope EXCEPT !.iterators = @ \cup {e.var}]) = "bool"
            THEN "bool" ELSE "none"
      [] OTHER -> LET o == ObjectOf(e, scope) IN IF Scalar(o) THEN o.base ELSE "none"

\* The scope of a rule for event in statement n: a name stands for the first statement
\* that declared it, a rule only for one before its own.
ScopeOf(event, n) ==
    LET first(name) == FirstOf({i \in 1..n : ast[i].name = name})
        rules == {i \in 1..(n - 1) : ast[i].kind = "rule" /\ i = first(ast[i].name)}
    IN  [event |-> event, iterators |-> {}, names |-> {ast[i].name : i \in 1..n},
         rules |-> [name \in {ast[i].name : i \in rules} |-> ast[first(name)].event]]

Fresh(n) == \A i \in 1..(n - 1) : ast[i].name # ast[n].name

WellTyped ==
    \A n \in DOMAIN ast :
        /\ ast[n].kind = "import" \/ Fresh(n)
        /\ \A r \in RulesOf(ast[n]) : /\ r.event \in DOMAIN Schema \cup {NoName}
                                      /\ TypeOf(r.cond, ScopeOf(r.event, n)) = "bool"
        /\ ast[n].kind = "sequence" =>
              \A r \in ToSet(ast[n].rules) : r.kind = "external" => r.name \in DOMAIN ScopeOf(NoName, n).rules

\* Some node of a condition is like this, under the scope of its rule with the
\* iterators of all its ranges.
SomeNode(Like(_, _)) ==
    \E n \in DOMAIN ast : \E r \in RulesOf(ast[n]) :
        LET nodes == Below(r.cond)
            scope == [ScopeOf(r.event, n) EXCEPT !.iterators = {e.var : e \in {x \in nodes : x.t = "range"}}]
        IN  \E e \in nodes : Like(e, scope)

\* What the checker lets pass: a field of a value, an index inside a chain that
\* is no integer, a wrong number of arguments, a rule that names itself.
Overlooked ==
    \/ SomeNode(LAMBDA e, scope : e.t = "field" /\ Scalar(ObjectOf(e.o, scope)))
    \/ SomeNode(LAMBDA e, scope : e.t = "index" /\ TypeOf(e.i, scope) # "num")
    \/ SomeNode(LAMBDA e, scope : e.t = "call" /\ e.args # <<>> /\ ObjectOf(e.fn, scope).function
                                   /\ Len(e.args) # Len(ObjectOf(e.fn, scope).args))
    \/ SomeNode(LAMBDA e, scope : e.t = "id" /\ e.name \in scope.names \ DOMAIN scope.rules)

\* What the checker refuses, or does not return from: a field of a field or of a
\* grouping, an index of anything but a field, a call of anything but a field of
\* the module, a call without arguments.
Unsupported ==
    SomeNode(LAMBDA e, scope :
        \/ e.t = "field" /\ e.o.t \notin {"id", "index", "call"}
        \/ e.t = "index" /\ e.o.t # "field"
        \/ e.t = "call" /\ (e.args = <<>> \/ e.fn.t # "field" \/ e.fn.o.t # "id"))

\* The code generator chooses the instruction for == by the type in the node, and
\* that for a field by whether it is a value.
TypesStored ==
    ~SomeNode(LAMBDA e, scope :
        \/ e.t = "bin" /\ e.ty \notin {TypeOf(e.l, [scope EXCEPT !.iterators = I]) : I \in {{}, scope.iterators}}
        \/ e.t = "index" /\ e.o.literal
        \/ e.t = "call" /\ e.fn.literal)

\* A file is accepted if, and only if, every condition is a boolean by the
\* declared types of the fields and every name is declared once and before it is
\* used, except for the forms named above; an accepted file carries the types
\* that the code generator reads (ac_checker_check, resolve_type).
VerdictIsRight ==
    /\ pc = "done" /\ accepted => WellTyped \/ Overlooked
    /\ pc = "done" /\ WellTyped => accepted \/ Unsupported
    /\ pc = "done" /\ accepted /\ ~Overlooked => TypesStored
    /\ pc = "lost" => status = "CRASHED" \/ Unsupported

-----------------------------------------------------------------------------
\* The variables have their types; EOF is the last token, taken from a file that
\* has been scanned to its end.
TypeOK ==
    /\ ScannerTypeOK
    /\ pc \in {"scan", "parse", "check", "done", "failed", "lost"}
    /\ pc \in {"parse", "check", "done"} => status = "SUCCESS" /\ lex_isEof
    /\ parser.current \in 0..Len(tokens) /\ parser.error \in BOOLEAN
    /\ parser.freed \subseteq 1..Len(tokens)
    /\ checked \in 0..Len(ast) /\ accepted \in BOOLEAN
    /\ \A n \in DOMAIN env : env[n].type \in {"rule", "sequence", "import"}
=============================================================================
