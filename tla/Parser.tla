-------------------------------- MODULE Parser --------------------------------
(***************************************************************************)
(* The recursive descent parser (libalca/parser.c) and the syntax trees it *)
(* builds and frees (libalca/expr.c), as operators over the tokens of the  *)
(* scanner.  For model checking only (RECURSIVE).                          *)
(*                                                                         *)
(* A parser p is [current, error, freed, twice]: the tokens taken, whether *)
(* an error has been set, the nodes freed so far, and whether one of them  *)
(* was freed again.  A node is known by the token at whose position it was *)
(* made; no token makes two.  A function that returns a tree returns       *)
(* [p, e], NULL being NoExpr.                                              *)
(***************************************************************************)
EXTENDS Lexer, SequencesExt

CONSTANT NoName     \* a rule without an event type, an anonymous rule

ac_psr_new == [current |-> 0, error |-> FALSE, freed |-> {}, twice |-> FALSE]

Text(cells) == LET t[i \in 0..Len(cells)] == IF i = 0 THEN "" ELSE t[i - 1] \o cells[i] IN t[Len(cells)]

\* The type of the current token; no type is NONE.
Peek(p) == IF p.current < Len(tokens) THEN tokens[p.current + 1].type ELSE "NONE"
ac_psr_advance(p) == [p EXCEPT !.current = @ + 1]
Previous(p) == tokens[p.current]
ac_psr_set_error(p) == [p EXCEPT !.error = TRUE]

\* MATCH of an optional token.
ac_psr_match(p, type) == IF Peek(p) = type THEN ac_psr_advance(p) ELSE p

\* ac_psr_consume of each type in turn, up to the first that is not there.
Consumed(p, types) ==
    LET Fits(n) == \A i \in 1..n : p.current + i <= Len(tokens) /\ tokens[p.current + i].type = types[i]
    IN  CHOOSE n \in 0..Len(types) : Fits(n) /\ (n < Len(types) => ~Fits(n + 1))
ac_psr_consume(p, types) ==
    LET n == Consumed(p, types)
    IN  [p EXCEPT !.current = @ + n, !.error = @ \/ n < Len(types)]
Consumes(p, types) == Consumed(p, types) = Len(types)

-----------------------------------------------------------------------------
(* Trees *)

NoExpr == [t |-> "null"]
Tree(p, e) == [p |-> p, e |-> e]
Null(p) == [p |-> p, e |-> NoExpr]
IsNull(x) == x.e.t = "null"

ac_expr_new_literal(p) ==
    LET tok == Previous(p)
    IN  CASE tok.type = "NUMBER" -> [t |-> "num", at |-> p.current, v |-> tok.value]
          [] tok.type = "STRING" -> [t |-> "str", at |-> p.current, v |-> tok.value]
          [] tok.type = "REGEX" -> [t |-> "regex", at |-> p.current, v |-> tok.value,
                                    flags |-> tok.flags]
          [] tok.type = "IDENTIFIER" -> [t |-> "id", at |-> p.current, name |-> Text(tok.value)]
          [] tok.type \in {"TRUE", "FALSE"} ->
                [t |-> "bool", at |-> p.current, v |-> IF tok.type = "TRUE" THEN 1 ELSE 0]

ac_expr_new_binary(l, op, r) ==
    [t |-> "bin", at |-> op, op |-> tokens[op].type, l |-> l, r |-> r, ty |-> "unset"]
ac_expr_new_unary(op, e) == [t |-> "un", at |-> op, op |-> tokens[op].type, e |-> e]
ac_expr_new_grouping(p, e) == [t |-> "group", at |-> p.current, e |-> e]
ac_expr_new_call(p, callee) == [t |-> "call", at |-> p.current, fn |-> callee, args |-> <<>>]
ac_expr_new_index(p, o, i) == [t |-> "index", at |-> p.current, o |-> o, i |-> i]

\* literal: the type in the node, unset here, is not one of an array or function.
ac_expr_new_field(p, o) ==
    [t |-> "field", at |-> p.current, o |-> o, name |-> Text(Previous(p).value), literal |-> TRUE]

ac_expr_new_range(p, q, var, from, to, cond) ==
    [t |-> "range", at |-> p.current, all |-> q.all, any |-> q.any, fixed |-> q.fixed,
     var |-> var, from |-> from, to |-> to, cond |-> cond]

\* The nodes that freeing a tree frees: those below a range are not reached.
RECURSIVE Nodes(_)
Nodes(e) ==
    CASE e.t = "null" -> {}
      [] e.t = "call" -> {e.at} \cup Nodes(e.fn) \cup UNION {Nodes(a) : a \in ToSet(e.args)}
      [] e.t = "field" -> {e.at} \cup Nodes(e.o)
      [] e.t = "index" -> {e.at} \cup Nodes(e.o) \cup Nodes(e.i)
      [] e.t = "bin" -> {e.at} \cup Nodes(e.l) \cup Nodes(e.r)
      [] e.t \in {"un", "group"} -> {e.at} \cup Nodes(e.e)
      [] OTHER -> {e.at}

Free(p, nodes) ==
    [p EXCEPT !.twice = @ \/ nodes \cap p.freed # {}, !.freed = @ \cup nodes]

ac_expr_free_expression(p, e) == Free(p, Nodes(e))

\* The nodes of a statement: of a rule, of a sequence and its rules, of an import.
RuleNodes(s) == {s.at} \cup (IF s.kind = "rule" THEN Nodes(s.cond) ELSE {})
StatementNodes(s) ==
    IF s.kind = "sequence" THEN {s.at} \cup UNION {RuleNodes(r) : r \in ToSet(s.rules)}
    ELSE RuleNodes(s)

-----------------------------------------------------------------------------
(* Expressions.  Binary operators by their level, the loosest first.       *)

LogicalByGrammar == << {"OR"}, {"AND"} >>   \* mutant: the levels of the grammar in the comment

LogicalLevels == << {"AND"}, {"OR"} >>

NotLevel == {"NOT"}

ComparisonLevels ==
    << {"EQUAL_EQUAL", "BANG_EQUAL", "CONTAINS", "ICONTAINS", "STARTSWITH", "ISTARTSWITH",
        "ENDSWITH", "IENDSWITH", "IEQUALS", "MATCHES"},
       {"GREATER", "GREATER_EQUAL", "LESS", "LESS_EQUAL"} >>

ArithmeticLevels == << {"PLUS", "MINUS"}, {"MULT", "DIV", "MOD"} >>

BitLevels == << {"SHL", "SHR"}, {"BITAND"}, {"BITXOR"}, {"PIPE"} >>

Levels == LogicalLevels \o <<NotLevel>> \o ComparisonLevels \o ArithmeticLevels \o BitLevels

RECURSIVE Level(_, _), Operators(_, _), ac_psr_unary(_), ac_psr_call(_), Postfix(_), Arguments(_, _)

ac_psr_expression(p) == Level(1, p)

\* One level: an operand of the next one, then operators as long as they come.
Operators(k, x) ==
    IF Peek(x.p) \notin Levels[k] THEN x
    ELSE LET op == x.p.current + 1
             right == Level(k + 1, ac_psr_advance(x.p))
         IN  IF IsNull(right) THEN Null(ac_expr_free_expression(right.p, x.e))
             ELSE Operators(k, Tree(right.p, ac_expr_new_binary(x.e, op, right.e)))

ac_psr_not(k, p) ==
    LET right == Level(k + 1, ac_psr_match(p, "NOT"))
    IN  IF Peek(p) # "NOT" \/ IsNull(right) THEN right
        ELSE Tree(right.p, ac_expr_new_unary(p.current + 1, right.e))

Level(k, p) ==
    IF k > Len(Levels) THEN ac_psr_unary(p)
    ELSE IF Levels[k] = NotLevel THEN ac_psr_not(k, p)
    ELSE LET left == Level(k + 1, p) IN IF IsNull(left) THEN left ELSE Operators(k, left)

ac_psr_unary(p) ==
    IF Peek(p) \notin {"BANG", "BITNOT", "MINUS", "HASH"} THEN ac_psr_call(p)
    ELSE LET right == ac_psr_unary(ac_psr_advance(p))
         IN  IF IsNull(right) THEN right
             ELSE Tree(right.p, ac_expr_new_unary(p.current + 1, right.e))

\* `any` must be followed by `all` or a number, too.
Quantifier(p) ==
    LET q == ac_psr_match(p, "ANY")
    IN  CASE Peek(q) = "ALL" ->
                [ok |-> TRUE, p |-> ac_psr_advance(q), all |-> TRUE, any |-> FALSE, fixed |-> 0]
          [] Peek(q) = "NUMBER" ->
                [ok |-> TRUE, p |-> ac_psr_advance(q), all |-> FALSE, any |-> FALSE,
                 fixed |-> tokens[q.current + 1].value]
          [] OTHER -> [ok |-> FALSE, p |-> ac_psr_set_error(q)]

\* A range that breaks off is not freed, nor are the parts of it made so far.
ac_psr_range(p) ==
    LET q == Quantifier(p)
        head == <<"IDENTIFIER", "IN", "LPAREN">>
        from == ac_psr_expression(ac_psr_consume(q.p, head))
        to == ac_psr_expression(ac_psr_consume(from.p, <<"DOT_DOT">>))
        body == <<"RPAREN", "COLON", "LPAREN">>
        cond == ac_psr_expression(ac_psr_consume(to.p, body))
        end == ac_psr_consume(cond.p, <<"RPAREN">>)
    IN  IF ~q.ok THEN Null(q.p)
        ELSE IF ~Consumes(q.p, head) THEN Null(ac_psr_consume(q.p, head))
        ELSE IF IsNull(from) THEN from
        ELSE IF ~Consumes(from.p, <<"DOT_DOT">>) THEN Null(ac_psr_consume(from.p, <<"DOT_DOT">>))
        ELSE IF IsNull(to) THEN to
        ELSE IF ~Consumes(to.p, body) THEN Null(ac_psr_consume(to.p, body))
        ELSE IF ~Consumes(cond.p, <<"RPAREN">>) THEN Null(end)
        ELSE Tree(end, ac_expr_new_range(end, q, Text(tokens[q.p.current + 1].value),
                                         from.e, to.e, cond.e))

\* A grouping may hold a null pointer: the error is set then.
ac_psr_primary(p) ==
    LET q == ac_psr_advance(p)
        inner == ac_psr_expression(q)
        end == ac_psr_consume(inner.p, <<"RPAREN">>)
    IN  CASE Peek(p) \in {"FALSE", "TRUE", "NUMBER", "STRING", "IDENTIFIER", "REGEX"} ->
                Tree(q, ac_expr_new_literal(q))
          [] Peek(p) = "LPAREN" -> IF Consumes(inner.p, <<"RPAREN">>)
                                   THEN Tree(end, ac_expr_new_grouping(end, inner.e)) ELSE Null(end)
          [] Peek(p) = "FOR" -> ac_psr_range(q)
          [] OTHER -> Null(ac_psr_set_error(p))

\* The arguments up to the parenthesis; commas between them are optional.
Arguments(p, call) ==
    IF Peek(p) = "RPAREN" THEN Tree(ac_psr_advance(p), call)
    ELSE LET arg == ac_psr_expression(p)
         IN  IF IsNull(arg) THEN Null(ac_expr_free_expression(arg.p, call))
             ELSE Arguments(ac_psr_match(arg.p, "COMMA"), [call EXCEPT !.args = Append(@, arg.e)])

ac_psr_finish_call(p, callee) == Arguments(p, ac_expr_new_call(p, callee))

ac_psr_finish_field(p, o) ==
    LET q == ac_psr_consume(p, <<"IDENTIFIER">>)
    IN  IF Consumes(p, <<"IDENTIFIER">>) THEN Tree(q, ac_expr_new_field(q, o)) ELSE Null(q)

\* The index is not freed if the bracket after it is missing.
ac_psr_finish_index(p, o) ==
    LET i == ac_psr_expression(p)
        q == ac_psr_consume(i.p, <<"RBRACKET">>)
    IN  IF IsNull(i) THEN i
        ELSE IF Consumes(i.p, <<"RBRACKET">>) THEN Tree(q, ac_expr_new_index(q, o, i.e)) ELSE Null(q)

FreesCallee(x, next, call) ==   \* mutant: a call that breaks off frees its callee, too
    Null(ac_expr_free_expression(next.p, x.e))

\* What broke off frees the tree so far, which a call has done itself.
BreaksOff(x, next, call) == IF call THEN next ELSE Null(ac_expr_free_expression(next.p, x.e))

Postfix(x) ==
    LET p == ac_psr_advance(x.p)
        next == CASE Peek(x.p) = "LPAREN" -> ac_psr_finish_call(p, x.e)
                  [] Peek(x.p) = "DOT" -> ac_psr_finish_field(p, x.e)
                  [] OTHER -> ac_psr_finish_index(p, x.e)
    IN  IF Peek(x.p) \notin {"LPAREN", "DOT", "LBRACKET"} THEN x
        ELSE IF IsNull(next) THEN BreaksOff(x, next, Peek(x.p) = "LPAREN") ELSE Postfix(next)

ac_psr_call(p) == LET x == ac_psr_primary(p) IN IF IsNull(x) THEN x ELSE Postfix(x)

-----------------------------------------------------------------------------
(* Statements: [p, s], NULL being NoStatement.                             *)

NoStatement == [kind |-> "null"]
Statement(p, s) == [p |-> p, s |-> s]

OpenBody(x) ==   \* mutant: a brace that is missing at the end is no error
    IF IsNull(x) THEN x
    ELSE IF Peek(x.p) # "RBRACE" THEN Null(x.p) ELSE Tree(ac_psr_advance(x.p), x.e)

\* The brace after the condition x.
ClosedBody(x) ==
    IF IsNull(x) THEN x
    ELSE IF Peek(x.p) # "RBRACE" THEN Null(ac_psr_set_error(x.p)) ELSE Tree(ac_psr_advance(x.p), x.e)

ac_psr_rule_body(p) ==
    IF Peek(p) # "LBRACE" THEN Null(ac_psr_set_error(p))
    ELSE ClosedBody(ac_psr_expression(ac_psr_advance(p)))

ac_expr_new_rule(at, name, event, cond, private) ==
    [kind |-> "rule", at |-> at, name |-> name, private |-> private, event |-> event, cond |-> cond]

\* An event type after a colon, if there is one: [p, ok, event].
EventType(p) ==
    LET types == <<"COLON", "IDENTIFIER">>
        q == ac_psr_consume(p, types)
    IN  IF Peek(p) # "COLON" THEN [p |-> p, ok |-> TRUE, event |-> NoName]
        ELSE IF Consumes(p, types) THEN [p |-> q, ok |-> TRUE, event |-> Text(Previous(q).value)]
        ELSE [p |-> q, ok |-> FALSE, event |-> NoName]

\* The rule that ends with this body, if that has been parsed.
RuleWith(body, at, name, event, private) ==
    Statement(body.p, IF IsNull(body) THEN NoStatement
                      ELSE ac_expr_new_rule(at, name, event, body.e, private))

ac_psr_rule(p, private) ==
    LET at == p.current + 1
        event == EventType(ac_psr_advance(p))
    IN  IF Peek(p) # "IDENTIFIER" THEN Statement(ac_psr_set_error(p), NoStatement)
        ELSE IF ~event.ok THEN Statement(event.p, NoStatement)
        ELSE RuleWith(ac_psr_rule_body(event.p), at, Text(tokens[at].value), event.event, private)

\* The span in seconds, computed in one word.
Span(p) ==
    LET unit == Text(tokens[p.current + 3].value)
    IN  (tokens[p.current + 2].value * (IF unit = "m" THEN 60 ELSE 1)) % Word

\* The span after a colon, if there is one: [p, ok, span].
MaxSpan(p) ==
    LET types == <<"COLON", "NUMBER", "IDENTIFIER">>
        q == ac_psr_consume(p, types)
    IN  IF Peek(p) # "COLON" THEN [p |-> p, ok |-> TRUE, span |-> 0]
        ELSE IF Consumes(p, types) /\ Text(Previous(q).value) \in {"s", "m"}
        THEN [p |-> q, ok |-> TRUE, span |-> Span(p)]
        ELSE [p |-> ac_psr_set_error(q), ok |-> FALSE, span |-> 0]

\* One rule of a sequence: a name, or a condition with or without event type.
Element(p) ==
    LET event == EventType(p)
    IN  IF Peek(p) = "IDENTIFIER"
        THEN Statement(ac_psr_advance(p), [kind |-> "external", at |-> p.current + 1,
                                           name |-> Text(tokens[p.current + 1].value)])
        ELSE IF ~event.ok THEN Statement(event.p, NoStatement)
        ELSE RuleWith(ac_psr_rule_body(event.p), p.current + 1, NoName, event.event, TRUE)

\* The rules up to the bracket; commas between them are optional.
RECURSIVE Elements(_, _), WithElement(_, _)
Elements(p, seq) ==
    IF Peek(p) \in {"IDENTIFIER", "LBRACE", "COLON"} THEN WithElement(Element(p), seq)
    ELSE IF Peek(p) = "RBRACKET" THEN Statement(ac_psr_advance(p), seq)
    ELSE Statement(Free(ac_psr_set_error(p), StatementNodes(seq)), NoStatement)

WithElement(r, seq) ==
    IF r.s = NoStatement THEN Statement(Free(r.p, StatementNodes(seq)), NoStatement)
    ELSE Elements(ac_psr_match(r.p, "COMMA"), [seq EXCEPT !.rules = Append(@, r.s)])

ac_psr_sequence(p) ==
    LET at == p.current + 1
        span == MaxSpan(ac_psr_advance(p))
        seq == [kind |-> "sequence", at |-> at, name |-> Text(tokens[at].value),
                span |-> span.span, rules |-> <<>>]
    IN  IF Peek(p) # "IDENTIFIER" THEN Statement(ac_psr_set_error(p), NoStatement)
        ELSE IF ~span.ok THEN Statement(span.p, NoStatement)
        ELSE IF Peek(span.p) # "LBRACKET" THEN Statement(ac_psr_set_error(span.p), NoStatement)
        ELSE Elements(ac_psr_advance(span.p), seq)

ac_psr_import(p) ==
    IF Peek(p) # "IDENTIFIER" THEN Statement(ac_psr_set_error(p), NoStatement)
    ELSE Statement(ac_psr_advance(p), [kind |-> "import", at |-> p.current + 1,
                                       name |-> Text(tokens[p.current + 1].value)])

\* The statement that begins at the current token.
ac_psr_statement(p) ==
    LET q == ac_psr_advance(p)
    IN  CASE Peek(p) = "RULE" -> ac_psr_rule(q, FALSE)
          [] Peek(p) = "PRIVATE" -> IF Peek(q) = "RULE" THEN ac_psr_rule(ac_psr_advance(q), TRUE)
                                    ELSE Statement(ac_psr_set_error(q), NoStatement)
          [] Peek(p) = "SEQUENCE" -> ac_psr_sequence(q)
          [] Peek(p) = "IMPORT" -> ac_psr_import(q)
          [] OTHER -> Statement(ac_psr_set_error(p), NoStatement)
=============================================================================
