------------------------------- MODULE FrontEnd -------------------------------
(***************************************************************************)
(* One source file from its text to the verdict of the type checker: the   *)
(* scanner takes lexeme after lexeme, the parser statement after           *)
(* statement, and the checker (libalca/checker.c) goes over the statements *)
(* with the environment of the names declared so far.  ac_compiler_add_    *)
(* file, ac_compiler_build_ast and ac_compiler_check_ast call the three    *)
(* one after the other; what they do with several files is in Compiler.    *)
(***************************************************************************)
EXTENDS Parser, TypeChecker, LexicalGrammar

VARIABLES
    pc,         \* "scan", "parse", "check", "done", "failed" or "lost"
    parser,
    ast,        \* the statements, with the types stored as they are checked
    env,        \* [name -> [type, event]]
    checked,    \* the number of statements checked
    accepted

vars == <<lexer, program, pc, parser, ast, env, checked, accepted>>

Init ==
    /\ ScanInit
    /\ pc = "scan"
    /\ parser = ac_psr_new
    /\ ast = <<>>
    /\ env = <<>> /\ checked = 0 /\ accepted = TRUE

-----------------------------------------------------------------------------
Scanning == pc = "scan" /\ UNCHANGED <<pc, parser, ast, env, checked, accepted>>

\* The scan is over; a file without a single token counts as a failure, too.
ac_lex_scan ==
    /\ pc = "scan"
    /\ status # "SUCCESS" \/ lex_isEof
    /\ pc' = CASE status = "CRASHED" -> "lost"
               [] status = "UNSUCCESSFUL" \/ tokens = <<>> -> "failed"
               [] OTHER -> "parse"
    /\ UNCHANGED <<lexer, program, parser, ast, env, checked, accepted>>

\* One round of the parser's loop.  The loop ends at EOF and with a statement
\* that breaks off; after an error what has been parsed is freed.
ac_psr_ast ==
    /\ pc = "parse"
    /\ \E r \in {IF Peek(parser) = "EOF" THEN Statement(ac_psr_advance(parser), NoStatement)
                ELSE ac_psr_statement(parser)} :
           IF r.s # NoStatement
           THEN parser' = r.p /\ ast' = Append(ast, r.s) /\ pc' = pc
           ELSE IF r.p.error
           THEN /\ parser' = Free(r.p, UNION {StatementNodes(s) : s \in ToSet(ast)})
                /\ ast' = <<>> /\ pc' = "failed"
           ELSE parser' = r.p /\ ast' = ast /\ pc' = "check"
    /\ UNCHANGED <<lexer, program, env, checked, accepted>>

-----------------------------------------------------------------------------
Declared(name, type, event) ==
    [n \in DOMAIN env \cup {name} |-> IF n = name THEN [type |-> type, event |-> event] ELSE env[n]]

\* The type of a rule's condition under names, without a module for its event.
ConditionType(rule, names) ==
    IF rule.event # NoName /\ rule.event \notin DOMAIN Schema THEN Typed("err", rule.cond)
    ELSE check_type(rule.cond, rule.event, names)

\* Statement number checked + 1 becomes s; ty is the type it was found to have.
Checked(s, ty, names) ==
    /\ env' = names
    /\ ast' = [ast EXCEPT ![checked + 1] = s]
    /\ checked' = checked + 1
    /\ accepted' = (accepted /\ ty = "bool")
    /\ pc' = IF ty \in Lost THEN "lost" ELSE pc
    /\ UNCHANGED <<lexer, program, parser>>

NextIs(kind) == pc = "check" /\ checked < Len(ast) /\ ast[checked + 1].kind = kind

checker_import ==
    /\ NextIs("import")
    /\ LET s == ast[checked + 1]
       IN  Checked(s, "bool", IF s.name \in DOMAIN env THEN env ELSE Declared(s.name, "import", NoName))

\* The name is declared before the condition is checked, and stays declared if
\* the check fails.
checker_check_rule ==
    /\ NextIs("rule")
    /\ LET s == ast[checked + 1]
           names == Declared(s.name, "rule", s.event)
           cond == ConditionType(s, names)
       IN  IF s.name \in DOMAIN env THEN Checked(s, "err", env)
           ELSE Checked([s EXCEPT !.cond = cond.e], cond.ty, names)

\* The rules of a sequence in order up to the first that fails: [s, ty].
ElementTypes(s, names) ==
    LET Check(x, r) ==
            IF x.ty # "bool" THEN [x EXCEPT !.s.rules = Append(@, r)]
            ELSE IF r.kind = "external"
            THEN [s |-> [x.s EXCEPT !.rules = Append(@, r)],
                  ty |-> IF r.name \in DOMAIN names /\ names[r.name].type = "rule" THEN "bool" ELSE "err"]
            ELSE LET cond == ConditionType(r, names)
                 IN  [s |-> [x.s EXCEPT !.rules = Append(@, [r EXCEPT !.cond = cond.e])], ty |-> cond.ty]
    IN  FoldLeft(Check, [s |-> [s EXCEPT !.rules = <<>>], ty |-> "bool"], s.rules)

checker_check_sequence ==
    /\ NextIs("sequence")
    /\ LET s == ast[checked + 1]
           names == Declared(s.name, "sequence", NoName)
           x == ElementTypes(s, names)
       IN  IF s.name \in DOMAIN env THEN Checked(s, "err", env) ELSE Checked(x.s, x.ty, names)

\* The private rules that declared their name; they are taken back at the end.
PrivateNames ==
    {ast[j].name : j \in {j \in 1..Len(ast) : /\ ast[j].kind = "rule" /\ ast[j].private
                                             /\ \A i \in 1..(j - 1) : ast[i].name # ast[j].name}}

ac_checker_check ==
    /\ pc = "check" /\ checked = Len(ast)
    /\ pc' = "done"
    /\ env' = [n \in DOMAIN env \ PrivateNames |-> env[n]]
    /\ UNCHANGED <<lexer, program, parser, ast, checked, accepted>>

Next ==
    \/ ScanNext /\ Scanning
    \/ ac_lex_scan
    \/ ac_psr_ast
    \/ checker_import \/ checker_check_rule \/ checker_check_sequence \/ ac_checker_check

Spec == Init /\ [][Next]_vars
=============================================================================
