------------------------------ MODULE CodeGen -------------------------------
(***************************************************************************)
(* The code generator (libalca/bytecode.c) as operators: from the syntax   *)
(* tree of a rule, as the checker leaves it, to cells of the code arena.   *)
(* For model checking only (RECURSIVE).                                    *)
(*                                                                         *)
(* A builder b is [code, iter, module]: the code arena, the iterator       *)
(* variable in scope (NoName outside a `for`) and the current module name. *)
(* Bytes that hold a jump target, an integer or the name of an interned    *)
(* string are the cell's arg.                                              *)
(***************************************************************************)
EXTENDS Integers, Sequences

CONSTANTS NoName

ArgByte == [op |-> "ARG", arg |-> 0]

ac_arena_size(b) == Len(b.code)

\* Rewrites the instruction at an offset (ac_arena_replace_bytes).
Patch(b, offset, op, target) ==
    [b EXCEPT !.code[offset + 1] = [op |-> op, arg |-> target]]

ac_arena_add_code(b, op) == [b EXCEPT !.code = Append(@, [op |-> op, arg |-> 0])]

ac_arena_add_code_with_arg(b, op, arg) ==
    [b EXCEPT !.code = @ \o <<[op |-> op, arg |-> arg], ArgByte, ArgByte, ArgByte, ArgByte>>]

-----------------------------------------------------------------------------
UnaryOp == [NOT |-> "NOTL", BANG |-> "NOTL", BITNOT |-> "NOT", MINUS |-> "NEG", HASH |-> "STRLEN"]

\* The instruction for an operator; string tests have one of the same name.
Opcode ==
    [PLUS |-> "ADD", MINUS |-> "SUB", MULT |-> "MUL", DIV |-> "DIV", MOD |-> "MOD",
     SHL |-> "SHL", SHR |-> "SHR", BITAND |-> "AND", BITXOR |-> "XOR", PIPE |-> "OR",
     GREATER |-> "GT", GREATER_EQUAL |-> "GTE", LESS |-> "LT", LESS_EQUAL |-> "LTE",
     AND |-> "ANDL", OR |-> "ORL"]

\* == and != depend on the operand type the checker stored in the node.
Equality(op, ty) ==
    CASE ty = "str" -> IF op = "EQUAL_EQUAL" THEN "STREQ" ELSE "STRNE"
      [] ty = "bool" -> IF op = "EQUAL_EQUAL" THEN "BOOLEQ" ELSE "BOOLNE"
      [] OTHER -> IF op = "EQUAL_EQUAL" THEN "INTEQ" ELSE "INTNE"

BinaryOp(op, ty) ==
    CASE op \in {"EQUAL_EQUAL", "BANG_EQUAL"} -> Equality(op, ty)
      [] op \in DOMAIN Opcode -> Opcode[op]
      [] OTHER -> op

\* Bytes from the test of a `for` to the end of its loop: the test itself,
\* POP, LOAD, PUSHINT, ADD, STORE and JMP.
ExitDistance == 27

\* Bytes of JTRUE, PUSHBOOL and JMP, over which `and` jumps to its right side.
ShortCircuit == 5 * 3

RECURSIVE bytecode_emit_expr(_, _)

bytecode_emit_binary(b, e) ==
    LET left == bytecode_emit_expr(b, e.l)
        test == IF e.op # "AND" THEN left
                ELSE LET j == ac_arena_add_code_with_arg(left, "JTRUE",
                                    ac_arena_size(left) + ShortCircuit)
                         p == ac_arena_add_code_with_arg(j, "PUSHBOOL", 0)
                     IN  ac_arena_add_code_with_arg(p, "JMP", 0)
        right == bytecode_emit_expr(test, e.r)
        patched == IF e.op # "AND" THEN right
                   ELSE Patch(right, ac_arena_size(test) - 5, "JMP", ac_arena_size(right))
    IN  ac_arena_add_code(patched, BinaryOp(e.op, e.ty))

bytecode_emit_literal(b, e) ==
    CASE e.t = "num" -> ac_arena_add_code_with_arg(b, "PUSHINT", e.v)
      [] e.t = "bool" -> ac_arena_add_code_with_arg(b, "PUSHBOOL", e.v)
      [] e.t = "str" -> ac_arena_add_code_with_arg(b, "PUSHSTRING", e.v)
      [] e.t = "regex" -> ac_arena_add_code_with_arg(
                             ac_arena_add_code_with_arg(b, "PUSHSTRING", e.v), "PUSHINT", e.flags)
      \* an identifier: the module, the iterator, or a rule.  The code compares
      \* it with builder->iter, which is a null pointer outside a `for`: only
      \* programs that reference rules inside a `for` are compiled here.
      [] e.t = "id" -> IF b.module = NoName THEN b
                       ELSE ac_arena_add_code_with_arg(b,
                              IF e.name = b.module THEN "PUSHMODULE"
                              ELSE IF e.name = b.iter THEN "LOAD" ELSE "RULE",
                              IF e.name = b.iter /\ e.name # b.module THEN 0 ELSE e.name)

RECURSIVE EmitArguments(_, _, _)
EmitArguments(b, args, i) ==
    IF i = 0 THEN b ELSE EmitArguments(bytecode_emit_expr(b, args[i]), args, i - 1)

bytecode_emit_call(b, e) ==
    LET args == EmitArguments(b, e.args, Len(e.args))
        argc == ac_arena_add_code_with_arg(args, "PUSHINT", Len(e.args))
    IN  ac_arena_add_code(bytecode_emit_expr(argc, e.fn), "CALL")

\* A field used as a value is read with OBJECT; arrays and functions are not.
bytecode_emit_field(b, e) ==
    LET f == ac_arena_add_code_with_arg(bytecode_emit_expr(b, e.o), "FIELD", e.name)
    IN  IF e.literal THEN ac_arena_add_code(f, "OBJECT") ELSE f

bytecode_emit_index(b, e) ==
    ac_arena_add_code(bytecode_emit_expr(bytecode_emit_expr(b, e.o), e.i), "INDEX")

IncrementCounter(b, accum) ==   \* mutant: always stores into the counter
    LET load == ac_arena_add_code_with_arg(b, "LOAD", accum)
        add == ac_arena_add_code(ac_arena_add_code_with_arg(load, "PUSHINT", 1), "ADD")
    IN  ac_arena_add_code_with_arg(add, "STORE", 3)

\* Adds one to an accumulator.
EmitIncrement(b, accum) ==
    LET load == ac_arena_add_code_with_arg(b, "LOAD", accum)
        add == ac_arena_add_code(ac_arena_add_code_with_arg(load, "PUSHINT", 1), "ADD")
    IN  ac_arena_add_code_with_arg(add, "STORE", accum)

\* The test after each condition: quantifier `all`, `any` or a number.
EmitQuantifier(b, e) ==
    IF e.all THEN ac_arena_add_code_with_arg(b, "JFALSE", ac_arena_size(b) + ExitDistance)
    ELSE IF e.any THEN ac_arena_add_code_with_arg(b, "JTRUE", ac_arena_size(b) + ExitDistance)
    ELSE LET t == ac_arena_add_code_with_arg(b, "JTRUE", ac_arena_size(b) + 10)
             j == ac_arena_add_code_with_arg(t, "JMP", 0)
             c3 == EmitIncrement(ac_arena_add_code(j, "POP"), 3)
             c4 == ac_arena_add_code_with_arg(c3, "LOAD", 3)
             c5 == ac_arena_add_code(ac_arena_add_code_with_arg(c4, "PUSHINT", e.fixed), "GTE")
             c6 == ac_arena_add_code_with_arg(c5, "JTRUE", ac_arena_size(c5) + ExitDistance)
         IN  Patch(c6, ac_arena_size(j) - 5, "JMP", ac_arena_size(c6))

bytecode_emit_range(b, e) ==
    LET ends == bytecode_emit_expr(bytecode_emit_expr([b EXCEPT !.iter = e.var], e.to), e.from)
        saved == ac_arena_add_code_with_arg(
                     ac_arena_add_code_with_arg(ends, "STORE", 0), "STORE", 1)
        iter_start == ac_arena_size(saved)
        less == ac_arena_add_code(ac_arena_add_code_with_arg(
                    ac_arena_add_code_with_arg(saved, "LOAD", 0), "LOAD", 1), "LT")
        offset == ac_arena_size(less)
        enter == ac_arena_add_code(ac_arena_add_code_with_arg(less, "JFALSE", 0), "POP")
        cond == ac_arena_add_code_with_arg(ac_arena_add_code_with_arg(
                    bytecode_emit_expr(enter, e.cond), "STORE", 2), "LOAD", 2)
        test == EmitQuantifier(cond, e)
        inc == EmitIncrement(ac_arena_add_code(test, "POP"), 0)
        loop == ac_arena_add_code_with_arg(inc, "JMP", iter_start)
        done == Patch(loop, offset, "JFALSE", ac_arena_size(loop))
    IN  [ac_arena_add_code_with_arg(ac_arena_add_code(done, "POP"), "LOAD", 2)
            EXCEPT !.iter = NoName]

bytecode_emit_expr(b, e) ==
    CASE e.t = "bin" -> bytecode_emit_binary(b, e)
      [] e.t = "un" -> ac_arena_add_code(bytecode_emit_expr(b, e.e), UnaryOp[e.op])
      [] e.t = "group" -> bytecode_emit_expr(b, e.e)
      [] e.t = "call" -> bytecode_emit_call(b, e)
      [] e.t = "field" -> bytecode_emit_field(b, e)
      [] e.t = "index" -> bytecode_emit_index(b, e)
      [] e.t = "range" -> bytecode_emit_range(b, e)
      [] OTHER -> bytecode_emit_literal(b, e)

\* A rule [name, event, cond]; one without an event type leaves the module name
\* of the rule before it.
ac_bytecode_emit_rule(b, rule) ==
    ac_arena_add_code(
        bytecode_emit_expr(IF rule.event = NoName THEN b ELSE [b EXCEPT !.module = rule.event],
                           rule.cond),
        "HLT")

\* Compiling the rules of a list in order, up to the n-th: c holds the builder
\* and the rule table so far, code offsets and names (compiler_compile_rule).
RECURSIVE CompileUpTo(_, _, _)
CompileUpTo(c, rules, n) ==
    LET done == Len(c.offsets)
    IN  CASE done >= n -> c
          [] done + 1 = n -> [b |-> ac_bytecode_emit_rule(c.b, rules[n]),
                              offsets |-> Append(c.offsets, ac_arena_size(c.b)),
                              names |-> Append(c.names, rules[n].name)]
          [] done + 1 < n -> CompileUpTo(CompileUpTo(c, rules, (done + n) \div 2), rules, n)

CompileRules(rules) ==
    CompileUpTo([b |-> [code |-> <<>>, iter |-> NoName, module |-> NoName], offsets |-> <<>>,
                 names |-> <<>>],
                rules, Len(rules))
=============================================================================
