------------------------------ MODULE TypeChecker -----------------------------
(***************************************************************************)
(* The types of expressions (libalca/checker.c), as operators: from the    *)
(* tree of a condition to its type and to the tree with the types stored   *)
(* in its nodes, on which the code generator relies.  For model checking   *)
(* only (RECURSIVE).                                                       *)
(*                                                                         *)
(* A type is "num", "str", "bool", "regex", "err" for TOKEN_EOF, "name"    *)
(* for the error code returned in its place for the name of a sequence or  *)
(* an import (the arguments of report_error are exchanged there), "hang"   *)
(* if the check does not return, or "crash".                               *)
(***************************************************************************)
EXTENDS Integers, Sequences

CONSTANTS
    Schema    \* [event type -> [field -> [base, array, function, args, fields]]]

Values == {"num", "str", "bool"}
Lost == {"hang", "crash"}    \* control does not come back

\* The first of two types that ends the check, err if there is none.
Worse(t1, t2) == IF t1 \in Lost THEN t1 ELSE IF t2 \in Lost THEN t2 ELSE "err"

\* [valid, result] of an operator; t2 is that of the right operand, if any.
valid_operation(t1, t2, op) ==
    CASE op \in {"PLUS", "MINUS", "DIV", "MULT", "SHR", "SHL", "BITAND", "BITXOR", "BITNOT",
                 "PIPE", "MOD"} -> [valid |-> t1 = "num", result |-> t1]
      [] op \in {"GREATER", "GREATER_EQUAL", "LESS", "LESS_EQUAL"} ->
            [valid |-> t1 = "num", result |-> "bool"]
      [] op \in {"AND", "OR", "NOT", "BANG"} -> [valid |-> t1 = "bool", result |-> t1]
      [] op \in {"EQUAL_EQUAL", "BANG_EQUAL"} -> [valid |-> t1 \in Values, result |-> "bool"]
      [] op \in {"CONTAINS", "ICONTAINS", "STARTSWITH", "ISTARTSWITH", "ENDSWITH", "IENDSWITH",
                 "IEQUALS"} -> [valid |-> t1 = "str", result |-> "bool"]
      [] op = "MATCHES" -> [valid |-> t1 = "str" /\ t2 = "regex", result |-> "bool"]
      [] op = "HASH" -> [valid |-> t1 = "str", result |-> "num"]

-----------------------------------------------------------------------------
(* Chains of fields, calls and indices below an identifier.                *)

Chained == {"id", "num", "str", "bool", "regex", "field", "call", "index"}

RECURSIVE Unwrapped(_)
Unwrapped(e) == IF e.t = "group" THEN Unwrapped(e.e) ELSE e

\* What building the chain of e comes to; outer is the expression it is built
\* for, whose memory an error message reads as that of a call.
RECURSIVE Chain(_, _)
Chain(e, outer) ==
    CASE e.t = "id" -> "ok"
      [] e.t \in {"num", "str", "bool", "regex"} -> "err"
      [] e.t = "field" -> IF Unwrapped(e.o).t \notin Chained THEN "err" ELSE Chain(e.o, outer)
      [] e.t = "index" -> IF e.o.t # "field" THEN "err" ELSE Chain(e.o.o, outer)
      [] e.t = "call" -> IF e.fn.t = "field" /\ e.fn.o.t = "id" THEN "ok"
                         ELSE IF e.fn.t \in {"id", "num", "str", "bool", "regex"} \/ outer.t = "field"
                         THEN "crash"
                         ELSE "err"
      [] OTHER -> "hang"

\* The signature of a call against the types of the arguments.  A wrong number
\* of arguments is not an error, except for none at all where none is expected.
ac_context_validate_function_call(f, args) ==
    IF args = <<>> THEN f.args # <<>>
    ELSE Len(args) # Len(f.args) \/ args = f.args

RECURSIVE resolve_type(_, _, _), Lookup(_, _, _)

Typed(ty, e) == [ty |-> ty, e |-> e]

\* The type stored in a field's node tells arrays and functions from values.
Annotated(e) == [e EXCEPT !.literal = FALSE]

ArgumentTypes(e, event, env) == [i \in 1..Len(e.args) |-> resolve_type(e.args[i], event, env)]

\* The arguments are resolved in order up to the first that has no value.
checker_valid_call(f, args) ==
    LET wrong == {i \in 1..Len(args) : args[i].ty \notin Values}
        first == CHOOSE i \in wrong : \A j \in wrong : i <= j
    IN  IF wrong # {} THEN (IF args[first].ty \in Lost THEN args[first].ty ELSE "err")
        ELSE IF ac_context_validate_function_call(f, [i \in 1..Len(args) |-> args[i].ty])
        THEN "ok" ELSE "err"

\* What a walk down from the module has come to: the type, "open" at a struct,
\* the tree, and the object.
Found(ty, e, obj) == [ty |-> ty, e |-> e, obj |-> obj]
NotFound(e) == Found("err", e, <<>>)
Base(obj) == IF obj.base = "struct" THEN "open" ELSE obj.base

\* The step to the object under a name, reached if there is one.  The walk ends at
\* the first object that is no struct, whatever follows in the expression.
ObjectBelow(up, name, e, reached) ==
    IF up.ty # "open" THEN Found(up.ty, e, up.obj)
    ELSE IF name \notin DOMAIN up.obj.fields THEN NotFound(e)
    ELSE reached

ReachField(e, obj) ==
    IF obj.array \/ obj.function \/ obj.base = "struct" THEN NotFound(e) ELSE Found(obj.base, e, obj)
ReachItem(e, obj) ==
    IF obj.array THEN Found(Base(obj), [e EXCEPT !.o = Annotated(@)], obj) ELSE NotFound(e)
Called(e, args, valid, obj) ==
    Found(IF valid = "ok" THEN Base(obj) ELSE valid,
          [e EXCEPT !.fn = Annotated(@), !.args = [i \in 1..Len(args) |-> args[i].e]], obj)
ReachResult(e, args, obj) ==
    IF obj.function THEN Called(e, args, checker_valid_call(obj, args), obj) ELSE NotFound(e)

FieldBelow(up, e) == ObjectBelow(up, e.name, e, ReachField(e, up.obj.fields[e.name]))
ItemBelow(up, e) == ObjectBelow(up, e.o.name, e, ReachItem(e, up.obj.fields[e.o.name]))
ResultBelow(up, e, args) ==
    ObjectBelow(up, e.fn.name, e, ReachResult(e, args, up.obj.fields[e.fn.name]))
OfField(up, e) == FieldBelow(up, [e EXCEPT !.o = up.e])
OfItem(up, e) == ItemBelow(up, [e EXCEPT !.o.o = up.e])

\* The object that e names, from the module down.
Lookup(e, event, env) ==
    CASE e.t = "id" -> IF event \in DOMAIN Schema /\ e.name = event
                       THEN Found("open", e, [base |-> "struct", fields |-> Schema[event]])
                       ELSE NotFound(e)
      [] e.t = "field" -> OfField(Lookup(e.o, event, env), e)
      [] e.t = "index" -> OfItem(Lookup(e.o.o, event, env), e)
      [] e.t = "call" -> ResultBelow(Lookup(e.fn.o, event, env), e, ArgumentTypes(e, event, env))

\* A struct at the end of a chain has no value.
ChainType(chain, found, e) ==
    CASE chain # "ok" -> Typed(chain, e)
      [] chain = "ok" /\ found.ty = "open" -> Typed("err", e)
      [] OTHER -> Typed(found.ty, found.e)

resolve_identifier_type(e, event, env) == ChainType(Chain(e, e), Lookup(e, event, env), e)

-----------------------------------------------------------------------------
\* An identifier on its own: a variable, or a rule for the same event type.
\* (A rule is returned as true before the check for self-reference.)
IdentifierType(e, event, env) ==
    IF e.name \notin DOMAIN env THEN resolve_identifier_type(e, event, env).ty
    ELSE CASE env[e.name].type = "rule" -> IF env[e.name].event = event THEN "bool" ELSE "err"
           [] env[e.name].type = "variable" -> "num"
           [] OTHER -> "name"

Compatible(t1, t2) == t1 = t2 \/ (t1 = "str" /\ t2 = "regex")

\* The type of the operands, on which the instruction for == depends.
Stored(e, ty) == [e EXCEPT !.ty = ty]

BinaryOfTypes(t1, t2, op, e) ==
    Typed(CASE {t1, t2} \cap (Lost \cup {"err"}) # {} -> Worse(t1, t2)
            [] OTHER -> IF Compatible(t1, t2) /\ op.valid THEN op.result ELSE "err",
          Stored(e, t1))
BinaryOf(l, r, e) ==
    BinaryOfTypes(l.ty, r.ty, valid_operation(l.ty, r.ty, e.op), [e EXCEPT !.l = l.e, !.r = r.e])
BinaryType(e, event, env) == BinaryOf(resolve_type(e.l, event, env), resolve_type(e.r, event, env), e)

UnaryOfType(ty, op, e) ==
    Typed(IF ty \in Lost \cup {"err"} THEN ty ELSE IF op.valid THEN op.result ELSE "err", e)
UnaryOf(x, e) == UnaryOfType(x.ty, valid_operation(x.ty, "err", e.op), [e EXCEPT !.e = x.e])
UnaryType(e, event, env) == UnaryOf(resolve_type(e.e, event, env), e)

IteratorKept(env, var) ==   \* mutant: the variable does not enter the scope
    env

\* The iterator is in scope in the condition only.
WithIterator(env, var) ==
    [n \in DOMAIN env \cup {var} |-> IF n = var THEN [type |-> "variable", event |-> var] ELSE env[n]]

RangeOfTypes(from, to, cond, declared) ==
    CASE from \in Lost \cup {"err"} -> from
      [] from \notin Lost \cup {"err"} /\ to \in Lost \cup {"err"} -> to
      [] OTHER -> IF from # "num" \/ to # "num" \/ declared THEN "err"
                  ELSE IF cond \in Lost \cup {"bool"} THEN cond ELSE "err"
RangeOf(from, to, cond, e, env) ==
    Typed(RangeOfTypes(from.ty, to.ty, cond.ty, e.var \in DOMAIN env),
          [e EXCEPT !.from = from.e, !.to = to.e, !.cond = cond.e])
RangeType(e, event, env) ==
    RangeOf(resolve_type(e.from, event, env), resolve_type(e.to, event, env),
            resolve_type(e.cond, event, WithIterator(env, e.var)), e, env)

\* The type of an expression in a rule for event, under env.  The indices inside
\* a chain are not looked at, only one at its end.
IndexType(i, e, event, env) ==
    IF i.ty # "num" THEN Typed(IF i.ty \in Lost THEN i.ty ELSE "err", e)
    ELSE resolve_identifier_type([e EXCEPT !.i = i.e], event, env)
GroupType(x, e) == Typed(x.ty, [e EXCEPT !.e = x.e])
resolve_type(e, event, env) ==
    CASE e.t \in {"num", "str", "bool", "regex"} -> Typed(e.t, e)
      [] e.t = "id" -> Typed(IdentifierType(e, event, env), e)
      [] e.t = "group" -> GroupType(resolve_type(e.e, event, env), e)
      [] e.t \in {"field", "call"} -> resolve_identifier_type(e, event, env)
      [] e.t = "index" -> IndexType(resolve_type(e.i, event, env), e, event, env)
      [] e.t = "bin" -> BinaryType(e, event, env)
      [] e.t = "un" -> UnaryType(e, event, env)
      [] e.t = "range" -> RangeType(e, event, env)

\* The check of a rule's condition: a boolean is accepted.
check_type(cond, event, env) == resolve_type(cond, event, env)
=============================================================================
