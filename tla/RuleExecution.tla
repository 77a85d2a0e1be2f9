--------------------------- MODULE RuleExecution ----------------------------
(***************************************************************************)
(* Checker, code generator and interpreter together: the rules of Source,  *)
(* as the parser hands them on, are given their types by TypeChecker,      *)
(* compiled by CodeGen into one code arena and run by VmInterp; the        *)
(* results are compared with what docs/RULES.md says the rules mean.       *)
(***************************************************************************)
EXTENDS StackShapes, CodeGen, TypeChecker, SequencesExt, FiniteSets, TLC

CONSTANT Source     \* the rules [name, event, cond] of one file, in order

\* The environment of rule n: the rules before it, and its own name, which is
\* declared before its condition is checked.
RulesUpTo(source, n) ==
    [name \in {source[i].name : i \in 1..n} |->
        [type |-> "rule", event |-> source[CHOOSE i \in 1..n : source[i].name = name].event]]

\* The type of each rule's condition, and its tree with the types stored.
CheckRules(source) ==
    [n \in 1..Len(source) |-> check_type(source[n].cond, source[n].event, RulesUpTo(source, n))]

ASSUME SourceIsAccepted ==
    LET conds == CheckRules(Source)
    IN  \A n \in DOMAIN conds : conds[n].ty = "bool"

\* The code of the rules as the checker leaves them.
CompileChecked(source, conds) ==
    CompileRules([n \in 1..Len(source) |-> [source[n] EXCEPT !.cond = conds[n].e]])
CompileFile(source) == CompileChecked(source, CheckRules(source))
Compiled == CompileFile(Source)

ASSUME CodeIsCompiled ==
    LET c == Compiled
    IN  Code = c.b.code /\ RuleOffset = c.offsets /\ RuleNames = c.names

\* Event data is of the types that the module has declared.
KindOf(base) == IF base = "str" THEN "str" ELSE "num"
ASSUME DataIsTyped ==
    \A m \in DOMAIN Schema : \A f \in DOMAIN Schema[m] :
        LET d == Schema[m][f]
            o == Field[Module[m], f]
        IN  CASE d.function -> \A x \in Function[o] \ {NoResult} : x.k = KindOf(d.base)
              [] d.array /\ d.base # "struct" -> \A x \in {Items[o][i] : i \in DOMAIN Items[o]} : x.k = KindOf(d.base)
              [] d.array /\ d.base = "struct" ->
                    \A x \in {Items[o][i] : i \in DOMAIN Items[o]} :
                        \A g \in DOMAIN d.fields : Payload[Field[x.v, g]].k = KindOf(d.fields[g].base)
              [] OTHER -> Payload[o].k = KindOf(d.base)

\* The operands after instruction c on operands of shape s.
ShapeAfter(c, s) ==
    LET Pushed(n, T) == Append(Under(s, n), T)
    IN  CASE c.op \in NumberOps \cup StringOps -> Pushed(2, Numeric)
          [] c.op \in {"NOT", "NEG", "NOTL", "JFALSE", "JTRUE"} -> Pushed(1, Numeric)
          [] c.op = "MATCHES" -> Pushed(3, Numeric)
          [] c.op = "STRLEN" -> Pushed(1, {Num(StrLen[x.v]) : x \in Nth(s, 1)})
          [] c.op = "PUSHINT" -> Pushed(0, {Num(c.arg)})
          [] c.op = "PUSHSTRING" -> Pushed(0, {[k |-> "str", v |-> c.arg]})
          [] c.op = "PUSHMODULE" -> Pushed(0, {[k |-> "obj", v |-> Module[c.arg]]})
          [] c.op = "OBJECT" -> Pushed(1, {Payload[x.v] : x \in Nth(s, 1)})
          [] c.op = "FIELD" -> Pushed(1, {[k |-> "obj", v |-> Field[x.v, c.arg]] : x \in Nth(s, 1)})
          [] c.op = "INDEX" -> Pushed(2, UNION {{Items[x.v][i] : i \in DOMAIN Items[x.v]} : x \in Nth(s, 2)})
          [] c.op = "CALL" -> Pushed(2 + (CHOOSE n \in Nth(s, 2) : TRUE).v,
                                     UNION {Function[x.v] \ {NoResult} : x \in Nth(s, 1)})
          [] c.op \in {"PUSHBOOL", "LOAD", "RULE"} -> Pushed(0, Numeric)
          [] c.op \in {"STORE", "POP", "HLT"} -> Under(s, 1)
          [] OTHER -> s

\* The shapes in the code from offset a to end, found in one pass: known has
\* those of the instructions before a and of where they go on.
RECURSIVE ShapesFrom(_, _, _, _)
ShapesFrom(code, a, end, known) ==
    IF a >= end THEN known
    ELSE LET c == code[a + 1]
             next == a + (IF c.op \in WithArg THEN 5 ELSE 1)
             after == ShapeAfter(c, known[a])
             goes == CASE c.op = "HLT" -> {} [] c.op = "JMP" -> {c.arg}
                       [] c.op \in {"JFALSE", "JTRUE"} -> {next, c.arg}
                       [] OTHER -> {next}
         IN  ShapesFrom(code, next, end, known @@ [b \in goes |-> after])

\* The shapes in the code of the m-th to the n-th rule, byte by byte.
RECURSIVE ShapesOf(_, _, _)
ShapesOf(c, m, n) ==
    LET half == (m + n) \div 2
        start == c.offsets[m]
        end == IF n = Len(c.offsets) THEN Len(c.b.code) ELSE c.offsets[n + 1]
        known == ShapesFrom(c.b.code, start, end, start :> <<>>)
    IN  IF m < n THEN ShapesOf(c, m, half) \o ShapesOf(c, half + 1, n)
        ELSE [i \in 1..(end - start) |->
                 IF start + i - 1 \in DOMAIN known THEN known[start + i - 1] ELSE <<>>]
Shapes == ShapesOf(Compiled, 1, Len(Compiled.offsets))

-----------------------------------------------------------------------------
(* The meaning of an expression: the set of values it may have, Err among  *)
(* them when its evaluation may fail.                                      *)

Err == [k |-> "err", v |-> 0]

BitCodes == [BITAND |-> "AND", PIPE |-> "OR", BITXOR |-> "XOR"]

MeaningOfOp(op, x, y) ==
    CASE op = "PLUS" -> {Num((x.v + y.v) % Word)}
      [] op = "MINUS" -> {Num((x.v - y.v) % Word)}
      [] op = "MULT" -> {Num((x.v * y.v) % Word)}
      [] op = "DIV" -> {Num(x.v \div y.v)}
      [] op = "MOD" -> {Num(x.v % y.v)}
      [] op \in DOMAIN BitCodes -> {Num(BitOp[BitCodes[op], x.v, y.v])}
      [] op = "SHL" -> IF y.v > WordBits THEN {Err}
                       ELSE IF y.v = WordBits THEN {x, Num(0)} ELSE {Num((x.v * 2^y.v) % Word)}
      [] op = "SHR" -> IF y.v > WordBits THEN {Err}
                       ELSE IF y.v = WordBits THEN {x, Num(0)} ELSE {Num(x.v \div 2^y.v)}
      [] op = "GREATER" -> {Bool(x.v > y.v)}
      [] op = "LESS" -> {Bool(x.v < y.v)}
      [] op = "GREATER_EQUAL" -> {Bool(x.v >= y.v)}
      [] op = "LESS_EQUAL" -> {Bool(x.v <= y.v)}
      [] op = "EQUAL_EQUAL" -> {Bool(x = y)}
      [] op = "BANG_EQUAL" -> {Bool(x # y)}
      [] op = "OR" -> {Bool(x.v # 0 \/ y.v # 0)}
      [] OTHER -> {Num(0), Num(1)}    \* string tests

\* The value of a `for`, vals giving its condition at each index in turn.
\* `all`: every condition holds; N: at least N of them do (any is 1).  An error
\* counts only if it is met before the answer is known.
QuantifierMeaning(e, from, to, vals) ==
    LET need == IF e.all THEN to - from ELSE IF e.any THEN 1 ELSE e.fixed
        Held(i) == Cardinality({j \in from..(i - 1) : vals[j] # Err /\ vals[j].v # 0})
        Known(i) == \/ Held(i) >= need
                    \/ e.all /\ \E j \in from..(i - 1) : vals[j] # Err /\ vals[j].v = 0
    IN  IF \E i \in from..(to - 1) : vals[i] = Err /\ ~Known(i) THEN Err
        ELSE Bool(Held(to) >= need)

\* env: the value of the iterator; conds: the conditions of the rules by name.
RECURSIVE Meaning(_, _, _)
Meaning(e, env, conds) ==
    CASE e.t \in {"num", "bool"} -> {Num(e.v)}
      [] e.t = "str" -> {[k |-> "str", v |-> e.v]}
      [] e.t = "regex" -> {[k |-> "str", v |-> e.v]}
      [] e.t = "id" ->
            IF e.name \in DOMAIN env THEN {Num(env[e.name])}
            ELSE IF e.name \in DOMAIN Module THEN {[k |-> "obj", v |-> Module[e.name]]}
            ELSE IF e.name \in DOMAIN conds THEN Meaning(conds[e.name], <<>>, conds)
            ELSE {Err}
      [] e.t = "group" -> Meaning(e.e, env, conds)
      [] e.t = "un" ->
            {IF x = Err THEN Err
             ELSE CASE e.op \in {"NOT", "BANG"} -> Bool(x.v = 0)
                    [] e.op = "BITNOT" -> Num(Word - 1 - x.v)
                    [] e.op = "MINUS" -> Num((0 - x.v) % Word)
                    [] e.op = "HASH" -> Num(StrLen[x.v]) : x \in Meaning(e.e, env, conds)}
      [] e.t = "bin" /\ e.op = "AND" ->
            UNION {IF x = Err THEN {Err} ELSE IF x.v = 0 THEN {Num(0)}
                   ELSE {IF y = Err THEN Err ELSE Bool(y.v # 0) : y \in Meaning(e.r, env, conds)}
                   : x \in Meaning(e.l, env, conds)}
      [] e.t = "bin" /\ e.op # "AND" ->
            UNION {IF Err \in {p[1], p[2]} THEN {Err} ELSE MeaningOfOp(e.op, p[1], p[2])
                   : p \in Meaning(e.l, env, conds) \X Meaning(e.r, env, conds)}
      [] e.t = "field" ->
            {IF x = Err THEN Err
             ELSE LET f == Field[x.v, e.name]
                  IN  IF f \in DOMAIN Payload THEN Payload[f] ELSE [k |-> "obj", v |-> f]
             : x \in Meaning(e.o, env, conds)}
      [] e.t = "index" ->
            {IF Err \in {p[1], p[2]} THEN Err
             ELSE IF p[2].v < Len(Items[p[1].v]) THEN Items[p[1].v][p[2].v + 1] ELSE Err
             : p \in Meaning(e.o, env, conds) \X Meaning(e.i, env, conds)}
      [] e.t = "call" ->
            LET args == [i \in 1..Len(e.args) |-> Meaning(e.args[i], env, conds)]
            IN  IF \E i \in DOMAIN args : args[i] = {Err} THEN {Err}
                ELSE (IF \E i \in DOMAIN args : Err \in args[i] THEN {Err} ELSE {})
                     \cup UNION {{IF r = NoResult THEN Err ELSE r : r \in Function[f.v]}
                            : f \in Meaning(e.fn, env, conds)}
      [] e.t = "range" ->
            UNION {IF Err \in {p[1], p[2]} THEN {Err}
                   ELSE LET I == p[1].v .. (p[2].v - 1)
                            M == [i \in I |-> Meaning(e.cond, (e.var :> i), conds)]
                            V == {f \in [I -> UNION {M[i] : i \in I}] : \A i \in I : f[i] \in M[i]}
                        IN  {QuantifierMeaning(e, p[1].v, p[2].v, f) : f \in V}
                   : p \in Meaning(e.from, env, conds) \X Meaning(e.to, env, conds)}

RuleMeaning ==
    LET conds == FoldLeft(LAMBDA c, rule : (rule.name :> rule.cond) @@ c, <<>>, Source)
    IN  [r \in Rules |-> Meaning(conds[RuleNames[r]], <<>>, conds)]

\* A finished rule returned the value its source means, or an error where its
\* source has one: compiled code agrees with the language, whatever operands
\* earlier rules left on the stack.
ResultIsMeaning ==
    ret.on /\ ~ret.overflow =>
        IF ret.err # "SUCCESS" THEN Err \in RuleMeaning[ret.rule]
                                ELSE Num(ret.result) \in RuleMeaning[ret.rule]
=============================================================================
