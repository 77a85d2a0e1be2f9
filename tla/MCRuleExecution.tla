-------------------------- MODULE MCRuleExecution ---------------------------
(***************************************************************************)
(* A module "net" with an integer, a string, a boolean, an array, an array *)
(* of structs and a function that may fail; rules over them that use every *)
(* operator; and every operator between any two operands of a pool, as far *)
(* as the checker accepts them.  Words have four bits.                     *)
(***************************************************************************)
EXTENDS RuleExecution

Declared(base, array, fields) ==
    [base |-> base, array |-> array, function |-> FALSE, args |-> <<>>, fields |-> fields]
MCSchema ==
    "net" :> ("n" :> Declared("num", FALSE, <<>>) @@ "s" :> Declared("str", FALSE, <<>>)
              @@ "t" :> Declared("bool", FALSE, <<>>) @@ "arr" :> Declared("num", TRUE, <<>>)
              @@ "items" :> Declared("struct", TRUE, "s" :> Declared("str", FALSE, <<>>))
              @@ "fn" :> [Declared("bool", FALSE, <<>>) EXCEPT !.function = TRUE, !.args = <<"num", "str">>])

Obj(o) == [k |-> "obj", v |-> o]
MCModule == "net" :> 1
MCField ==
    <<1, "n">> :> 2 @@ <<1, "s">> :> 3 @@ <<1, "arr">> :> 4 @@ <<1, "fn">> :> 5 @@ <<1, "t">> :> 6
    @@ <<1, "items">> :> 7 @@ <<8, "s">> :> 9 @@ <<10, "s">> :> 11
MCPayload ==
    2 :> Num(3) @@ 3 :> [k |-> "str", v |-> "abc"] @@ 6 :> Num(1)
    @@ 9 :> [k |-> "str", v |-> "x"] @@ 11 :> [k |-> "str", v |-> "abc"]
MCItems == 4 :> <<Num(1), Num(3), Num(0)>> @@ 7 :> <<Obj(8), Obj(10)>>
MCFunction == 5 :> {Num(1), NoResult}
MCStrLen == "abc" :> 3 @@ "x" :> 1
Bit(x, i) == (x \div 2^i) % 2
MCBitOp ==
    [t \in {"AND", "OR", "XOR"} \X (0..15) \X (0..15) |->
        LET B(i) == LET x == Bit(t[2], i)
                        y == Bit(t[3], i)
                    IN  2^i * (CASE t[1] = "AND" -> x * y
                                 [] t[1] = "OR" -> x + y - x * y
                                 [] OTHER -> (x + y) % 2)
        IN  B(0) + B(1) + B(2) + B(3)]

-----------------------------------------------------------------------------
(* Syntax trees *)
Lit(n) == [t |-> "num", v |-> n]
Truth(n) == [t |-> "bool", v |-> n]
Str(s) == [t |-> "str", v |-> s]
Id(x) == [t |-> "id", name |-> x]
Un(op, e) == [t |-> "un", op |-> op, e |-> e]
Bin(op, l, r) == [t |-> "bin", op |-> op, l |-> l, r |-> r, ty |-> "unset"]
Group(e) == [t |-> "group", e |-> e]
Fld(o, f) == [t |-> "field", o |-> o, name |-> f, literal |-> TRUE]
Net(f) == Fld(Id("net"), f)
Index(f, i) == [t |-> "index", o |-> Net(f), i |-> i]
At(i) == Index("arr", i)
Call(args) == [t |-> "call", fn |-> Net("fn"), args |-> args]
For(q, from, to, cond) ==
    [t |-> "range", all |-> q = "all", any |-> q = "any",
     fixed |-> CASE q = "one" -> 1 [] q = "two" -> 2 [] OTHER -> 0,
     var |-> "i", from |-> Lit(from), to |-> to, cond |-> cond]
Regex == [t |-> "regex", v |-> "x", flags |-> 2]

Rule(name, cond) == [name |-> name, event |-> "net", cond |-> cond]

N == Net("n")
S == Net("s")

Operators == <<"PLUS", "MINUS", "MULT", "BITAND", "PIPE", "BITXOR", "SHL", "SHR">>

Numbers ==
    << Bin("DIV", Lit(13), N), Bin("MOD", Lit(13), N), Bin("SHL", N, Lit(5)),
       Un("MINUS", N), Un("BITNOT", N), Un("HASH", S) >>
    \o [k \in 1..Len(Operators) |-> Bin(Operators[k], Lit(9), Lit(4))]
    \o [k \in 1..Len(Operators) |-> Bin(Operators[k], N, At(Lit(1)))]

Tests ==
    << Truth(0), Truth(1), Bin("EQUAL_EQUAL", At(Lit(3)), Lit(1)), Call(<<N, S>>),
       Bin("CONTAINS", S, Str("x")),
       For("all", 0, Lit(2), Bin("LESS", At(Id("i")), Lit(4))),
       For("one", 0, Lit(5), Bin("EQUAL_EQUAL", At(Id("i")), N)),
       For("all", 0, Lit(2), Id("called")) >>

NTests == Len(Tests)
Left(k) == Tests[1 + ((k - 1) \div NTests)]
Right(k) == Tests[1 + ((k - 1) % NTests)]

\* Operands of every type and origin, and one operator for each of its rules.
Pool ==
    << Lit(5), N, At(Lit(1)), Un("HASH", S), Group(Bin("PLUS", N, Lit(1))),
       Str("abc"), S, Fld(Index("items", Lit(1)), "s"),
       Truth(1), Net("t"), Un("BANG", Net("t")), Call(<<N, Fld(Index("items", Lit(0)), "s")>>),
       Id("net"), Net("arr"), Net("items"), Net("fn"), Index("items", Lit(1)) >>
Joining == <<"EQUAL_EQUAL", "BANG_EQUAL", "GREATER_EQUAL", "OR", "ICONTAINS", "PLUS">>
Accepts(e) == check_type(e, "net", <<>>).ty = "bool"
Accepted ==
    LET n == Len(Pool)
        Pair(k) == Bin(Joining[1 + (k \div (n * n))], Pool[1 + ((k \div n) % n)], Pool[1 + (k % n)])
    IN  SelectSeq([k \in 1..(Len(Joining) * n * n) |-> Pair(k - 1)], Accepts)

Named(name, conds) == [k \in 1..Len(conds) |-> Rule(name \o ToString(k), conds[k])]

\* Rule 1 is the rule that others reference; then every number compared, every two
\* tests joined by `and` and by `or`, and what is accepted between any two operands;
\* the rule at the end of the code is the shortest.
MCSource ==
    <<Rule("called", Bin("OR", Truth(0), Call(<<Lit(2), S>>)))>>
    \o Named("number", [k \in 1..Len(Numbers) |-> Bin("LESS_EQUAL", Numbers[k], Lit(6))])
    \o Named("and", [k \in 1..(NTests * NTests) |-> Bin("AND", Left(k), Right(k))])
    \o Named("or", [k \in 1..(NTests * NTests) |-> Bin("OR", Left(k), Right(k))])
    \o Named("accepted", Accepted)
    \o << Rule("matches", Bin("MATCHES", S, Regex)),
          Rule("greater", Un("NOT", Group(Bin("GREATER", N, Lit(2))))), Rule("last", Truth(1)) >>

\* `for N` with N > 0, as docs/RULES.md describes it.
MCSourceAtLeast ==
    << Rule("one", For("one", 0, Lit(2), Bin("EQUAL_EQUAL", At(Id("i")), Lit(3)))),
       Rule("two", For("two", 0, Lit(3), Bin("EQUAL_EQUAL", At(Id("i")), Lit(0)))) >>

\* A rule whose second operand is an index out of range, and a false one.
MCSourceLeak ==
    << Rule("leaks", Bin("OR", Truth(1), Bin("EQUAL_EQUAL", At(Lit(3)), Lit(1)))),
       Rule("false", Bin("OR", Truth(0), Truth(0))) >>

MCCode == Compiled.b.code
MCRuleOffset == Compiled.offsets
MCRuleNames == Compiled.names
MCShape == Shapes
=============================================================================
