---------------------------- MODULE StackShapes ----------------------------
(***************************************************************************)
(* What the interpreter (vm.c) takes for granted of the code it runs, and  *)
(* the code generator (bytecode.c) guarantees: before every instruction    *)
(* the operands of the running rule have one shape, whichever way control  *)
(* came there.                                                             *)
(*                                                                         *)
(* Shape gives, for the offset of each instruction, the operands from the  *)
(* bottom up, each as the set of values it can be.  CodeFits says, one    *)
(* instruction at a time, that the operands an instruction reads are there *)
(* and of its kind, and that what it leaves fits wherever control goes.    *)
(***************************************************************************)
EXTENDS VmInterp

CONSTANT Shape

Numeric == [k : {"num"}, v : 0..(Word - 1)]
Operand == Numeric \cup [k : {"str"}, v : STRING] \cup [k : {"obj"}, v : Nat]
Registers == 0..(Accums - 1)

AllOf(T, kind) == \A x \in T : x.k = kind

\* The n-th operand from the top, and what is below it.
Nth(s, n) == s[Len(s) - n + 1]
Under(s, n) == SubSeq(s, 1, Len(s) - n)

IsInstruction(a) == a \in 0..(Len(Code) - 1) /\ Code[a + 1] # Arg
ShapeAt(a) == Shape[a + 1]

\* Operands of shape s are what the instruction at offset a expects.
Flows(s, a) ==
    /\ IsInstruction(a) /\ Len(ShapeAt(a)) = Len(s)
    /\ \A i \in 1..Len(s) : s[i] \subseteq ShapeAt(a)[i]

\* The instruction at a pops n operands; it goes on at one of B, and then has
\* pushed a value of T.
Pushes(a, n, T, B) ==
    n <= Len(ShapeAt(a)) /\ \A b \in B : Flows(Append(Under(ShapeAt(a), n), T), b)
Leaves(a, n, b) == n <= Len(ShapeAt(a)) /\ Flows(Under(ShapeAt(a), n), b)

\* The n operands on top are of a kind.
TopNumbers(a, n) == n <= Len(ShapeAt(a)) /\ \A i \in 1..n : Nth(ShapeAt(a), i) \subseteq Numeric
TopKind(a, n, kind) == n <= Len(ShapeAt(a)) /\ \A i \in 1..n : AllOf(Nth(ShapeAt(a), i), kind)

\* The instruction at a, whose successor in the code is next.
Fits(a) ==
    LET op == Code[a + 1].op
        arg == Code[a + 1].arg
        next == a + (IF op \in WithArg THEN 5 ELSE 1)
        s == ShapeAt(a)
    IN  \/ op = "HLT" /\ Len(s) = 1 /\ s[1] \subseteq Numeric
        \/ op \in NumberOps /\ TopNumbers(a, 2) /\ Pushes(a, 2, Numeric, {next})
        \/ op \in {"NOT", "NEG", "NOTL"} /\ TopNumbers(a, 1) /\ Pushes(a, 1, Numeric, {next})
        \/ op \in StringOps /\ TopKind(a, 2, "str") /\ Pushes(a, 2, Numeric, {next})
        \/ /\ op = "MATCHES" /\ TopNumbers(a, 1) /\ 3 <= Len(s)
           /\ AllOf(Nth(s, 2), "str") /\ AllOf(Nth(s, 3), "str")
           /\ Pushes(a, 3, Numeric, {next})
        \/ /\ op = "STRLEN" /\ TopKind(a, 1, "str")
           /\ Pushes(a, 1, {Num(StrLen[x.v]) : x \in Nth(s, 1)}, {next})
        \/ /\ op \in {"JFALSE", "JTRUE"} /\ TopNumbers(a, 1)
           /\ Pushes(a, 1, Nth(s, 1), {next, arg})
        \/ op = "JMP" /\ Leaves(a, 0, arg)
        \/ op \in {"PUSHINT", "PUSHBOOL"} /\ Pushes(a, 0, {Num(arg)}, {next})
        \/ op = "PUSHSTRING" /\ Pushes(a, 0, {[k |-> "str", v |-> arg]}, {next})
        \/ /\ op = "PUSHMODULE"
           /\ arg \in DOMAIN Module => Pushes(a, 0, {[k |-> "obj", v |-> Module[arg]]}, {next})
        \/ /\ op = "OBJECT" /\ TopKind(a, 1, "obj")
           /\ Pushes(a, 1, {Payload[x.v] : x \in Nth(s, 1)}, {next})
        \/ /\ op = "FIELD" /\ TopKind(a, 1, "obj")
           /\ Pushes(a, 1, {[k |-> "obj", v |-> Field[<<x.v, arg>>]] : x \in Nth(s, 1)}, {next})
        \/ /\ op = "INDEX" /\ TopNumbers(a, 1) /\ 2 <= Len(s) /\ AllOf(Nth(s, 2), "obj")
           /\ \A x \in Nth(s, 2) : Len(Items[x.v]) \in Nat
           /\ Pushes(a, 2, UNION {{Items[x.v][i] : i \in 1..Len(Items[x.v])} : x \in Nth(s, 2)},
                     {next})
        \* the number of arguments is known
        \/ /\ op = "CALL" /\ 2 <= Len(s) /\ AllOf(Nth(s, 1), "obj")
           /\ \E n \in Nth(s, 2) :
                 /\ Nth(s, 2) = {n} /\ n \in Numeric
                 /\ Pushes(a, 2 + n.v, UNION {Function[x.v] \ {NoResult} : x \in Nth(s, 1)}, {next})
        \/ op = "LOAD" /\ arg \in Registers /\ Pushes(a, 0, Numeric, {next})
        \/ op = "STORE" /\ arg \in Registers /\ TopNumbers(a, 1) /\ Leaves(a, 1, next)
        \/ op = "POP" /\ Leaves(a, 1, next)
        \/ /\ op = "RULE" /\ \E r \in Rules : RuleNames[r] = arg
           /\ Pushes(a, 0, Numeric, {next})

\* Every rule starts with no operands of its own.
ASSUME CodeFits ==
    /\ \A a \in 0..(Len(Code) - 1) :
          Code[a + 1] # Arg => ShapeAt(a) \in Seq(SUBSET Operand) /\ Fits(a)
    /\ \A r \in Rules : IsInstruction(RuleOffset[r]) /\ ShapeAt(RuleOffset[r]) = <<>>
=============================================================================
