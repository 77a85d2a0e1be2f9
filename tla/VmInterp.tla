------------------------------ MODULE VmInterp ------------------------------
(***************************************************************************)
(* The bytecode interpreter ac_vm_exec_code (libalca/vm.c).                *)
(*                                                                         *)
(* All rules run on one operand stack that belongs to the VM and is never  *)
(* reset: a rule that ends in an error leaves its operands behind.  A rule *)
(* that references another runs it by a recursive call (OP_RULE) on the    *)
(* same stack, with registers of its own.                                  *)
(*                                                                         *)
(* The code is a sequence of cells, one per byte: an instruction with an   *)
(* argument occupies five, of which the last four are Arg.  Addresses are  *)
(* byte offsets as in the code, so Code[a + 1] is the byte at offset a.    *)
(* Event data, strings and module functions are tables of constants.       *)
(***************************************************************************)
EXTENDS Integers, Sequences

CONSTANTS
    Code,        \* the code arena
    RuleNames,   \* name of every rule_table entry (a name may occur twice)
    RuleOffset,  \* code_offset of every rule_table entry
    Word,        \* integers are computed modulo Word (2^32 in the code)
    WordBits,    \* largest shift accepted (32 in the code)
    StackMax,    \* VM_STACK_MAX
    Accums,      \* VM_ACCUM_MAX
    Module,      \* the object PUSHMODULE finds, by name; a name may be missing
    Field,       \* the object FIELD finds, by <<object, name>>
    Payload,     \* the value OBJECT reads, by object
    Items,       \* the values INDEX reads, by object
    Function,    \* what calling an object can return: values, or NoResult
    NoResult,    \* the function ended in an error
    StrLen,      \* length of a string
    BitOp,       \* result of a bitwise operation, by <<op, a, b>>
    MaxRuns,     \* bound: rules executed one after another
    MaxDepth     \* bound: nested rule calls

\* The second to fifth byte of an instruction with an argument.
Arg == [op |-> "ARG", arg |-> 0]

Rules == DOMAIN RuleOffset

ASSUME VmAssumption ==
    /\ Len(Code) \in Nat
    /\ RuleOffset \in Seq(Nat)
    /\ Word \in Nat /\ Word > 1
    /\ WordBits \in Nat /\ \A n \in 0..WordBits : 2^n \in Nat \ {0}
    /\ \A op \in {"AND", "OR", "XOR"}, x, y \in 0..(Word - 1) : BitOp[<<op, x, y>>] \in 0..(Word - 1)
    /\ StackMax \in Nat /\ Accums \in Nat
    /\ MaxRuns \in Nat /\ MaxDepth \in Nat \ {0}

\* The first rule of that name.
find_rule_idx_by_name(name) ==
    CHOOSE i \in Rules : RuleNames[i] = name /\ \A j \in Rules : j < i => RuleNames[j] # name

Num(n) == [k |-> "num", v |-> n]
Bool(p) == Num(IF p THEN 1 ELSE 0)

VARIABLES
    stack,    \* vm->stack[0 .. sp - 1]
    frames,   \* active calls of ac_vm_exec_code, innermost last
    ret,      \* what the innermost call returned, while its caller has not
              \* taken it; ret.on says whether there is anything
    runs      \* number of rules started so far

vars == <<stack, frames, ret, runs>>

NoReturn == [on |-> FALSE, rule |-> 0, err |-> "SUCCESS", result |-> 0, overflow |-> FALSE]

Init ==
    /\ stack = <<>>
    /\ frames = <<>>
    /\ ret = NoReturn
    /\ runs = 0

-----------------------------------------------------------------------------
(* The running call *)

Top == frames[Len(frames)]
Instr == Code[Top.ip + 1]

\* The r1 and r2 that a handler pops: the top of the stack and the one below.
Pop1 == stack[Len(stack)]
Pop2 == stack[Len(stack) - 1]
Below(n) == SubSeq(stack, 1, Len(stack) - n)

\* The call is running an instruction.
Running == frames # <<>> /\ ~ret.on

\* Instructions followed by a 32-bit argument.
WithArg == {"JFALSE", "JTRUE", "JMP", "PUSHINT", "PUSHBOOL", "PUSHSTRING",
            "PUSHMODULE", "RULE", "FIELD", "LOAD", "STORE"}

NextIpShort == Top.ip + (IF Instr.op \in WithArg THEN 4 ELSE 1)  \* mutant: no byte for the opcode

\* Offset of the next instruction.
NextIp == Top.ip + (IF Instr.op \in WithArg THEN 5 ELSE 1)

Goto(a) == frames' = [frames EXCEPT ![Len(frames)].ip = a]

\* ac_vm_exec_code returns.  overflow, whether a full stack ended it, is known
\* to the model only.
Leave(e, result, overflow) ==
    /\ frames' = SubSeq(frames, 1, Len(frames) - 1)
    /\ ret' = [on |-> TRUE, rule |-> Top.rule, err |-> e, result |-> result,
               overflow |-> overflow]

\* AC_ERROR_STACK_OVERFLOW: push stops the rule with the error code as its
\* RESULT and leaves err at SUCCESS.
StackOverflow == 24

\* push(v) on stack st, then continue at address a.
Push(st, v, a) ==
    IF Len(st) < StackMax
    THEN stack' = Append(st, v) /\ Goto(a) /\ UNCHANGED ret
    ELSE stack' = st /\ Leave("SUCCESS", StackOverflow, TRUE)

\* An error ends the rule with the result FALSE.
Fail(st, e) == stack' = st /\ Leave(e, 0, FALSE)

-----------------------------------------------------------------------------
(* The handlers, by opcode *)

Op(ops) == Running /\ Instr.op \in ops /\ UNCHANGED runs

HaltResets ==   \* mutant: empties the stack that the caller shares
    /\ Op({"HLT"})
    /\ stack' = <<>>
    /\ Leave("SUCCESS", Pop1.v, FALSE)

HaltGoesOn ==   \* mutant: the loop is not left
    /\ Op({"HLT"})
    /\ stack' = Below(1)
    /\ Goto(NextIp)
    /\ UNCHANGED ret

HLT ==
    /\ Op({"HLT"})
    /\ stack' = Below(1)
    /\ Leave("SUCCESS", Pop1.v, FALSE)

ArithmeticSwapped(op, x, y) ==   \* mutant: operands in the order they are popped
    CASE op = "ADD" -> (y + x) % Word
      [] op = "SUB" -> (y - x) % Word
      [] op = "MUL" -> (y * x) % Word

Arithmetic(op, x, y) ==
    CASE op = "ADD" -> (x + y) % Word
      [] op = "SUB" -> (x - y) % Word
      [] op = "MUL" -> (x * y) % Word

ADD_SUB_MUL ==
    /\ Op({"ADD", "SUB", "MUL"})
    /\ Push(Below(2), Num(Arithmetic(Instr.op, Pop2.v, Pop1.v)), NextIp)

\* Division by zero traps: the process ends, so there is no step for it.
DIV_MOD ==
    /\ Op({"DIV", "MOD"})
    /\ Pop1.v # 0
    /\ Push(Below(2), Num(IF Instr.op = "DIV" THEN Pop2.v \div Pop1.v ELSE Pop2.v % Pop1.v), NextIp)

\* Shifting x by the full word width is undefined in C: the build may leave x
\* (the processor masks the count) or shift everything out.
Shifted(op, x, n) ==
    IF n = WordBits THEN {x, 0}
    ELSE IF op = "SHL" THEN {(x * 2^n) % Word} ELSE {x \div 2^n}

SHL_SHR ==
    /\ Op({"SHL", "SHR"})
    /\ IF Pop1.v > WordBits
       THEN Fail(Below(2), "BAD_OPERAND")
       ELSE \E y \in Shifted(Instr.op, Pop2.v, Pop1.v) : Push(Below(2), Num(y), NextIp)

AND_OR_XOR ==
    /\ Op({"AND", "OR", "XOR"})
    /\ Push(Below(2), Num(BitOp[<<Instr.op, Pop2.v, Pop1.v>>]), NextIp)

\* INTEQ and BOOLEQ, INTNE and BOOLNE compare the same 32 bits.
Comparison(op, x, y) ==
    CASE op = "GT" -> x > y
      [] op = "LT" -> x < y
      [] op = "GTE" -> x >= y
      [] op = "LTE" -> x <= y
      [] op \in {"INTEQ", "BOOLEQ"} -> x = y
      [] op \in {"INTNE", "BOOLNE"} -> x # y
      [] op = "ANDL" -> x # 0 /\ y # 0
      [] op = "ORL" -> x # 0 \/ y # 0

COMPARE ==
    /\ Op({"GT", "LT", "GTE", "LTE", "INTEQ", "BOOLEQ", "INTNE", "BOOLNE", "ANDL", "ORL"})
    /\ Push(Below(2), Bool(Comparison(Instr.op, Pop2.v, Pop1.v)), NextIp)

Unary(op, x) ==
    CASE op = "NOT" -> (0 - x - 1) % Word
      [] op = "NEG" -> (0 - x) % Word
      [] op = "NOTL" -> IF x = 0 THEN 1 ELSE 0

NOT_NEG_NOTL ==
    /\ Op({"NOT", "NEG", "NOTL"})
    /\ Push(Below(1), Num(Unary(Instr.op, Pop1.v)), NextIp)

JumpPops ==   \* mutant: the condition is not pushed back
    /\ Op({"JFALSE", "JTRUE"})
    /\ stack' = Below(1)
    /\ Goto(IF (Instr.op = "JTRUE") = (Pop1.v # 0) THEN Instr.arg ELSE NextIp)
    /\ UNCHANGED ret

\* The conditional jumps pop the condition and push it back.
JFALSE_JTRUE ==
    /\ Op({"JFALSE", "JTRUE"})
    /\ Push(Below(1), Pop1,
            IF (Instr.op = "JTRUE") = (Pop1.v # 0) THEN Instr.arg ELSE NextIp)

JMP ==
    /\ Op({"JMP"})
    /\ Goto(Instr.arg)
    /\ UNCHANGED <<stack, ret>>

PUSHINT_BOOL_STRING ==
    /\ Op({"PUSHINT", "PUSHBOOL", "PUSHSTRING"})
    /\ Push(stack, [k |-> IF Instr.op = "PUSHSTRING" THEN "str" ELSE "num", v |-> Instr.arg],
            NextIp)

PUSHMODULE ==
    /\ Op({"PUSHMODULE"})
    /\ IF Instr.arg \in DOMAIN Module
       THEN Push(stack, [k |-> "obj", v |-> Module[Instr.arg]], NextIp)
       ELSE Fail(stack, "MODULE")

ObjectUnread ==   \* mutant: the field takes the place of its value
    /\ Op({"OBJECT"})
    /\ Push(Below(1), Pop1, NextIp)

OBJECT ==
    /\ Op({"OBJECT"})
    /\ Push(Below(1), Payload[Pop1.v], NextIp)

STREQ_STRNE ==
    /\ Op({"STREQ", "STRNE"})
    /\ Push(Below(2), Bool((Instr.op = "STREQ") = (Pop2.v = Pop1.v)), NextIp)

\* contains, startswith, endswith, their i variants and iequals: either answer.
STRING_TEST ==
    /\ Op({"CONTAINS", "ICONTAINS", "STARTSWITH", "ISTARTSWITH", "ENDSWITH",
            "IENDSWITH", "IEQUALS"})
    /\ \E b \in BOOLEAN : Push(Below(2), Bool(b), NextIp)

\* Pops flags, pattern and subject; a pattern that does not compile is no match.
MATCHES ==
    /\ Op({"MATCHES"})
    /\ \E b \in BOOLEAN : Push(Below(3), Bool(b), NextIp)

STRLEN ==
    /\ Op({"STRLEN"})
    /\ Push(Below(1), Num(StrLen[Pop1.v]), NextIp)

CALL ==
    /\ Op({"CALL"})
    /\ \E res \in Function[Pop1.v] :
          IF res = NoResult THEN Fail(Below(2 + Pop2.v), "UNSUCCESSFUL")
                            ELSE Push(Below(2 + Pop2.v), res, NextIp)

FIELD ==
    /\ Op({"FIELD"})
    /\ Push(Below(1), [k |-> "obj", v |-> Field[<<Pop1.v, Instr.arg>>]], NextIp)

INDEX ==
    /\ Op({"INDEX"})
    /\ IF Pop1.v < Len(Items[Pop2.v])
       THEN Push(Below(2), Items[Pop2.v][Pop1.v + 1], NextIp)
       ELSE Fail(Below(2), "INDEX")

LOAD ==
    /\ Op({"LOAD"})
    /\ Push(stack, Top.regs[Instr.arg], NextIp)

STORE ==
    /\ Op({"STORE"})
    /\ frames' = [frames EXCEPT ![Len(frames)].ip = NextIp,
                                ![Len(frames)].regs[Instr.arg] = Pop1]
    /\ stack' = Below(1)
    /\ UNCHANGED ret

PopPeeks ==   \* mutant: reads the operand and leaves it
    /\ Op({"POP"})
    /\ Goto(NextIp)
    /\ UNCHANGED <<stack, ret>>

POP ==
    /\ Op({"POP"})
    /\ stack' = Below(1)
    /\ Goto(NextIp)
    /\ UNCHANGED ret

\* A fresh call of ac_vm_exec_code: accumulators are zero.  base, where its
\* operands start, is known to the model only.
Frame(r) ==
    [rule |-> r, ip |-> RuleOffset[r], base |-> Len(stack),
     regs |-> [a \in 0..(Accums - 1) |-> Num(0)]]

\* OP_RULE: the caller's ip is saved and the rule's code runs.
RULE ==
    /\ Op({"RULE"})
    /\ Len(frames) < MaxDepth
    /\ frames' = Append([frames EXCEPT ![Len(frames)].ip = NextIp], Frame(find_rule_idx_by_name(Instr.arg)))
    /\ UNCHANGED <<stack, ret>>

\* Back in the handler of OP_RULE: an error ends the caller too, otherwise
\* the result is pushed.
ReturnToRule ==
    /\ ret.on
    /\ frames # <<>>
    /\ \/ ret.err # "SUCCESS" /\ Fail(stack, ret.err)
       \/ /\ ret.err = "SUCCESS" /\ Len(stack) < StackMax
          /\ stack' = Append(stack, Num(ret.result))
          /\ ret' = NoReturn
          /\ UNCHANGED frames
       \/ /\ ret.err = "SUCCESS" /\ Len(stack) >= StackMax
          /\ UNCHANGED stack
          /\ Leave("SUCCESS", StackOverflow, TRUE)
    /\ UNCHANGED runs

\* ac_vm_exec takes the result of the rule it ran.
ReturnToExec ==
    /\ ret.on
    /\ frames = <<>>
    /\ ret' = NoReturn
    /\ UNCHANGED <<stack, frames, runs>>

\* ac_vm_exec runs a rule of the rule table (VmTriggers says which and when).
StartRule ==
    /\ frames = <<>> /\ ~ret.on
    /\ runs < MaxRuns
    /\ runs' = runs + 1
    /\ \E r \in Rules : frames' = <<Frame(r)>>
    /\ UNCHANGED <<stack, ret>>

Step ==
    \/ HLT \/ ADD_SUB_MUL \/ DIV_MOD \/ SHL_SHR \/ AND_OR_XOR \/ COMPARE
    \/ NOT_NEG_NOTL \/ JFALSE_JTRUE \/ JMP \/ PUSHINT_BOOL_STRING \/ PUSHMODULE
    \/ OBJECT \/ STREQ_STRNE \/ STRING_TEST \/ MATCHES \/ STRLEN \/ CALL \/ FIELD \/ INDEX
    \/ LOAD \/ STORE \/ POP \/ RULE \/ ReturnToRule \/ ReturnToExec

Next == Step \/ StartRule

Spec == Init /\ [][Next]_vars

\* The interpreter is a loop of the calling thread: it runs until it stops.
FairSpec == Spec /\ WF_vars(Step)

-----------------------------------------------------------------------------
TypeOK ==
    /\ Len(stack) \in 0..StackMax
    /\ \A i \in 1..Len(stack) : stack[i].k \in {"num", "str", "obj"}
    /\ Len(frames) \in 0..MaxDepth
    /\ \A i \in 1..Len(frames) :
          /\ frames[i].rule \in Rules
          /\ frames[i].ip \in 0..(Len(Code) - 1)
          /\ frames[i].base \in 0..StackMax
    /\ runs \in 0..MaxRuns

\* Instructions on two numbers, on two strings, on one number.
NumberOps ==
    {"ADD", "SUB", "MUL", "DIV", "MOD", "SHL", "SHR", "AND", "OR", "XOR", "GT", "LT", "GTE",
     "LTE", "INTEQ", "BOOLEQ", "INTNE", "BOOLNE", "ANDL", "ORL"}
StringOps ==
    {"STREQ", "STRNE", "CONTAINS", "ICONTAINS", "STARTSWITH", "ISTARTSWITH", "ENDSWITH",
     "IENDSWITH", "IEQUALS"}
UnaryOps == {"HLT", "NOT", "NEG", "NOTL", "JFALSE", "JTRUE", "STORE"}

\* The running rule has n operands of its own.
Owns(n) == Top.base + n <= Len(stack)

\* A rule pops only what it pushed itself: never an operand of the rule that
\* called it, never one that a failed rule left behind, never an empty stack.
PopsOwnOperands ==
    Running =>
        /\ Owns(0)
        /\ Instr.op \in UnaryOps \cup {"OBJECT", "FIELD", "STRLEN", "POP"} => Owns(1)
        /\ Instr.op \in NumberOps \cup StringOps \cup {"INDEX"} => Owns(2)
        /\ Instr.op = "MATCHES" => Owns(3)
        /\ Instr.op = "CALL" => Owns(2) /\ Owns(2 + Pop2.v)

\* The kinds of the operands on top, the topmost first.
OnTop(kinds) == \A i \in 1..Len(kinds) : stack[Len(stack) - i + 1].k = kinds[i]

\* An instruction reads each operand as what it was pushed as.  Handlers do not
\* look at an ac_object's type: nothing else tells a string from a number.
OperandsHaveTheirKind ==
    Running =>
        /\ Instr.op \in NumberOps => OnTop(<<"num", "num">>)
        /\ Instr.op \in StringOps => OnTop(<<"str", "str">>)
        /\ Instr.op \in UnaryOps => OnTop(<<"num">>)
        /\ Instr.op \in {"OBJECT", "FIELD"} => OnTop(<<"obj">>)
        /\ Instr.op = "STRLEN" => OnTop(<<"str">>)
        /\ Instr.op = "INDEX" => OnTop(<<"num", "obj">>)
        /\ Instr.op = "CALL" => OnTop(<<"obj", "num">>)
        /\ Instr.op = "MATCHES" => OnTop(<<"num", "str", "str">>)

\* Jumps land on instructions, never inside one (the byte distances added by
\* the code generator are right), and execution never leaves the code.
AtInstruction ==
    Running => Top.ip < Len(Code) /\ Instr.op # "ARG"

\* Whatever a rule does, what lay on the stack before it started stays there.
BelowBaseUntouched ==
    [][frames # <<>> =>
          /\ Top.base <= Len(stack')
          /\ \A i \in 1..Top.base : stack'[i] = stack[i]]_vars

\* A rule that reaches HLT leaves the stack as it found it.
HaltLeavesNothing ==
    [][Running /\ Instr.op = "HLT" => Len(stack') = Top.base]_vars

\* Every rule that is started comes to an end.
Terminates == frames # <<>> ~> frames = <<>> /\ ~ret.on

\* vm.c: a rule counts as triggered only if OP_HLT found true, never by an
\* exception.
TriggersOnlyByHalt == ret.result # 0 => ~ret.overflow
=============================================================================
