--------------------------- MODULE VmInterpProofs ---------------------------
(***************************************************************************)
(* The stack discipline of the interpreter, for all code that fits its     *)
(* shapes (CodeFits), all data and any bounds.                             *)
(***************************************************************************)
EXTENDS StackShapes, SequenceTheorems, NaturalsInduction, WellFoundedInduction, TLAPS

Frames == [rule : Rules, ip : Nat, base : Nat, regs : [Registers -> Numeric]]

\* The shape of the operands that the running or waiting call has.
OwnShape == ShapeAt(Top.ip)

\* Where the operands end that a waiting call has left below those of the
\* call it waits for; the result of that call will be on top of them.
End(f) == f.base + Len(ShapeAt(f.ip)) - 1

Waits(f, st) ==
    /\ IsInstruction(f.ip)
    /\ Len(ShapeAt(f.ip)) > 0
    /\ Numeric \subseteq Nth(ShapeAt(f.ip), 1)
    /\ \A j \in 1..(Len(ShapeAt(f.ip)) - 1) : st[f.base + j] \in ShapeAt(f.ip)[j]

\* The operands of the running call are of the shape its instruction expects.
Ready(f, st) ==
    /\ IsInstruction(f.ip)
    /\ Len(st) = f.base + Len(ShapeAt(f.ip))
    /\ \A j \in 1..Len(ShapeAt(f.ip)) : st[f.base + j] \in ShapeAt(f.ip)[j]

Types ==
    /\ stack \in Seq(Operand) /\ Len(stack) <= StackMax
    /\ frames \in Seq(Frames) /\ Len(frames) <= MaxDepth
    /\ runs \in 0..MaxRuns
    /\ ret.on \in BOOLEAN

\* A call that ended at HLT returns a number; one that a full stack ended has
\* left the stack full.
Returned ==
    ret.on =>
        /\ ret.overflow => Len(stack) = StackMax
        /\ ret.err = "SUCCESS" /\ ~ret.overflow => ret.result \in 0..(Word - 1)

\* The calls lie on the stack one above the other.
Nested ==
    /\ \A i, j \in 1..Len(frames) : i <= j => frames[i].base <= frames[j].base
    /\ \A i \in 1..(Len(frames) - 1) :
          Waits(frames[i], stack) /\ End(frames[i]) = frames[i + 1].base

\* The last call runs, or the one it waited for has returned: with a result
\* that call has left nothing, with an error it may have left operands.
Innermost ==
    frames # <<>> =>
        IF ret.on
        THEN /\ Waits(Top, stack) /\ End(Top) <= Len(stack)
             /\ ret.err = "SUCCESS" /\ ~ret.overflow => End(Top) = Len(stack)
        ELSE Ready(Top, stack)

StackInv == Types /\ Returned /\ Nested /\ Innermost

\* The step leaves alone what lay on the stack before the innermost call.
Keeps == Top.base <= Len(stack') /\ \A i \in 1..Top.base : stack'[i] = stack[i]

-----------------------------------------------------------------------------
(* Shapes and operands                                                       *)

\* An instruction has a shape, which it fits.
LEMMA ShapeType ==
    ASSUME NEW a, IsInstruction(a)
    PROVE  /\ a \in Nat /\ a < Len(Code)
           /\ ShapeAt(a) \in Seq(SUBSET Operand) /\ Len(ShapeAt(a)) \in Nat
           /\ Fits(a)
<1>1. a \in 0..(Len(Code) - 1) /\ Code[a + 1] # Arg /\ Len(Code) \in Nat
  BY VmAssumption DEF IsInstruction
<1>2. ShapeAt(a) \in Seq(SUBSET Operand) /\ Fits(a)
  BY <1>1, CodeFits
<1>. QED
  BY <1>1, <1>2

\* The innermost call.
LEMMA InnermostCall ==
    ASSUME Types, frames # <<>>
    PROVE  /\ Len(frames) \in Nat \ {0} /\ Len(frames) \in 1..Len(frames)
           /\ Top \in Frames /\ Top = frames[Len(frames)]
           /\ Top.base \in Nat /\ Len(stack) \in Nat
<1>1. Len(frames) \in Nat \ {0} /\ Len(frames) \in 1..Len(frames)
  BY DEF Types
<1>2. Top \in Frames
  BY <1>1 DEF Types, Top
<1>. QED
  BY <1>1, <1>2 DEF Top, Types, Frames

\* The running call with its operands.
LEMMA Current ==
    ASSUME StackInv, Running
    PROVE  /\ IsInstruction(Top.ip) /\ Top.ip \in Nat /\ Fits(Top.ip)
           /\ OwnShape \in Seq(SUBSET Operand) /\ Len(OwnShape) \in Nat
           /\ Len(stack) = Top.base + Len(OwnShape)
           /\ \A j \in 1..Len(OwnShape) : stack[Top.base + j] \in OwnShape[j]
           /\ Top.base \in Nat /\ Len(stack) \in Nat
<1>1. frames # <<>> /\ ~ret.on /\ Types
  BY DEF Running, StackInv
<1>2. Ready(Top, stack)
  BY <1>1 DEF StackInv, Innermost
<1>. QED
  BY <1>1, <1>2, InnermostCall, ShapeType DEF Ready, OwnShape

\* The n-th operand from the top is of the n-th set from the top.
LEMMA TopOperand ==
    ASSUME StackInv, Running, NEW n \in 1..Len(OwnShape)
    PROVE  stack[Len(stack) - n + 1] \in Nth(OwnShape, n)
<1>1. /\ Len(OwnShape) \in Nat /\ Len(stack) = Top.base + Len(OwnShape) /\ Top.base \in Nat
      /\ \A j \in 1..Len(OwnShape) : stack[Top.base + j] \in OwnShape[j]
  BY Current
<1>2. Len(OwnShape) - n + 1 \in 1..Len(OwnShape)
  BY <1>1
<1>3. Len(stack) - n + 1 = Top.base + (Len(OwnShape) - n + 1)
  <2>1. \A b, l \in Nat : \A m \in 1..l : (b + l) - m + 1 = b + (l - m + 1)
    OBVIOUS
  <2>. QED
    BY <1>1, <2>1
<1>. QED
  BY <1>1, <1>2, <1>3 DEF Nth

\* Taking n operands off.
LEMMA UnderPrefix ==
    ASSUME NEW S, NEW s \in Seq(S), NEW n \in 0..Len(s)
    PROVE  /\ Under(s, n) \in Seq(S) /\ Len(Under(s, n)) = Len(s) - n
           /\ \A j \in 1..(Len(s) - n) : Under(s, n)[j] = s[j]
           /\ n = 0 => Under(s, n) = s
BY DEF Under

\* The operands that stay when n of those of the running call are popped.
LEMMA Popped ==
    ASSUME StackInv, Running, NEW n \in 0..Len(OwnShape)
    PROVE  /\ Below(n) \in Seq(Operand) /\ Len(Below(n)) = Len(stack) - n
           /\ Len(Below(n)) \in Nat /\ Top.base <= Len(Below(n))
           /\ \A i \in 1..Len(Below(n)) : Below(n)[i] = stack[i]
           /\ n = 0 => Below(n) = stack
<1>1. /\ Len(OwnShape) \in Nat /\ Len(stack) = Top.base + Len(OwnShape) /\ Top.base \in Nat
  BY Current
<1>2. stack \in Seq(Operand) /\ n \in 0..Len(stack)
  BY <1>1 DEF StackInv, Types
<1>3. Below(n) = Under(stack, n)
  BY DEF Below, Under
<1>4. /\ Below(n) \in Seq(Operand) /\ Len(Below(n)) = Len(stack) - n
      /\ \A j \in 1..(Len(stack) - n) : Below(n)[j] = stack[j]
      /\ n = 0 => Below(n) = stack
  <2>1. \A S : \A s \in Seq(S) : \A m \in 0..Len(s) :
           /\ Under(s, m) \in Seq(S) /\ Len(Under(s, m)) = Len(s) - m
           /\ \A j \in 1..(Len(s) - m) : Under(s, m)[j] = s[j]
           /\ m = 0 => Under(s, m) = s
    BY UnderPrefix
  <2>. QED
    BY <1>2, <1>3, <2>1
<1>5. Len(stack) - n \in Nat /\ Top.base <= Len(stack) - n
  <2>1. \A b, l \in Nat : \A m \in 0..l : b + l - m \in Nat /\ b <= b + l - m
    OBVIOUS
  <2>. QED
    BY <1>1, <2>1
<1>. QED
  BY <1>4, <1>5

-----------------------------------------------------------------------------
(* Steps of the innermost call                                               *)

\* The calls below are not touched by a step that keeps what is theirs.
LEMMA WaitingStay ==
    ASSUME StackInv, frames # <<>>, Keeps, NEW i \in 1..(Len(frames) - 1)
    PROVE  Waits(frames[i], stack')
<1> DEFINE f == frames[i]
<1>1. /\ i \in 1..Len(frames) /\ i + 1 \in 1..Len(frames) /\ Len(frames) \in 1..Len(frames)
      /\ f \in Frames /\ frames[i + 1] \in Frames /\ Top = frames[Len(frames)] /\ Top.base \in Nat
  BY InnermostCall DEF StackInv, Types
<1>2. Waits(f, stack) /\ End(f) = frames[i + 1].base /\ frames[i + 1].base <= Top.base
  BY <1>1 DEF StackInv, Nested
<1>3. End(f) <= Top.base /\ f.base \in Nat
  BY <1>1, <1>2 DEF Frames
<1>4. Len(ShapeAt(f.ip)) \in Nat /\ Len(ShapeAt(f.ip)) > 0
  BY <1>2, ShapeType DEF Waits
<1>5. ASSUME NEW j \in 1..(Len(ShapeAt(f.ip)) - 1) PROVE stack'[f.base + j] = stack[f.base + j]
  <2>1. \A b, l, t \in Nat : \A k \in 1..(l - 1) : b + l - 1 <= t => b + k \in 1..t
    OBVIOUS
  <2>2. f.base + j \in 1..Top.base
    BY <1>1, <1>3, <1>4, <2>1 DEF End
  <2>. QED
    BY <2>2 DEF Keeps
<1>. QED
  BY <1>2, <1>5 DEF Waits

\* The innermost call goes on.
LEMMA GoesOn ==
    ASSUME StackInv, frames # <<>>, Keeps, NEW f, f \in Frames, f.base = Top.base,
           frames' = [frames EXCEPT ![Len(frames)] = f], stack' \in Seq(Operand),
           Len(stack') <= StackMax, ret'.on = FALSE, runs' = runs, Ready(f, stack')
    PROVE  StackInv'
<1>1. /\ Len(frames) \in Nat \ {0} /\ Len(frames) \in 1..Len(frames) /\ frames \in Seq(Frames)
      /\ Top = frames[Len(frames)] /\ Types
  BY InnermostCall DEF StackInv, Types
<1>2. /\ frames' \in Seq(Frames) /\ Len(frames') = Len(frames) /\ frames'[Len(frames)] = f
      /\ \A i \in 1..(Len(frames) - 1) : frames'[i] = frames[i]
  BY <1>1
<1>3. Types'
  BY <1>1, <1>2 DEF Types
<1>4. Returned'
  BY DEF Returned
<1>5. \A i \in 1..Len(frames) : frames'[i].base = frames[i].base
  <2> TAKE i \in 1..Len(frames)
  <2>1. CASE i = Len(frames)
    BY <1>1, <1>2, <2>1
  <2>2. CASE i # Len(frames)
    <3>1. i \in 1..(Len(frames) - 1)
      BY <1>1, <2>2
    <3>. QED
      BY <1>2, <3>1
  <2>. QED
    BY <2>1, <2>2
<1>6. Nested'
  <2>1. \A i \in 1..(Len(frames) - 1) : Waits(frames'[i], stack')
    BY <1>2, WaitingStay
  <2>2. \A i \in 1..(Len(frames) - 1) : End(frames'[i]) = frames'[i + 1].base
    <3> TAKE i \in 1..(Len(frames) - 1)
    <3>1. i + 1 \in 1..Len(frames)
      BY <1>1
    <3>2. frames'[i] = frames[i]
      BY <1>2
    <3>3. End(frames[i]) = frames[i + 1].base
      BY DEF StackInv, Nested
    <3>4. frames'[i + 1].base = frames[i + 1].base
      BY <1>5, <3>1
    <3>. QED
      BY <3>2, <3>3, <3>4 DEF End
  <2>3. \A i, j \in 1..Len(frames) : i <= j => frames'[i].base <= frames'[j].base
    BY <1>5 DEF StackInv, Nested
  <2>. QED
    BY <1>2, <2>1, <2>2, <2>3 DEF Nested
<1>7. Innermost'
  <2>1. Top' = f
    BY <1>2 DEF Top
  <2>. QED
    BY <2>1 DEF Innermost
<1>. QED
  BY <1>3, <1>4, <1>6, <1>7 DEF StackInv

\* The innermost call ends.
LEMMA Ends ==
    ASSUME StackInv, frames # <<>>, Keeps, frames' = SubSeq(frames, 1, Len(frames) - 1),
           stack' \in Seq(Operand), Len(stack') <= StackMax, runs' = runs, ret'.on = TRUE,
           Returned', ret'.err = "SUCCESS" /\ ~ret'.overflow => Len(stack') = Top.base
    PROVE  StackInv'
<1>1. /\ Len(frames) \in Nat \ {0} /\ Len(frames) \in 1..Len(frames) /\ frames \in Seq(Frames)
      /\ Top = frames[Len(frames)] /\ Types
  BY InnermostCall DEF StackInv, Types
<1>2. /\ frames' \in Seq(Frames) /\ Len(frames') = Len(frames) - 1
      /\ \A i \in 1..(Len(frames) - 1) : frames'[i] = frames[i]
  <2>1. ASSUME NEW n \in 0..Len(frames)
        PROVE  /\ Under(frames, n) \in Seq(Frames) /\ Len(Under(frames, n)) = Len(frames) - n
               /\ \A j \in 1..(Len(frames) - n) : Under(frames, n)[j] = frames[j]
    BY <1>1, UnderPrefix
  <2>2. frames' = Under(frames, 1) /\ 1 \in 0..Len(frames)
    BY <1>1 DEF Under
  <2>. QED
    BY <1>1, <2>1, <2>2
<1>3. Types'
  <2>1. Len(frames') <= MaxDepth
    BY <1>1, <1>2, VmAssumption DEF Types
  <2>. QED
    BY <1>1, <1>2, <2>1 DEF Types
<1>4. Nested'
  <2>1. \A i \in 1..(Len(frames') - 1) : Waits(frames'[i], stack') /\ End(frames'[i]) = frames'[i + 1].base
    BY <1>1, <1>2, WaitingStay DEF StackInv, Nested
  <2>2. \A i, j \in 1..Len(frames') : i <= j => frames'[i].base <= frames'[j].base
    BY <1>1, <1>2 DEF StackInv, Nested
  <2>. QED
    BY <2>1, <2>2 DEF Nested
<1>5. Innermost'
  <2> SUFFICES ASSUME frames' # <<>>
               PROVE  /\ Waits(Top', stack') /\ End(Top') <= Len(stack')
                      /\ ret'.err = "SUCCESS" /\ ~ret'.overflow => End(Top') = Len(stack')
    BY DEF Innermost
  <2> DEFINE i == Len(frames) - 1
  <2>1. i \in 1..(Len(frames) - 1) /\ i + 1 = Len(frames)
    BY <1>1, <1>2
  <2>2. Top' = frames[i]
    BY <1>2, <2>1 DEF Top
  <2>3. Waits(frames[i], stack')
    BY <2>1, WaitingStay
  <2>4. End(frames[i]) = Top.base
    BY <1>1, <2>1 DEF StackInv, Nested
  <2>. QED
    BY <2>2, <2>3, <2>4 DEF Keeps
<1>. QED
  BY <1>3, <1>4, <1>5 DEF StackInv

-----------------------------------------------------------------------------
(* Steps of the running call                                                 *)

\* What the running call keeps of its operands when n are popped.
LEMMA OwnBelow ==
    ASSUME StackInv, Running, NEW n \in 0..Len(OwnShape)
    PROVE  /\ Under(OwnShape, n) \in Seq(SUBSET Operand) /\ Len(Under(OwnShape, n)) \in Nat
           /\ Len(Below(n)) = Top.base + Len(Under(OwnShape, n))
           /\ \A j \in 1..Len(Under(OwnShape, n)) :
                 Below(n)[Top.base + j] \in Under(OwnShape, n)[j]
<1> DEFINE s == Under(OwnShape, n)
<1>1. /\ OwnShape \in Seq(SUBSET Operand) /\ Len(OwnShape) \in Nat /\ Top.base \in Nat
      /\ Len(stack) = Top.base + Len(OwnShape)
      /\ \A j \in 1..Len(OwnShape) : stack[Top.base + j] \in OwnShape[j]
  BY Current
<1>2. /\ s \in Seq(SUBSET Operand) /\ Len(s) = Len(OwnShape) - n
      /\ \A j \in 1..(Len(OwnShape) - n) : s[j] = OwnShape[j]
  BY <1>1, UnderPrefix
<1>3. Len(Below(n)) = Len(stack) - n /\ \A i \in 1..Len(Below(n)) : Below(n)[i] = stack[i]
  BY Popped
<1>4. Len(s) \in Nat /\ Len(Below(n)) = Top.base + Len(s)
  <2>1. \A b, l \in Nat : \A m \in 0..l : l - m \in Nat /\ b + l - m = b + (l - m)
    OBVIOUS
  <2>. QED
    BY <1>1, <1>2, <1>3, <2>1
<1>5. ASSUME NEW j \in 1..Len(s) PROVE Below(n)[Top.base + j] \in s[j]
  <2>1. Top.base + j \in 1..Len(Below(n))
    BY <1>1, <1>4
  <2>2. j \in 1..Len(OwnShape) /\ j \in 1..(Len(OwnShape) - n)
    BY <1>1, <1>2
  <2>. QED
    BY <1>1, <1>2, <1>3, <2>1, <2>2
<1>. QED
  BY <1>2, <1>4, <1>5

\* The call goes on at a.
LEMMA GotoFrame ==
    ASSUME StackInv, Running, NEW a \in Nat, Goto(a)
    PROVE  LET f == [Top EXCEPT !.ip = a]
           IN  /\ f \in Frames /\ f.base = Top.base /\ f.ip = a
               /\ frames' = [frames EXCEPT ![Len(frames)] = f]
<1>1. Top \in Frames /\ Top = frames[Len(frames)]
  BY InnermostCall DEF Running, StackInv
<1>. QED
  BY <1>1 DEF Frames, Goto

\* The running call pops n operands and goes on.
LEMMA PopsGoOn ==
    ASSUME StackInv, Running, runs' = runs, ret' = ret, NEW n \in 0..Len(OwnShape),
           NEW f \in Frames, f.base = Top.base, Leaves(Top.ip, n, f.ip), stack' = Below(n),
           frames' = [frames EXCEPT ![Len(frames)] = f]
    PROVE  StackInv' /\ Keeps
<1>1. /\ Below(n) \in Seq(Operand) /\ Len(Below(n)) = Len(stack) - n /\ Top.base <= Len(Below(n))
      /\ \A i \in 1..Len(Below(n)) : Below(n)[i] = stack[i]
  BY Popped
<1>2. Len(stack) \in Nat /\ Len(OwnShape) \in Nat /\ Top.base \in Nat /\ Len(Below(n)) \in Nat
  BY Current, Popped
<1>3. Keeps
  BY <1>1, <1>2 DEF Keeps
<1>4. Len(stack') <= StackMax
  BY <1>1, <1>2, VmAssumption DEF StackInv, Types
<1>5. Ready(f, stack')
  BY OwnBelow DEF Ready, Leaves, Flows, OwnShape
<1>6. frames # <<>> /\ ret'.on = FALSE
  BY DEF Running, StackInv, Types
<1>7. StackInv'
  BY <1>1, <1>3, <1>4, <1>5, <1>6, GoesOn
<1>. QED
  BY <1>3, <1>7

\* The running call ends with an error.
LEMMA Quits ==
    ASSUME StackInv, Running, runs' = runs, NEW n \in 0..Len(OwnShape), NEW e, e # "SUCCESS",
           Fail(Below(n), e)
    PROVE  StackInv' /\ Keeps
<1>1. /\ Below(n) \in Seq(Operand) /\ Len(Below(n)) = Len(stack) - n /\ Top.base <= Len(Below(n))
      /\ \A i \in 1..Len(Below(n)) : Below(n)[i] = stack[i]
  BY Popped
<1>2. Len(stack) \in Nat /\ Len(OwnShape) \in Nat /\ Top.base \in Nat /\ Len(Below(n)) \in Nat
  BY Current, Popped
<1>3. stack' = Below(n) /\ frames' = SubSeq(frames, 1, Len(frames) - 1) /\ frames # <<>>
      /\ ret'.on = TRUE /\ ret'.err = e /\ ret'.overflow = FALSE
  BY DEF Fail, Leave, Running
<1>4. Keeps
  BY <1>1, <1>2, <1>3 DEF Keeps
<1>5. Len(stack') <= StackMax
  BY <1>1, <1>2, <1>3, VmAssumption DEF StackInv, Types
<1>6. Returned'
  BY <1>3 DEF Returned
<1>7. StackInv'
  BY <1>1, <1>3, <1>4, <1>5, <1>6, Ends
<1>. QED
  BY <1>4, <1>7

\* The running call pops n operands and pushes v; or the stack is full.
LEMMA PushesGoOn ==
    ASSUME StackInv, Running, runs' = runs, NEW n \in Nat, NEW T, NEW B,
           Pushes(Top.ip, n, T, B), NEW v \in T, NEW a \in B, Push(Below(n), v, a)
    PROVE  StackInv' /\ Keeps
<1> DEFINE s == Under(OwnShape, n)
<1>1. n \in 0..Len(OwnShape) /\ Flows(Append(s, T), a)
  BY Current DEF Pushes, OwnShape
<1>2. /\ Below(n) \in Seq(Operand) /\ Len(Below(n)) = Len(stack) - n /\ Top.base <= Len(Below(n))
      /\ \A i \in 1..Len(Below(n)) : Below(n)[i] = stack[i]
  BY <1>1, Popped
<1>3. Len(stack) \in Nat /\ Len(OwnShape) \in Nat /\ Top.base \in Nat /\ Len(Below(n)) \in Nat
  BY <1>1, Current, Popped
<1>4. frames # <<>> /\ ret.on = FALSE /\ Len(stack) <= StackMax
  BY DEF Running, StackInv, Types
<1>5. CASE Len(Below(n)) < StackMax
  <2>1. stack' = Append(Below(n), v) /\ Goto(a) /\ ret' = ret
    BY <1>5 DEF Push
  <2>2. /\ s \in Seq(SUBSET Operand) /\ Len(s) \in Nat /\ Len(Below(n)) = Top.base + Len(s)
        /\ \A j \in 1..Len(s) : Below(n)[Top.base + j] \in s[j]
    BY <1>1, OwnBelow
  <2>3. /\ Len(Append(s, T)) = Len(s) + 1 /\ Append(s, T)[Len(s) + 1] = T
        /\ \A j \in 1..Len(s) : Append(s, T)[j] = s[j]
    BY <2>2
  <2>4. /\ IsInstruction(a) /\ Len(ShapeAt(a)) = Len(s) + 1 /\ T \subseteq ShapeAt(a)[Len(s) + 1]
        /\ \A j \in 1..Len(s) : s[j] \subseteq ShapeAt(a)[j]
    BY <1>1, <2>2, <2>3 DEF Flows
  <2>5. a \in Nat /\ ShapeAt(a) \in Seq(SUBSET Operand)
    BY <2>4, ShapeType
  <2>6. v \in Operand
    <3>1. Len(s) + 1 \in 1..Len(ShapeAt(a))
      BY <2>2, <2>4
    <3>. QED
      BY <2>4, <2>5, <3>1
  <2>top. Len(Below(n)) + 1 = Top.base + (Len(s) + 1)
    <3>1. \A b, l \in Nat : (b + l) + 1 = b + (l + 1)
      OBVIOUS
    <3>. QED
      BY <1>3, <2>2, <3>1
  <2>7. /\ stack' \in Seq(Operand) /\ Len(stack') = Len(Below(n)) + 1
        /\ stack'[Len(Below(n)) + 1] = v
        /\ \A i \in 1..Len(Below(n)) : stack'[i] = Below(n)[i]
    <3>1. \A q \in Seq(Operand), x \in Operand :
             /\ Append(q, x) \in Seq(Operand) /\ Len(Append(q, x)) = Len(q) + 1
             /\ Append(q, x)[Len(q) + 1] = x
             /\ \A i \in 1..Len(q) : Append(q, x)[i] = q[i]
      OBVIOUS
    <3>. QED
      BY <1>2, <2>1, <2>6, <3>1
  <2>8. Keeps
    <3>1. Top.base <= Len(stack')
      BY <1>2, <1>3, <2>7
    <3>2. ASSUME NEW i \in 1..Top.base PROVE stack'[i] = stack[i]
      <4>1. i \in 1..Len(Below(n))
        BY <1>2, <1>3
      <4>. QED
        BY <1>2, <2>7, <4>1
    <3>. QED
      BY <3>1, <3>2 DEF Keeps
  <2> DEFINE f == [Top EXCEPT !.ip = a]
  <2>9. /\ f \in Frames /\ f.base = Top.base /\ f.ip = a
        /\ frames' = [frames EXCEPT ![Len(frames)] = f]
    BY <2>1, <2>5, GotoFrame
  <2>10. Ready(f, stack')
    <3>1. Len(stack') = f.base + Len(ShapeAt(f.ip))
      BY <2>4, <2>7, <2>9, <2>top
    <3>2. ASSUME NEW j \in 1..Len(ShapeAt(a)) PROVE stack'[Top.base + j] \in ShapeAt(a)[j]
      <4>1. CASE j = Len(s) + 1
        <5>1. Top.base + j = Len(Below(n)) + 1
          BY <2>top, <4>1
        <5>. QED
          BY <2>4, <2>7, <4>1, <5>1
      <4>2. CASE j \in 1..Len(s)
        <5>1. Top.base + j \in 1..Len(Below(n))
          BY <1>3, <2>2, <4>2
        <5>. QED
          BY <2>2, <2>4, <2>7, <4>2, <5>1
      <4>. QED
        BY <2>2, <2>4, <4>1, <4>2
    <3>. QED
      BY <2>4, <2>9, <3>1, <3>2 DEF Ready
  <2>11. Len(stack') <= StackMax
    BY <1>3, <1>5, <2>7, VmAssumption
  <2>12. StackInv'
    BY <1>4, <2>1, <2>7, <2>8, <2>9, <2>10, <2>11, GoesOn
  <2>. QED
    BY <2>8, <2>12
<1>6. CASE ~(Len(Below(n)) < StackMax)
  <2>1. /\ stack' = Below(n) /\ frames' = SubSeq(frames, 1, Len(frames) - 1) /\ ret'.on = TRUE
        /\ ret'.overflow = TRUE
    BY <1>6 DEF Push, Leave
  <2>2. Len(stack') <= StackMax /\ Len(stack') = StackMax
    BY <1>1, <1>2, <1>3, <1>4, <1>6, <2>1, VmAssumption
  <2>3. Keeps
    BY <1>2, <1>3, <2>1 DEF Keeps
  <2>4. Returned'
    BY <2>1, <2>2 DEF Returned
  <2>5. StackInv'
    BY <1>2, <1>4, <2>1, <2>2, <2>3, <2>4, Ends
  <2>. QED
    BY <2>3, <2>5
<1>. QED
  BY <1>5, <1>6

-----------------------------------------------------------------------------
(* What each instruction finds: its disjunct of Fits, about the operands     *)

\* The operands on top are of the topmost sets of the shape.
LEMMA Operands ==
    ASSUME StackInv, Running
    PROVE  /\ Len(OwnShape) \in Nat
           /\ 1 <= Len(OwnShape) => Pop1 \in Nth(OwnShape, 1)
           /\ 2 <= Len(OwnShape) => Pop2 \in Nth(OwnShape, 2)
           /\ 3 <= Len(OwnShape) => stack[Len(stack) - 2] \in Nth(OwnShape, 3)
<1>1. Len(OwnShape) \in Nat /\ Len(stack) \in Nat
  BY Current
<1>2. /\ Len(stack) = Len(stack) - 1 + 1 /\ Len(stack) - 1 = Len(stack) - 2 + 1
      /\ Len(stack) - 2 = Len(stack) - 3 + 1
  BY <1>1
<1>3. ASSUME NEW n \in 1..Len(OwnShape) PROVE stack[Len(stack) - n + 1] \in Nth(OwnShape, n)
  BY TopOperand
<1>4. 1 <= Len(OwnShape) => Pop1 \in Nth(OwnShape, 1)
  BY <1>1, <1>2, <1>3 DEF Pop1
<1>5. 2 <= Len(OwnShape) => Pop2 \in Nth(OwnShape, 2)
  BY <1>1, <1>2, <1>3 DEF Pop2
<1>6. 3 <= Len(OwnShape) => stack[Len(stack) - 2] \in Nth(OwnShape, 3)
  BY <1>1, <1>2, <1>3
<1>. QED
  BY <1>1, <1>4, <1>5, <1>6

\* HLT finds one number and nothing else.
LEMMA HltFits ==
    ASSUME StackInv, Running, Instr.op = "HLT"
    PROVE  Len(OwnShape) = 1 /\ Pop1 \in Numeric
<1>1. Len(OwnShape) = 1 /\ OwnShape[1] \subseteq Numeric
  BY Current DEF Fits, NumberOps, StringOps, Instr, OwnShape
<1>. QED
  BY <1>1, Operands DEF Nth

\* Arithmetic and comparisons find two numbers and leave one.
LEMMA NumbersFit ==
    ASSUME StackInv, Running, Instr.op \in NumberOps
    PROVE  /\ 2 <= Len(OwnShape) /\ Pop1 \in Numeric /\ Pop2 \in Numeric
           /\ Pushes(Top.ip, 2, Numeric, {NextIp})
<1>1. TopNumbers(Top.ip, 2) /\ Pushes(Top.ip, 2, Numeric, {NextIp})
  BY Current DEF Fits, NumberOps, StringOps, Instr, NextIp
<1>. QED
  BY <1>1, Operands DEF TopNumbers, OwnShape

\* NOT, NEG and NOTL find a number and leave one.
LEMMA UnaryFits ==
    ASSUME StackInv, Running, Instr.op \in {"NOT", "NEG", "NOTL"}
    PROVE  1 <= Len(OwnShape) /\ Pop1 \in Numeric /\ Pushes(Top.ip, 1, Numeric, {NextIp})
<1>1. TopNumbers(Top.ip, 1) /\ Pushes(Top.ip, 1, Numeric, {NextIp})
  BY Current DEF Fits, NumberOps, StringOps, Instr, NextIp
<1>. QED
  BY <1>1, Operands DEF TopNumbers, OwnShape

\* Tests of strings find two strings and leave a number.
LEMMA StringsFit ==
    ASSUME StackInv, Running, Instr.op \in StringOps
    PROVE  /\ 2 <= Len(OwnShape) /\ Pop1.k = "str" /\ Pop2.k = "str"
           /\ Pushes(Top.ip, 2, Numeric, {NextIp})
<1>1. TopKind(Top.ip, 2, "str") /\ Pushes(Top.ip, 2, Numeric, {NextIp})
  BY Current DEF Fits, NumberOps, StringOps, Instr, NextIp
<1>. QED
  BY <1>1, Operands DEF TopKind, AllOf, OwnShape

\* MATCHES finds flags, pattern and subject and leaves a number.
LEMMA MatchesFits ==
    ASSUME StackInv, Running, Instr.op = "MATCHES"
    PROVE  /\ 3 <= Len(OwnShape) /\ Pop1 \in Numeric /\ Pop2.k = "str"
           /\ stack[Len(stack) - 2].k = "str" /\ Pushes(Top.ip, 3, Numeric, {NextIp})
<1>1. /\ TopNumbers(Top.ip, 1) /\ 3 <= Len(OwnShape)
      /\ AllOf(Nth(OwnShape, 2), "str") /\ AllOf(Nth(OwnShape, 3), "str")
      /\ Pushes(Top.ip, 3, Numeric, {NextIp})
  BY Current DEF Fits, NumberOps, StringOps, Instr, NextIp, OwnShape
<1>2. Nth(OwnShape, 1) \subseteq Numeric
  BY <1>1 DEF TopNumbers, OwnShape
<1>. QED
  BY <1>1, <1>2, Operands DEF AllOf

\* STRLEN finds a string and leaves its length.
LEMMA StrlenFits ==
    ASSUME StackInv, Running, Instr.op = "STRLEN"
    PROVE  /\ 1 <= Len(OwnShape) /\ Pop1.k = "str" /\ Pop1 \in Nth(OwnShape, 1)
           /\ Pushes(Top.ip, 1, {Num(StrLen[x.v]) : x \in Nth(OwnShape, 1)}, {NextIp})
<1>1. /\ TopKind(Top.ip, 1, "str")
      /\ Pushes(Top.ip, 1, {Num(StrLen[x.v]) : x \in Nth(OwnShape, 1)}, {NextIp})
  BY Current DEF Fits, NumberOps, StringOps, Instr, NextIp, OwnShape
<1>. QED
  BY <1>1, Operands DEF TopKind, AllOf, OwnShape

\* A conditional jump finds a number and leaves it, wherever it goes.
LEMMA JumpsFit ==
    ASSUME StackInv, Running, Instr.op \in {"JFALSE", "JTRUE"}
    PROVE  /\ 1 <= Len(OwnShape) /\ Pop1 \in Numeric /\ Pop1 \in Nth(OwnShape, 1)
           /\ Pushes(Top.ip, 1, Nth(OwnShape, 1), {NextIp, Instr.arg})
<1>1. TopNumbers(Top.ip, 1) /\ Pushes(Top.ip, 1, Nth(OwnShape, 1), {NextIp, Instr.arg})
  BY Current DEF Fits, NumberOps, StringOps, Instr, NextIp, OwnShape
<1>. QED
  BY <1>1, Operands DEF TopNumbers, OwnShape

\* What is there when JMP is reached fits where it goes.
LEMMA JmpFits ==
    ASSUME StackInv, Running, Instr.op = "JMP"
    PROVE  Leaves(Top.ip, 0, Instr.arg)
  BY Current DEF Fits, NumberOps, StringOps, Instr, OwnShape

\* What the instructions that pop nothing push, a rule's result included.
LEMMA ConstantsFit ==
    ASSUME StackInv, Running
    PROVE  /\ Instr.op \in {"PUSHINT", "PUSHBOOL"} =>
                 Pushes(Top.ip, 0, {Num(Instr.arg)}, {NextIp})
           /\ Instr.op = "PUSHSTRING" =>
                 Pushes(Top.ip, 0, {[k |-> "str", v |-> Instr.arg]}, {NextIp})
           /\ Instr.op = "PUSHMODULE" /\ Instr.arg \in DOMAIN Module =>
                 Pushes(Top.ip, 0, {[k |-> "obj", v |-> Module[Instr.arg]]}, {NextIp})
           /\ Instr.op = "LOAD" =>
                 Instr.arg \in Registers /\ Pushes(Top.ip, 0, Numeric, {NextIp})
           /\ Instr.op = "RULE" =>
                 /\ \E r \in Rules : RuleNames[r] = Instr.arg
                 /\ Pushes(Top.ip, 0, Numeric, {NextIp})
<1>1. CASE Instr.op \in {"PUSHINT", "PUSHBOOL"}
  BY <1>1, Current DEF Fits, NumberOps, StringOps, Instr, NextIp, OwnShape
<1>2. CASE Instr.op = "PUSHSTRING"
  BY <1>2, Current DEF Fits, NumberOps, StringOps, Instr, NextIp, OwnShape
<1>3. CASE Instr.op = "PUSHMODULE"
  BY <1>3, Current DEF Fits, NumberOps, StringOps, Instr, NextIp, OwnShape
<1>4. CASE Instr.op = "LOAD"
  BY <1>4, Current DEF Fits, NumberOps, StringOps, Instr, NextIp, OwnShape
<1>5. CASE Instr.op = "RULE"
  BY <1>5, Current DEF Fits, NumberOps, StringOps, Instr, NextIp, OwnShape
<1>. QED
  BY <1>1, <1>2, <1>3, <1>4, <1>5

\* OBJECT finds a field and leaves its value.
LEMMA ObjectFits ==
    ASSUME StackInv, Running, Instr.op = "OBJECT"
    PROVE  /\ 1 <= Len(OwnShape) /\ Pop1.k = "obj" /\ Pop1 \in Nth(OwnShape, 1)
           /\ Pushes(Top.ip, 1, {Payload[x.v] : x \in Nth(OwnShape, 1)}, {NextIp})
<1>1. /\ TopKind(Top.ip, 1, "obj")
      /\ Pushes(Top.ip, 1, {Payload[x.v] : x \in Nth(OwnShape, 1)}, {NextIp})
  BY Current DEF Fits, NumberOps, StringOps, Instr, NextIp, OwnShape
<1>. QED
  BY <1>1, Operands DEF TopKind, AllOf, OwnShape

\* FIELD finds an object and leaves its field.
LEMMA FieldFits ==
    ASSUME StackInv, Running, Instr.op = "FIELD"
    PROVE  /\ 1 <= Len(OwnShape) /\ Pop1.k = "obj" /\ Pop1 \in Nth(OwnShape, 1)
           /\ Pushes(Top.ip, 1,
                     {[k |-> "obj", v |-> Field[<<x.v, Instr.arg>>]] : x \in Nth(OwnShape, 1)},
                     {NextIp})
<1>1. /\ TopKind(Top.ip, 1, "obj")
      /\ Pushes(Top.ip, 1,
                {[k |-> "obj", v |-> Field[<<x.v, Instr.arg>>]] : x \in Nth(OwnShape, 1)},
                {NextIp})
  BY Current DEF Fits, NumberOps, StringOps, Instr, NextIp, OwnShape
<1>. QED
  BY <1>1, Operands DEF TopKind, AllOf, OwnShape

\* INDEX finds an index on an array and leaves an item.
LEMMA IndexFits ==
    ASSUME StackInv, Running, Instr.op = "INDEX"
    PROVE  /\ 2 <= Len(OwnShape) /\ Pop1 \in Numeric /\ Pop2.k = "obj"
           /\ Pop2 \in Nth(OwnShape, 2) /\ Len(Items[Pop2.v]) \in Nat
           /\ Pushes(Top.ip, 2,
                     UNION {{Items[x.v][i] : i \in 1..Len(Items[x.v])} : x \in Nth(OwnShape, 2)},
                     {NextIp})
<1>1. /\ TopNumbers(Top.ip, 1) /\ 2 <= Len(OwnShape) /\ AllOf(Nth(OwnShape, 2), "obj")
      /\ \A x \in Nth(OwnShape, 2) : Len(Items[x.v]) \in Nat
      /\ Pushes(Top.ip, 2,
                UNION {{Items[x.v][i] : i \in 1..Len(Items[x.v])} : x \in Nth(OwnShape, 2)},
                {NextIp})
  BY Current DEF Fits, NumberOps, StringOps, Instr, NextIp, OwnShape
<1>2. Nth(OwnShape, 1) \subseteq Numeric
  BY <1>1 DEF TopNumbers, OwnShape
<1>. QED
  BY <1>1, <1>2, Operands DEF AllOf

\* CALL finds a function, the number of its arguments, and as many operands.
LEMMA CallFits ==
    ASSUME StackInv, Running, Instr.op = "CALL"
    PROVE  /\ 2 <= Len(OwnShape) /\ Pop1.k = "obj" /\ Pop1 \in Nth(OwnShape, 1)
           /\ Pop2 \in Numeric
           /\ Pushes(Top.ip, 2 + Pop2.v,
                     UNION {Function[x.v] \ {NoResult} : x \in Nth(OwnShape, 1)}, {NextIp})
<1> DEFINE T == UNION {Function[x.v] \ {NoResult} : x \in Nth(OwnShape, 1)}
<1>1. /\ 2 <= Len(OwnShape) /\ AllOf(Nth(OwnShape, 1), "obj")
      /\ \E n \in Nth(OwnShape, 2) :
            /\ Nth(OwnShape, 2) = {n} /\ n \in Numeric
            /\ Pushes(Top.ip, 2 + n.v, T, {NextIp})
  BY Current DEF Fits, NumberOps, StringOps, Instr, NextIp, OwnShape
<1>2. PICK n \in Nth(OwnShape, 2) :
         /\ Nth(OwnShape, 2) = {n} /\ n \in Numeric /\ Pushes(Top.ip, 2 + n.v, T, {NextIp})
  BY <1>1
<1>3. Pop1 \in Nth(OwnShape, 1) /\ Pop2 \in Nth(OwnShape, 2)
  BY <1>1, Operands
<1>4. Pop2 = n
  BY <1>2, <1>3
<1>. QED
  BY <1>1, <1>2, <1>3, <1>4 DEF AllOf

\* STORE finds a number and an accumulator, POP anything; both leave nothing.
LEMMA DropsFit ==
    ASSUME StackInv, Running
    PROVE  /\ Instr.op = "STORE" =>
                 /\ Instr.arg \in Registers /\ 1 <= Len(OwnShape) /\ Pop1 \in Numeric
                 /\ Leaves(Top.ip, 1, NextIp)
           /\ Instr.op = "POP" => 1 <= Len(OwnShape) /\ Leaves(Top.ip, 1, NextIp)
<1>1. ASSUME Instr.op = "STORE"
      PROVE  Instr.arg \in Registers /\ TopNumbers(Top.ip, 1) /\ Leaves(Top.ip, 1, NextIp)
  BY <1>1, Current DEF Fits, NumberOps, StringOps, Instr, NextIp
<1>2. ASSUME Instr.op = "POP" PROVE Leaves(Top.ip, 1, NextIp)
  BY <1>2, Current DEF Fits, NumberOps, StringOps, Instr, NextIp
<1>3. Instr.op = "STORE" => 1 <= Len(OwnShape) /\ Pop1 \in Numeric
  BY <1>1, Operands DEF TopNumbers, OwnShape
<1>4. Instr.op = "POP" => 1 <= Len(OwnShape)
  BY <1>2 DEF Leaves, OwnShape
<1>. QED
  BY <1>1, <1>2, <1>3, <1>4

-----------------------------------------------------------------------------
(* Words                                                                     *)

\* A remainder is a word.
LEMMA Modulo ==
    ASSUME NEW n \in Int
    PROVE  n % Word \in 0..(Word - 1)
BY VmAssumption

\* Quotients and remainders of natural numbers are no larger than the operands.
LEMMA Quotient ==
    ASSUME NEW x \in Nat, NEW y \in Nat \ {0}
    PROVE  x \div y \in 0..x /\ x % y \in 0..(y - 1)
<1>1. x % y \in 0..(y - 1)
  OBVIOUS
<1>2. x = y * (x \div y) + (x % y)
  OBVIOUS
<1>3. x \div y \in Int
  OBVIOUS
<1>4. x \div y \in Nat
  BY <1>1, <1>2, <1>3
<1>5. \A q, r, d \in Nat : d >= 1 => q <= d * q + r
  OBVIOUS
<1>6. x \div y <= x
  BY <1>1, <1>2, <1>4, <1>5
<1>. QED
  BY <1>1, <1>4, <1>6

\* A word is a number.
LEMMA NumNumeric ==
    ASSUME NEW n \in 0..(Word - 1)
    PROVE  Num(n) \in Numeric
BY DEF Num, Numeric

\* A truth value is a number, whatever was tested.
LEMMA BoolNumeric ==
    ASSUME NEW p
    PROVE  Bool(p) \in Numeric
<1>1. 0 \in 0..(Word - 1) /\ 1 \in 0..(Word - 1)
  BY VmAssumption
<1>2. Num(0) \in Numeric /\ Num(1) \in Numeric
  BY <1>1, NumNumeric
<1>3. Bool(p) = Num(1) \/ Bool(p) = Num(0)
  BY Zenon DEF Bool
<1>. QED
  BY <1>2, <1>3, Zenon

\* The value of a number is a word.
LEMMA NumericValue ==
    ASSUME NEW x \in Numeric
    PROVE  x.v \in 0..(Word - 1) /\ x.v \in Nat /\ x.v \in Int /\ x.k = "num"
BY VmAssumption DEF Numeric

\* ADD, SUB and MUL yield words.
LEMMA ArithmeticNumeric ==
    ASSUME NEW op \in {"ADD", "SUB", "MUL"}, NEW x \in Int, NEW y \in Int
    PROVE  Arithmetic(op, x, y) \in 0..(Word - 1)
<1>1. CASE op = "ADD"
  <2>1. Arithmetic(op, x, y) = (x + y) % Word
    BY <1>1, Zenon DEF Arithmetic
  <2>2. x + y \in Int
    OBVIOUS
  <2>. QED
    BY <2>1, <2>2, Modulo
<1>2. CASE op = "SUB"
  <2>1. Arithmetic(op, x, y) = (x - y) % Word
    BY <1>2, Zenon DEF Arithmetic
  <2>2. x - y \in Int
    OBVIOUS
  <2>. QED
    BY <2>1, <2>2, Modulo
<1>3. CASE op = "MUL"
  <2>1. Arithmetic(op, x, y) = (x * y) % Word
    BY <1>3, Zenon DEF Arithmetic
  <2>2. x * y \in Int
    OBVIOUS
  <2>. QED
    BY <2>1, <2>2, Modulo
<1>. QED
  BY <1>1, <1>2, <1>3

\* NOT, NEG and NOTL yield words.
LEMMA UnaryNumeric ==
    ASSUME NEW op \in {"NOT", "NEG", "NOTL"}, NEW x \in Int
    PROVE  Unary(op, x) \in 0..(Word - 1)
<1>1. CASE op = "NOT"
  <2>1. Unary(op, x) = (0 - x - 1) % Word
    BY <1>1, Zenon DEF Unary
  <2>2. 0 - x - 1 \in Int
    OBVIOUS
  <2>. QED
    BY <2>1, <2>2, Modulo
<1>2. CASE op = "NEG"
  <2>1. Unary(op, x) = (0 - x) % Word
    BY <1>2, Zenon DEF Unary
  <2>2. 0 - x \in Int
    OBVIOUS
  <2>. QED
    BY <2>1, <2>2, Modulo
<1>3. CASE op = "NOTL"
  <2>1. Unary(op, x) = IF x = 0 THEN 1 ELSE 0
    BY <1>3, Zenon DEF Unary
  <2>. QED
    BY <2>1, VmAssumption
<1>. QED
  BY <1>1, <1>2, <1>3

\* Shifts by no more than the width yield words, the undefined one included.
LEMMA ShiftedNumeric ==
    ASSUME NEW op, NEW x \in 0..(Word - 1), NEW n \in 0..WordBits, NEW y \in Shifted(op, x, n)
    PROVE  y \in 0..(Word - 1)
<1>1. 2^n \in Nat \ {0} /\ x \in Nat /\ Word \in Nat /\ Word > 1
  BY VmAssumption
<1>2. \/ y = x \/ y = 0 \/ y = (x * 2^n) % Word \/ y = x \div 2^n
  BY DEF Shifted
<1>3. (x * 2^n) % Word \in 0..(Word - 1)
  <2>1. x * 2^n \in Int
    BY <1>1
  <2>. QED
    BY <2>1, Modulo
<1>4. x \div 2^n \in 0..x
  BY <1>1, Quotient
<1>5. x \div 2^n \in 0..(Word - 1)
  BY <1>1, <1>4
<1>. QED
  BY <1>1, <1>2, <1>3, <1>5

-----------------------------------------------------------------------------
(* The handlers                                                              *)

\* HLT hands a number on and leaves the stack as the call found it.
LEMMA HaltStep ==
    ASSUME StackInv, HLT
    PROVE  StackInv' /\ Keeps
<1>1. /\ Running /\ runs' = runs /\ stack' = Below(1) /\ Instr.op = "HLT" /\ frames # <<>>
      /\ frames' = SubSeq(frames, 1, Len(frames) - 1) /\ ret'.on = TRUE
      /\ ret'.result = Pop1.v /\ ret'.overflow = FALSE
  BY DEF HLT, Op, Leave, Running
<1>2. Len(OwnShape) = 1 /\ Pop1 \in Numeric /\ 1 \in 0..Len(OwnShape)
  <2>1. Len(OwnShape) = 1 /\ Pop1 \in Numeric
    BY <1>1, HltFits
  <2>. QED
    BY <2>1
<1>3. /\ Below(1) \in Seq(Operand) /\ Len(Below(1)) = Len(stack) - 1 /\ Top.base <= Len(Below(1))
      /\ \A i \in 1..Len(Below(1)) : Below(1)[i] = stack[i]
  BY <1>1, <1>2, Popped
<1>4. Len(stack) \in Nat /\ Len(stack) = Top.base + 1 /\ Top.base \in Nat
  BY <1>1, <1>2, Current
<1>5. Keeps
  BY <1>1, <1>3, <1>4 DEF Keeps
<1>6. Len(stack') = Top.base
  BY <1>1, <1>3, <1>4
<1>7. Len(stack') <= StackMax
  BY <1>1, <1>3, <1>4, VmAssumption DEF StackInv, Types
<1>8. Returned'
  BY <1>1, <1>2, NumericValue DEF Returned
<1>9. StackInv'
  BY <1>1, <1>3, <1>5, <1>6, <1>7, <1>8, Ends
<1>. QED
  BY <1>5, <1>9

\* Every instruction on two numbers pushes one.
LEMMA NumbersStep ==
    ASSUME StackInv, Running, runs' = runs, Instr.op \in NumberOps, NEW v \in Numeric,
           Push(Below(2), v, NextIp)
    PROVE  StackInv' /\ Keeps
<1>1. Pushes(Top.ip, 2, Numeric, {NextIp}) /\ NextIp \in {NextIp} /\ 2 \in Nat
  BY NumbersFit
<1>. QED
  BY <1>1, PushesGoOn

\* ADD, SUB and MUL.
LEMMA ArithmeticStep ==
    ASSUME StackInv, ADD_SUB_MUL
    PROVE  StackInv' /\ Keeps
<1>1. /\ Running /\ runs' = runs /\ Instr.op \in {"ADD", "SUB", "MUL"} /\ Instr.op \in NumberOps
      /\ Push(Below(2), Num(Arithmetic(Instr.op, Pop2.v, Pop1.v)), NextIp)
  BY DEF ADD_SUB_MUL, Op, NumberOps
<1>2. Pop1.v \in Int /\ Pop2.v \in Int
  BY <1>1, NumbersFit, NumericValue
<1>3. Num(Arithmetic(Instr.op, Pop2.v, Pop1.v)) \in Numeric
  BY <1>1, <1>2, ArithmeticNumeric, NumNumeric
<1>. QED
  BY <1>1, <1>3, NumbersStep

\* DIV and MOD.
LEMMA DivisionStep ==
    ASSUME StackInv, DIV_MOD
    PROVE  StackInv' /\ Keeps
<1> DEFINE q == IF Instr.op = "DIV" THEN Pop2.v \div Pop1.v ELSE Pop2.v % Pop1.v
<1>1. /\ Running /\ runs' = runs /\ Instr.op \in NumberOps /\ Pop1.v # 0
      /\ Push(Below(2), Num(q), NextIp)
  BY DEF DIV_MOD, Op, NumberOps
<1>2. Pop1.v \in 0..(Word - 1) /\ Pop2.v \in 0..(Word - 1) /\ Pop2.v \in Nat /\ Pop1.v \in Nat \ {0}
  BY <1>1, NumbersFit, NumericValue
<1>3. Pop2.v \div Pop1.v \in 0..Pop2.v /\ Pop2.v % Pop1.v \in 0..(Pop1.v - 1)
  BY <1>2, Quotient
<1>4. q \in 0..(Word - 1)
  <2>1. \A x, y \in 0..(Word - 1) : \A z \in 0..x : z \in 0..(Word - 1)
    BY VmAssumption
  <2>2. \A x \in 0..(Word - 1) : \A z \in 0..(x - 1) : z \in 0..(Word - 1)
    BY VmAssumption
  <2>. QED
    BY <1>2, <1>3, <2>1, <2>2
<1>5. Num(q) \in Numeric
  BY <1>4, NumNumeric
<1>. QED
  BY <1>1, <1>5, NumbersStep

\* SHL and SHR; a shift by more than the width ends the call.
LEMMA ShiftStep ==
    ASSUME StackInv, SHL_SHR
    PROVE  StackInv' /\ Keeps
<1>1. Running /\ runs' = runs /\ Instr.op \in NumberOps
  BY DEF SHL_SHR, Op, NumberOps
<1>2. /\ Pop1.v \in Nat /\ Pop2.v \in 0..(Word - 1) /\ 2 \in 0..Len(OwnShape)
  BY <1>1, NumbersFit, NumericValue, Operands
<1>3. CASE Pop1.v > WordBits
  BY <1>1, <1>2, <1>3, Quits DEF SHL_SHR
<1>4. CASE ~(Pop1.v > WordBits)
  <2>1. PICK y \in Shifted(Instr.op, Pop2.v, Pop1.v) : Push(Below(2), Num(y), NextIp)
    BY <1>4 DEF SHL_SHR
  <2>2. Pop1.v \in 0..WordBits
    BY <1>2, <1>4, VmAssumption
  <2>3. Num(y) \in Numeric
    BY <1>2, <2>2, ShiftedNumeric, NumNumeric
  <2>. QED
    BY <1>1, <2>1, <2>3, NumbersStep
<1>. QED
  BY <1>3, <1>4

\* AND, OR and XOR.
LEMMA BitwiseStep ==
    ASSUME StackInv, AND_OR_XOR
    PROVE  StackInv' /\ Keeps
<1>1. /\ Running /\ runs' = runs /\ Instr.op \in {"AND", "OR", "XOR"} /\ Instr.op \in NumberOps
      /\ Push(Below(2), Num(BitOp[<<Instr.op, Pop2.v, Pop1.v>>]), NextIp)
  BY DEF AND_OR_XOR, Op, NumberOps
<1>2. Pop1.v \in 0..(Word - 1) /\ Pop2.v \in 0..(Word - 1)
  BY <1>1, NumbersFit, NumericValue
<1>3. BitOp[<<Instr.op, Pop2.v, Pop1.v>>] \in 0..(Word - 1)
  BY <1>1, <1>2, VmAssumption
<1>. QED
  BY <1>1, <1>3, NumNumeric, NumbersStep

\* The comparisons, ANDL and ORL.
LEMMA CompareStep ==
    ASSUME StackInv, COMPARE
    PROVE  StackInv' /\ Keeps
<1> DEFINE v == Bool(Comparison(Instr.op, Pop2.v, Pop1.v))
<1>1. Running /\ runs' = runs /\ Instr.op \in NumberOps /\ Push(Below(2), v, NextIp)
  BY DEF COMPARE, Op, NumberOps
<1>2. v \in Numeric
  BY BoolNumeric
<1>. QED
  BY <1>1, <1>2, NumbersStep

\* NOT, NEG and NOTL.
LEMMA UnaryStep ==
    ASSUME StackInv, NOT_NEG_NOTL
    PROVE  StackInv' /\ Keeps
<1>1. /\ Running /\ runs' = runs /\ Instr.op \in {"NOT", "NEG", "NOTL"}
      /\ Push(Below(1), Num(Unary(Instr.op, Pop1.v)), NextIp)
  BY DEF NOT_NEG_NOTL, Op
<1>2. Pop1.v \in Int /\ Pushes(Top.ip, 1, Numeric, {NextIp}) /\ NextIp \in {NextIp} /\ 1 \in Nat
  BY <1>1, UnaryFits, NumericValue
<1>3. Num(Unary(Instr.op, Pop1.v)) \in Numeric
  BY <1>1, <1>2, UnaryNumeric, NumNumeric
<1>. QED
  BY <1>1, <1>2, <1>3, PushesGoOn

\* JFALSE and JTRUE: either way the condition is there.
LEMMA ConditionalJumpStep ==
    ASSUME StackInv, JFALSE_JTRUE
    PROVE  StackInv' /\ Keeps
<1> DEFINE a == IF (Instr.op = "JTRUE") = (Pop1.v # 0) THEN Instr.arg ELSE NextIp
<1>1. Running /\ runs' = runs /\ Instr.op \in {"JFALSE", "JTRUE"} /\ Push(Below(1), Pop1, a)
  BY DEF JFALSE_JTRUE, Op
<1>2. /\ Pop1 \in Nth(OwnShape, 1) /\ a \in {NextIp, Instr.arg} /\ 1 \in Nat
      /\ Pushes(Top.ip, 1, Nth(OwnShape, 1), {NextIp, Instr.arg})
  BY <1>1, JumpsFit
<1>. QED
  BY <1>1, <1>2, PushesGoOn

\* JMP.
LEMMA JumpStep ==
    ASSUME StackInv, JMP
    PROVE  StackInv' /\ Keeps
<1>1. /\ Running /\ runs' = runs /\ Instr.op = "JMP" /\ stack' = stack /\ ret' = ret
      /\ Goto(Instr.arg)
  BY DEF JMP, Op
<1>2. Leaves(Top.ip, 0, Instr.arg) /\ 0 \in 0..Len(OwnShape)
  BY <1>1, JmpFits, Operands
<1>3. Instr.arg \in Nat
  BY <1>2, ShapeType DEF Leaves, Flows
<1>4. stack' = Below(0)
  BY <1>1, <1>2, Popped
<1>. QED
  BY <1>1, <1>2, <1>3, <1>4, GotoFrame, PopsGoOn

\* A value is pushed on the operands that are there.
LEMMA PushStep ==
    ASSUME StackInv, Running, runs' = runs, NEW T, NEW v \in T,
           Pushes(Top.ip, 0, T, {NextIp}), Push(stack, v, NextIp)
    PROVE  StackInv' /\ Keeps
<1>1. 0 \in 0..Len(OwnShape) /\ 0 \in Nat /\ NextIp \in {NextIp}
  BY Operands
<1>2. Below(0) = stack
  BY <1>1, Popped
<1>. QED
  BY <1>1, <1>2, PushesGoOn

\* PUSHINT, PUSHBOOL and PUSHSTRING.
LEMMA ConstantStep ==
    ASSUME StackInv, PUSHINT_BOOL_STRING
    PROVE  StackInv' /\ Keeps
<1> DEFINE v == [k |-> IF Instr.op = "PUSHSTRING" THEN "str" ELSE "num", v |-> Instr.arg]
<1>1. /\ Running /\ runs' = runs /\ Instr.op \in {"PUSHINT", "PUSHBOOL", "PUSHSTRING"}
      /\ Push(stack, v, NextIp)
  BY DEF PUSHINT_BOOL_STRING, Op
<1>2. CASE Instr.op = "PUSHSTRING"
  <2>1. v \in {[k |-> "str", v |-> Instr.arg]}
    BY <1>2
  <2>. QED
    BY <1>1, <1>2, <2>1, ConstantsFit, PushStep
<1>3. CASE Instr.op \in {"PUSHINT", "PUSHBOOL"}
  <2>1. v \in {Num(Instr.arg)}
    BY <1>3 DEF Num
  <2>. QED
    BY <1>1, <1>3, <2>1, ConstantsFit, PushStep
<1>. QED
  BY <1>1, <1>2, <1>3

\* PUSHMODULE; a module that is not there ends the call.
LEMMA ModuleStep ==
    ASSUME StackInv, PUSHMODULE
    PROVE  StackInv' /\ Keeps
<1> DEFINE v == [k |-> "obj", v |-> Module[Instr.arg]]
<1>1. Running /\ runs' = runs /\ Instr.op = "PUSHMODULE"
  BY DEF PUSHMODULE, Op
<1>2. CASE Instr.arg \in DOMAIN Module
  <2>1. Push(stack, v, NextIp) /\ v \in {v}
    BY <1>2 DEF PUSHMODULE
  <2>2. Pushes(Top.ip, 0, {v}, {NextIp})
    BY <1>1, <1>2, ConstantsFit
  <2>. QED
    BY <1>1, <2>1, <2>2, PushStep
<1>3. CASE Instr.arg \notin DOMAIN Module
  <2>1. Fail(stack, "MODULE") /\ 0 \in 0..Len(OwnShape)
    BY <1>1, <1>3, Operands DEF PUSHMODULE
  <2>2. Below(0) = stack
    BY <1>1, <2>1, Popped
  <2>. QED
    BY <1>1, <2>1, <2>2, Quits
<1>. QED
  BY <1>2, <1>3

\* OBJECT.
LEMMA ObjectStep ==
    ASSUME StackInv, OBJECT
    PROVE  StackInv' /\ Keeps
<1> DEFINE T == {Payload[x.v] : x \in Nth(OwnShape, 1)}
<1>1. Running /\ runs' = runs /\ Instr.op = "OBJECT" /\ Push(Below(1), Payload[Pop1.v], NextIp)
  BY DEF OBJECT, Op
<1>2. Pushes(Top.ip, 1, T, {NextIp}) /\ Payload[Pop1.v] \in T /\ NextIp \in {NextIp} /\ 1 \in Nat
  BY <1>1, ObjectFits
<1>. QED
  BY <1>1, <1>2, PushesGoOn

\* STREQ and STRNE.
LEMMA StringEqualStep ==
    ASSUME StackInv, STREQ_STRNE
    PROVE  StackInv' /\ Keeps
<1> DEFINE v == Bool((Instr.op = "STREQ") = (Pop2.v = Pop1.v))
<1>1. Running /\ runs' = runs /\ Instr.op \in StringOps /\ Push(Below(2), v, NextIp)
  BY DEF STREQ_STRNE, Op, StringOps
<1>2. v \in Numeric
  BY BoolNumeric
<1>3. Pushes(Top.ip, 2, Numeric, {NextIp}) /\ NextIp \in {NextIp} /\ 2 \in Nat
  BY <1>1, StringsFit
<1>. QED
  BY <1>1, <1>2, <1>3, PushesGoOn

\* The other tests of strings, whatever they answer.
LEMMA StringTestStep ==
    ASSUME StackInv, STRING_TEST
    PROVE  StackInv' /\ Keeps
<1>1. Running /\ runs' = runs /\ Instr.op \in StringOps
  BY DEF STRING_TEST, Op, StringOps
<1>2. PICK b \in BOOLEAN : Push(Below(2), Bool(b), NextIp)
  BY DEF STRING_TEST
<1>3. Bool(b) \in Numeric
  BY BoolNumeric
<1>4. Pushes(Top.ip, 2, Numeric, {NextIp}) /\ NextIp \in {NextIp} /\ 2 \in Nat
  BY <1>1, StringsFit
<1>. QED
  BY <1>1, <1>2, <1>3, <1>4, PushesGoOn

\* MATCHES, whatever it answers.
LEMMA MatchStep ==
    ASSUME StackInv, MATCHES
    PROVE  StackInv' /\ Keeps
<1>1. Running /\ runs' = runs /\ Instr.op = "MATCHES"
  BY DEF MATCHES, Op
<1>2. PICK b \in BOOLEAN : Push(Below(3), Bool(b), NextIp)
  BY DEF MATCHES
<1>3. Bool(b) \in Numeric
  BY BoolNumeric
<1>4. Pushes(Top.ip, 3, Numeric, {NextIp}) /\ NextIp \in {NextIp} /\ 3 \in Nat
  BY <1>1, MatchesFits
<1>. QED
  BY <1>1, <1>2, <1>3, <1>4, PushesGoOn

\* STRLEN.
LEMMA LengthStep ==
    ASSUME StackInv, STRLEN
    PROVE  StackInv' /\ Keeps
<1> DEFINE T == {Num(StrLen[x.v]) : x \in Nth(OwnShape, 1)}
<1>1. Running /\ runs' = runs /\ Instr.op = "STRLEN" /\ Push(Below(1), Num(StrLen[Pop1.v]), NextIp)
  BY DEF STRLEN, Op
<1>2. Pushes(Top.ip, 1, T, {NextIp}) /\ NextIp \in {NextIp} /\ 1 \in Nat
  BY <1>1, StrlenFits
<1>3. Num(StrLen[Pop1.v]) \in T
  BY <1>1, StrlenFits
<1>. QED
  BY <1>1, <1>2, <1>3, PushesGoOn

\* CALL: the function's result, or the end of the call; the arguments are gone.
LEMMA CallStep ==
    ASSUME StackInv, CALL
    PROVE  StackInv' /\ Keeps
<1> DEFINE T == UNION {Function[x.v] \ {NoResult} : x \in Nth(OwnShape, 1)}
           n == 2 + Pop2.v
<1>1. Running /\ runs' = runs /\ Instr.op = "CALL"
  BY DEF CALL, Op
<1>2. PICK res \in Function[Pop1.v] :
         IF res = NoResult THEN Fail(Below(n), "UNSUCCESSFUL") ELSE Push(Below(n), res, NextIp)
  BY DEF CALL
<1>3. Pop1 \in Nth(OwnShape, 1) /\ Pop2.v \in Nat /\ Pushes(Top.ip, n, T, {NextIp})
  BY <1>1, CallFits, NumericValue
<1>4. n \in Nat /\ NextIp \in {NextIp}
  BY <1>3
<1>5. CASE res = NoResult
  <2>1. n \in 0..Len(OwnShape)
    BY <1>1, <1>3, <1>4, Operands DEF Pushes, OwnShape
  <2>2. Fail(Below(n), "UNSUCCESSFUL")
    BY <1>2, <1>5
  <2> HIDE DEF n
  <2>. QED
    BY <1>1, <2>1, <2>2, Quits
<1>6. CASE res # NoResult
  <2>1. Push(Below(n), res, NextIp) /\ res \in T
    BY <1>2, <1>3, <1>6
  <2> HIDE DEF n, T
  <2>. QED
    BY <1>1, <1>3, <1>4, <2>1, PushesGoOn
<1>. QED
  BY <1>5, <1>6

\* FIELD.
LEMMA FieldStep ==
    ASSUME StackInv, FIELD
    PROVE  StackInv' /\ Keeps
<1> DEFINE Value(x) == [k |-> "obj", v |-> Field[<<x.v, Instr.arg>>]]
           T == {Value(x) : x \in Nth(OwnShape, 1)}
<1>1. Running /\ runs' = runs /\ Instr.op = "FIELD" /\ Push(Below(1), Value(Pop1), NextIp)
  BY DEF FIELD, Op
<1>2. Pushes(Top.ip, 1, T, {NextIp}) /\ NextIp \in {NextIp} /\ 1 \in Nat /\ Pop1 \in Nth(OwnShape, 1)
  BY <1>1, FieldFits
<1>3. Value(Pop1) \in T
  BY <1>2
<1> HIDE DEF Value, T
<1>. QED
  BY <1>1, <1>2, <1>3, PushesGoOn

\* INDEX; an index beyond the array ends the call.
LEMMA IndexStep ==
    ASSUME StackInv, INDEX
    PROVE  StackInv' /\ Keeps
<1> DEFINE T == UNION {{Items[x.v][i] : i \in 1..Len(Items[x.v])} : x \in Nth(OwnShape, 2)}
           v == Items[Pop2.v][Pop1.v + 1]
<1>1. Running /\ runs' = runs /\ Instr.op = "INDEX"
  BY DEF INDEX, Op
<1>2. /\ 2 <= Len(OwnShape) /\ Pop1.v \in Nat /\ Pop2 \in Nth(OwnShape, 2)
      /\ Len(Items[Pop2.v]) \in Nat /\ Pushes(Top.ip, 2, T, {NextIp})
  BY <1>1, IndexFits, NumericValue
<1>3. CASE Pop1.v < Len(Items[Pop2.v])
  <2>1. Push(Below(2), v, NextIp)
    BY <1>3 DEF INDEX
  <2>2. Pop1.v + 1 \in 1..Len(Items[Pop2.v])
    BY <1>2, <1>3
  <2>3. v \in T
    BY <1>2, <2>2
  <2>4. 2 \in Nat /\ NextIp \in {NextIp}
    OBVIOUS
  <2> HIDE DEF v, T
  <2>. QED
    BY <1>1, <1>2, <2>1, <2>3, <2>4, PushesGoOn
<1>4. CASE ~(Pop1.v < Len(Items[Pop2.v]))
  <2>1. Fail(Below(2), "INDEX")
    BY <1>4 DEF INDEX
  <2>2. 2 \in 0..Len(OwnShape)
    BY <1>1, <1>2, Operands
  <2>. QED
    BY <1>1, <2>1, <2>2, Quits
<1>. QED
  BY <1>3, <1>4

\* LOAD: an accumulator is a number at any time.
LEMMA LoadStep ==
    ASSUME StackInv, LOAD
    PROVE  StackInv' /\ Keeps
<1>1. Running /\ runs' = runs /\ Instr.op = "LOAD" /\ Push(stack, Top.regs[Instr.arg], NextIp)
  BY DEF LOAD, Op
<1>2. Instr.arg \in Registers /\ Pushes(Top.ip, 0, Numeric, {NextIp})
  BY <1>1, ConstantsFit
<1>3. Top \in Frames
  BY <1>1, InnermostCall DEF Running, StackInv
<1>4. Top.regs[Instr.arg] \in Numeric
  BY <1>2, <1>3 DEF Frames
<1>. QED
  BY <1>1, <1>2, <1>4, PushStep

\* STORE: only a number gets into an accumulator.
LEMMA StoreStep ==
    ASSUME StackInv, STORE
    PROVE  StackInv' /\ Keeps
<1> DEFINE f == [Top EXCEPT !.ip = NextIp, !.regs[Instr.arg] = Pop1]
<1>1. /\ Running /\ runs' = runs /\ Instr.op = "STORE" /\ stack' = Below(1) /\ ret' = ret
      /\ frames' = [frames EXCEPT ![Len(frames)].ip = NextIp,
                                  ![Len(frames)].regs[Instr.arg] = Pop1]
  BY DEF STORE, Op
<1>2. /\ Instr.arg \in Registers /\ 1 \in 0..Len(OwnShape) /\ Pop1 \in Numeric
      /\ Leaves(Top.ip, 1, NextIp)
  BY <1>1, DropsFit, Operands
<1>3. Top \in Frames /\ Top = frames[Len(frames)] /\ Len(frames) \in 1..Len(frames)
      /\ frames \in Seq(Frames)
  BY <1>1, InnermostCall DEF Running, StackInv, Types
<1>4. NextIp \in Nat
  BY <1>2, ShapeType DEF Leaves, Flows
<1>5. f \in Frames /\ f.base = Top.base /\ f.ip = NextIp
  BY <1>2, <1>3, <1>4 DEF Frames
<1>6. frames' = [frames EXCEPT ![Len(frames)] = f]
  BY <1>1, <1>3
<1> HIDE DEF f
<1>. QED
  BY <1>1, <1>2, <1>5, <1>6, PopsGoOn

\* POP.
LEMMA PopStep ==
    ASSUME StackInv, POP
    PROVE  StackInv' /\ Keeps
<1>1. /\ Running /\ runs' = runs /\ Instr.op = "POP" /\ stack' = Below(1) /\ ret' = ret
      /\ Goto(NextIp)
  BY DEF POP, Op
<1>2. Leaves(Top.ip, 1, NextIp) /\ 1 \in 0..Len(OwnShape)
  BY <1>1, DropsFit, Operands
<1>3. NextIp \in Nat
  BY <1>2, ShapeType DEF Leaves, Flows
<1> DEFINE f == [Top EXCEPT !.ip = NextIp]
<1>4. /\ f \in Frames /\ f.base = Top.base /\ f.ip = NextIp
      /\ frames' = [frames EXCEPT ![Len(frames)] = f]
  BY <1>1, <1>3, GotoFrame
<1> HIDE DEF f
<1>. QED
  BY <1>1, <1>2, <1>4, PopsGoOn

-----------------------------------------------------------------------------
(* Calls of rules                                                            *)

\* A nonempty set of numbers has a least one.
LEMMA LeastNumber ==
    ASSUME NEW S \in SUBSET Nat, S # {}
    PROVE  \E i \in S : \A j \in S : i <= j
<1> DEFINE less == OpToRel(<, Nat)
<1>1. PICK i \in S : \A j \in S : ~ (<<j, i>> \in less)
  BY WFMin, NatLessThanWellFounded
<1>2. \A j \in S : j < i => <<j, i>> \in less
  BY DEF OpToRel
<1> HIDE DEF less
<1>3. ASSUME NEW j \in S PROVE i <= j
  <2>1. i \in Nat /\ j \in Nat /\ ~(j < i)
    BY <1>1, <1>2
  <2>. QED
    BY <2>1
<1>. QED
  BY <1>3

\* A name that some rule has finds a rule.
LEMMA RuleIsFound ==
    ASSUME NEW name, \E r \in Rules : RuleNames[r] = name
    PROVE  find_rule_idx_by_name(name) \in Rules
<1> DEFINE S == {r \in Rules : RuleNames[r] = name}
           First(i) == i \in Rules /\ RuleNames[i] = name
                       /\ \A j \in Rules : j < i => RuleNames[j] # name
<1>1. S \in SUBSET Nat /\ S # {} /\ Rules \subseteq Nat
  <2>1. RuleOffset \in Seq(Nat)
    BY VmAssumption
  <2>2. Rules \subseteq Nat
    BY <2>1 DEF Rules
  <2>. QED
    BY <2>2
<1>2. PICK i \in S : \A j \in S : i <= j
  BY <1>1, LeastNumber
<1>3. First(i)
  <2>1. ASSUME NEW j \in Rules, j < i PROVE RuleNames[j] # name
    <3>1. ~(i <= j)
      BY <1>1, <2>1
    <3>. QED
      BY <1>2, <3>1
  <2>. QED
    BY <2>1
<1>4. find_rule_idx_by_name(name) =
         CHOOSE r \in Rules : RuleNames[r] = name /\ \A j \in Rules : j < r => RuleNames[j] # name
  BY DEF find_rule_idx_by_name
<1>. QED
  BY <1>3, <1>4

\* A fresh call.
LEMMA FreshFrame ==
    ASSUME StackInv, NEW r \in Rules
    PROVE  Frame(r) \in Frames /\ Frame(r).base = Len(stack) /\ Ready(Frame(r), stack)
<1>1. RuleOffset[r] \in Nat /\ Len(stack) \in Nat
  BY VmAssumption DEF Rules, StackInv, Types
<1>2. 0 \in 0..(Word - 1)
  BY VmAssumption
<1>3. Num(0) \in Numeric
  BY <1>2, NumNumeric
<1>4. [a \in 0..(Accums - 1) |-> Num(0)] \in [Registers -> Numeric]
  BY <1>3 DEF Registers
<1>5. Frame(r) \in Frames /\ Frame(r).base = Len(stack) /\ Frame(r).ip = RuleOffset[r]
  BY <1>1, <1>4 DEF Frame, Frames
<1>6. IsInstruction(RuleOffset[r]) /\ ShapeAt(RuleOffset[r]) = <<>>
  BY CodeFits
<1>7. Len(ShapeAt(RuleOffset[r])) = 0
  BY <1>6
<1>8. Ready(Frame(r), stack)
  BY <1>1, <1>5, <1>6, <1>7 DEF Ready
<1>. QED
  BY <1>5, <1>8

\* ac_vm_exec starts a rule on top of what earlier ones have left.
LEMMA StartStep ==
    ASSUME StackInv, StartRule
    PROVE  StackInv'
<1>1. PICK r \in Rules : frames' = <<Frame(r)>>
  BY DEF StartRule
<1>2. stack' = stack /\ ret' = ret /\ ret.on # TRUE /\ runs' = runs + 1 /\ runs < MaxRuns
  BY DEF StartRule
<1>3. Frame(r) \in Frames /\ Ready(Frame(r), stack)
  BY FreshFrame
<1>4. frames' \in Seq(Frames) /\ Len(frames') = 1 /\ frames'[1] = Frame(r)
  BY <1>1, <1>3
<1>5. Types'
  <2>1. Len(frames') <= MaxDepth
    BY <1>4, VmAssumption
  <2>2. runs' \in 0..MaxRuns
    BY <1>2, VmAssumption DEF StackInv, Types
  <2>. QED
    BY <1>2, <1>4, <2>1, <2>2 DEF StackInv, Types
<1>6. Returned'
  BY <1>2 DEF StackInv, Types, Returned
<1>7. Nested'
  <2>1. \A i \in 1..1 : i = 1
    OBVIOUS
  <2>2. Frame(r).base \in Nat
    BY <1>3 DEF Frames
  <2>3. \A i, j \in 1..Len(frames') : i <= j => frames'[i].base <= frames'[j].base
    BY <1>4, <2>1, <2>2
  <2>4. 1..(Len(frames') - 1) = {}
    BY <1>4
  <2>. QED
    BY <2>3, <2>4 DEF Nested
<1>8. Innermost'
  <2>1. Top' = Frame(r)
    BY <1>4 DEF Top
  <2>. QED
    BY <1>2, <1>3, <2>1 DEF Innermost, StackInv, Types
<1>. QED
  BY <1>5, <1>6, <1>7, <1>8 DEF StackInv

\* A call starts another on top of its operands, and waits.
LEMMA RuleStep ==
    ASSUME StackInv, RULE
    PROVE  StackInv' /\ Keeps
<1> DEFINE r == find_rule_idx_by_name(Instr.arg)
           f == [Top EXCEPT !.ip = NextIp]
           g == Frame(r)
           s == ShapeAt(NextIp)
<1>1. /\ Running /\ runs' = runs /\ Instr.op = "RULE" /\ Len(frames) < MaxDepth
      /\ stack' = stack /\ ret' = ret /\ frames # <<>>
      /\ frames' = Append([frames EXCEPT ![Len(frames)].ip = NextIp], g)
  BY DEF RULE, Op, Running
<1>2. r \in Rules /\ Pushes(Top.ip, 0, Numeric, {NextIp})
  BY <1>1, ConstantsFit, RuleIsFound
<1>3. g \in Frames /\ g.base = Len(stack) /\ Ready(g, stack)
  BY <1>2, FreshFrame
<1>4. /\ Top \in Frames /\ Top = frames[Len(frames)] /\ Len(frames) \in Nat \ {0}
      /\ frames \in Seq(Frames) /\ Top.base \in Nat /\ Types
  BY <1>1, InnermostCall DEF StackInv, Types
<1>5. /\ OwnShape \in Seq(SUBSET Operand) /\ Len(OwnShape) \in Nat
      /\ Len(stack) = Top.base + Len(OwnShape) /\ Len(stack) \in Nat
      /\ \A j \in 1..Len(OwnShape) : stack[Top.base + j] \in OwnShape[j]
  BY <1>1, Current
<1>6. /\ IsInstruction(NextIp) /\ Len(s) = Len(OwnShape) + 1 /\ Numeric \subseteq s[Len(OwnShape) + 1]
      /\ \A j \in 1..Len(OwnShape) : OwnShape[j] \subseteq s[j]
  <2>1. 0 \in 0..Len(OwnShape)
    BY <1>5
  <2>2. Under(OwnShape, 0) = OwnShape
    BY <1>5, <2>1, UnderPrefix
  <2>3. Flows(Append(OwnShape, Numeric), NextIp)
    BY <1>2, <2>2 DEF Pushes, OwnShape
  <2>4. \A q \in Seq(SUBSET Operand) : \A T :
           /\ Len(Append(q, T)) = Len(q) + 1 /\ Append(q, T)[Len(q) + 1] = T
           /\ \A i \in 1..Len(q) : Append(q, T)[i] = q[i]
    OBVIOUS
  <2>5. /\ Len(Append(OwnShape, Numeric)) = Len(OwnShape) + 1
        /\ Append(OwnShape, Numeric)[Len(OwnShape) + 1] = Numeric
        /\ \A i \in 1..Len(OwnShape) : Append(OwnShape, Numeric)[i] = OwnShape[i]
    BY <1>5, <2>4
  <2>. QED
    BY <1>5, <2>3, <2>5 DEF Flows
<1>7. NextIp \in Nat
  BY <1>6, ShapeType
<1>8. f \in Frames /\ f.base = Top.base /\ f.ip = NextIp
  BY <1>4, <1>7 DEF Frames
<1>9. /\ frames' \in Seq(Frames) /\ Len(frames') = Len(frames) + 1 /\ frames'[Len(frames) + 1] = g
      /\ frames'[Len(frames)] = f
      /\ \A i \in 1..(Len(frames) - 1) : frames'[i] = frames[i]
  <2> DEFINE h == [frames EXCEPT ![Len(frames)] = f]
  <2>1. frames' = Append(h, g)
    BY <1>1, <1>4
  <2>2. /\ h \in Seq(Frames) /\ Len(h) = Len(frames) /\ h[Len(frames)] = f
        /\ \A i \in 1..(Len(frames) - 1) : h[i] = frames[i]
    BY <1>4, <1>8
  <2> HIDE DEF h, f, g
  <2>3. /\ Append(h, g) \in Seq(Frames) /\ Len(Append(h, g)) = Len(frames) + 1
        /\ Append(h, g)[Len(frames) + 1] = g
        /\ \A i \in 1..Len(frames) : Append(h, g)[i] = h[i]
    BY <1>3, <2>2
  <2>. QED
    BY <1>4, <2>1, <2>2, <2>3
<1> HIDE DEF f, g, r
<1>10. Keeps
  BY <1>1, <1>5, <1>4 DEF Keeps
<1>11. Types'
  <2>1. Len(frames') <= MaxDepth
    BY <1>1, <1>4, <1>9, VmAssumption
  <2>. QED
    BY <1>1, <1>4, <1>9, <2>1 DEF Types
<1>12. Returned'
  BY <1>1 DEF StackInv, Returned
<1>13. Waits(f, stack)
  <2>1. Len(s) > 0 /\ Numeric \subseteq Nth(s, 1) /\ Len(s) - 1 = Len(OwnShape)
    <3>1. Len(s) - 1 + 1 = Len(OwnShape) + 1 /\ Len(s) > 0 /\ Len(s) - 1 = Len(OwnShape)
      BY <1>5, <1>6
    <3>. QED
      BY <1>6, <3>1 DEF Nth
  <2>2. \A j \in 1..Len(OwnShape) : stack[f.base + j] \in s[j]
    BY <1>5, <1>6, <1>8
  <2>. QED
    BY <1>6, <1>8, <2>1, <2>2 DEF Waits
<1>14. End(f) = g.base
  <2>1. \A b, l \in Nat : b + (l + 1) - 1 = b + l
    OBVIOUS
  <2>. QED
    BY <1>3, <1>4, <1>5, <1>6, <1>8, <2>1 DEF End
<1>15. Nested'
  <2>1. ASSUME NEW i \in 1..(Len(frames') - 1)
        PROVE  Waits(frames'[i], stack') /\ End(frames'[i]) = frames'[i + 1].base
    <3>1. CASE i = Len(frames)
      BY <1>1, <1>9, <1>13, <1>14, <3>1
    <3>2. CASE i \in 1..(Len(frames) - 1)
      <4>1. Waits(frames[i], stack) /\ End(frames[i]) = frames[i + 1].base
        BY <3>2 DEF StackInv, Nested
      <4>2. frames'[i] = frames[i]
        BY <1>9, <3>2
      <4>3. frames'[i + 1].base = frames[i + 1].base
        <5>1. CASE i + 1 = Len(frames)
          BY <1>4, <1>8, <1>9, <5>1
        <5>2. CASE i + 1 \in 1..(Len(frames) - 1)
          BY <1>9, <5>2
        <5>. QED
          BY <1>4, <3>2, <5>1, <5>2
      <4>. QED
        BY <1>1, <4>1, <4>2, <4>3
    <3>. QED
      BY <1>4, <1>9, <3>1, <3>2
  <2>2. ASSUME NEW i \in 1..Len(frames) PROVE frames'[i].base = frames[i].base
    <3>1. CASE i = Len(frames)
      BY <1>4, <1>8, <1>9, <3>1
    <3>2. CASE i \in 1..(Len(frames) - 1)
      BY <1>9, <3>2
    <3>. QED
      BY <1>4, <3>1, <3>2
  <2>3. ASSUME NEW i \in 1..Len(frames') PROVE frames'[i].base \in Nat
    <3>1. frames'[i] \in Frames
      BY <1>9
    <3>. QED
      BY <3>1 DEF Frames
  <2>4. ASSUME NEW i \in 1..Len(frames) PROVE frames'[i].base <= g.base
    <3>1. frames[i].base <= Top.base
      BY <1>4 DEF StackInv, Nested
    <3>2. frames'[i].base \in Nat /\ frames'[i].base = frames[i].base
      <4>1. i \in 1..Len(frames')
        BY <1>4, <1>9
      <4>. QED
        BY <2>2, <2>3, <4>1
    <3>. QED
      BY <1>3, <1>4, <1>5, <3>1, <3>2
  <2>5. ASSUME NEW i \in 1..Len(frames'), NEW j \in 1..Len(frames'), i <= j
        PROVE  frames'[i].base <= frames'[j].base
    <3>1. CASE j = Len(frames) + 1
      <4>1. CASE i = Len(frames) + 1
        BY <2>3, <3>1, <4>1
      <4>2. CASE i \in 1..Len(frames)
        BY <1>9, <2>4, <3>1, <4>2
      <4>. QED
        BY <1>4, <1>9, <4>1, <4>2
    <3>2. CASE j \in 1..Len(frames)
      <4>1. i \in 1..Len(frames)
        BY <1>4, <2>5, <3>2
      <4>2. frames[i].base <= frames[j].base
        BY <2>5, <3>2, <4>1 DEF StackInv, Nested
      <4>. QED
        BY <2>2, <3>2, <4>1, <4>2
    <3>. QED
      BY <1>4, <1>9, <3>1, <3>2
  <2>. QED
    BY <2>1, <2>5 DEF Nested
<1>16. Innermost'
  <2>1. Top' = g
    BY <1>9 DEF Top
  <2>2. ret'.on # TRUE
    BY <1>1 DEF Running
  <2>. QED
    BY <1>1, <1>3, <2>1, <2>2 DEF Innermost
<1>. QED
  BY <1>10, <1>11, <1>12, <1>15, <1>16 DEF StackInv

\* The innermost call gets what the rule it waited for returned.
LEMMA ReturnStep ==
    ASSUME StackInv, ReturnToRule
    PROVE  StackInv' /\ Keeps
<1> DEFINE s == ShapeAt(Top.ip)
<1>1. ret.on = TRUE /\ frames # <<>> /\ runs' = runs /\ Types
  BY DEF ReturnToRule, StackInv, Types
<1>2. /\ Waits(Top, stack) /\ End(Top) <= Len(stack)
      /\ ret.err = "SUCCESS" /\ ~ret.overflow => End(Top) = Len(stack)
  BY <1>1 DEF StackInv, Innermost
<1>3. /\ Top \in Frames /\ Top = frames[Len(frames)] /\ Len(frames) \in 1..Len(frames)
      /\ frames \in Seq(Frames) /\ Top.base \in Nat /\ Len(stack) \in Nat
      /\ stack \in Seq(Operand) /\ Len(stack) <= StackMax
  BY <1>1, InnermostCall DEF Types
<1>4. /\ IsInstruction(Top.ip) /\ Len(s) \in Nat /\ Len(s) > 0 /\ s \in Seq(SUBSET Operand)
      /\ Numeric \subseteq s[Len(s)]
      /\ \A j \in 1..(Len(s) - 1) : stack[Top.base + j] \in s[j]
  <2>1. IsInstruction(Top.ip) /\ Len(s) > 0 /\ Numeric \subseteq Nth(s, 1)
        /\ \A j \in 1..(Len(s) - 1) : stack[Top.base + j] \in s[j]
    BY <1>2 DEF Waits
  <2>2. Len(s) \in Nat /\ s \in Seq(SUBSET Operand)
    BY <2>1, ShapeType
  <2>3. Len(s) - 1 + 1 = Len(s)
    BY <2>2
  <2>. QED
    BY <2>1, <2>2, <2>3 DEF Nth
<1>5. Top.base <= Len(stack) /\ Len(stack) >= Top.base + Len(s) - 1
  BY <1>2, <1>3, <1>4 DEF End
<1>6. CASE \/ ret.err # "SUCCESS" /\ Fail(stack, ret.err)
           \/ ret.err = "SUCCESS" /\ Len(stack) >= StackMax /\ stack' = stack
              /\ Leave("SUCCESS", StackOverflow, TRUE)
  <2>1. /\ stack' = stack /\ frames' = SubSeq(frames, 1, Len(frames) - 1) /\ ret'.on = TRUE
        /\ ~(ret'.err = "SUCCESS" /\ ~ret'.overflow)
        /\ ret'.overflow => Len(stack) >= StackMax
    BY <1>6 DEF Fail, Leave
  <2>2. Keeps
    BY <1>5, <2>1 DEF Keeps
  <2>3. Returned'
    <3>1. ret'.overflow => Len(stack) = StackMax
      BY <1>3, <2>1, VmAssumption
    <3>. QED
      BY <2>1, <3>1 DEF Returned
  <2>4. StackInv'
    BY <1>1, <1>3, <2>1, <2>2, <2>3, Ends
  <2>. QED
    BY <2>2, <2>4
<1>7. CASE /\ ret.err = "SUCCESS" /\ Len(stack) < StackMax
           /\ stack' = Append(stack, Num(ret.result)) /\ ret' = NoReturn /\ frames' = frames
  <2>1. ~ret.overflow
    BY <1>1, <1>3, <1>7, VmAssumption DEF StackInv, Returned
  <2>2. End(Top) = Len(stack) /\ ret.result \in 0..(Word - 1)
    BY <1>1, <1>2, <1>7, <2>1 DEF StackInv, Returned
  <2>3. Num(ret.result) \in Numeric
    BY <2>2, NumNumeric
  <2>4. Num(ret.result) \in Operand
    BY <2>3 DEF Operand
  <2>5. /\ stack' \in Seq(Operand) /\ Len(stack') = Len(stack) + 1
        /\ stack'[Len(stack) + 1] = Num(ret.result)
        /\ \A i \in 1..Len(stack) : stack'[i] = stack[i]
    <3>1. \A q \in Seq(Operand), x \in Operand :
             /\ Append(q, x) \in Seq(Operand) /\ Len(Append(q, x)) = Len(q) + 1
             /\ Append(q, x)[Len(q) + 1] = x
             /\ \A i \in 1..Len(q) : Append(q, x)[i] = q[i]
      OBVIOUS
    <3>. QED
      BY <1>3, <1>7, <2>4, <3>1
  <2>6. Keeps
    <3>1. Top.base <= Len(stack')
      BY <1>3, <1>5, <2>5
    <3>2. \A i \in 1..Top.base : i \in 1..Len(stack)
      BY <1>3, <1>5
    <3>. QED
      BY <2>5, <3>1, <3>2 DEF Keeps
  <2>7. Len(stack') = Top.base + Len(s) /\ Len(stack) + 1 = Top.base + Len(s)
    <3>1. \A b, l, n \in Nat : b + l - 1 = n => n + 1 = b + l
      OBVIOUS
    <3>2. Top.base + Len(s) - 1 = Len(stack)
      BY <2>2 DEF End
    <3>. QED
      BY <1>3, <1>4, <2>5, <3>1, <3>2
  <2>8. Ready(Top, stack')
    <3>1. ASSUME NEW j \in 1..Len(s) PROVE stack'[Top.base + j] \in s[j]
      <4>1. CASE j = Len(s)
        BY <1>4, <2>3, <2>5, <2>7, <4>1
      <4>2. CASE j \in 1..(Len(s) - 1)
        <5>1. Top.base + j \in 1..Len(stack)
          <6>1. \A b, l, n \in Nat : \A k \in 1..(l - 1) : n + 1 = b + l => b + k \in 1..n
            OBVIOUS
          <6>. QED
            BY <1>3, <1>4, <2>7, <4>2, <6>1
        <5>. QED
          BY <1>4, <2>5, <4>2, <5>1
      <4>. QED
        BY <1>4, <4>1, <4>2
    <3>. QED
      BY <1>4, <2>7, <3>1 DEF Ready
  <2>9. Len(stack') <= StackMax
    BY <1>3, <1>7, <2>5, VmAssumption
  <2>10. frames' = [frames EXCEPT ![Len(frames)] = Top] /\ ret'.on = FALSE
    BY <1>3, <1>7 DEF NoReturn
  <2>11. StackInv'
    BY <1>1, <1>3, <2>5, <2>6, <2>8, <2>9, <2>10, GoesOn
  <2>. QED
    BY <2>6, <2>11
<1>. QED
  BY <1>6, <1>7 DEF ReturnToRule

\* ac_vm_exec has taken the result.
LEMMA ReturnToExecStep ==
    ASSUME StackInv, ReturnToExec
    PROVE  StackInv'
<1>1. frames = <<>> /\ frames' = <<>> /\ stack' = stack /\ runs' = runs /\ ret'.on = FALSE
  BY DEF ReturnToExec, NoReturn
<1>2. Types' /\ Returned'
  BY <1>1 DEF StackInv, Types, Returned
<1>3. Nested' /\ Innermost'
  BY <1>1 DEF StackInv, Nested, Innermost
<1>. QED
  BY <1>2, <1>3 DEF StackInv

-----------------------------------------------------------------------------
(* The invariant, and what follows from it                                   *)

\* An empty stack without calls is in order.
LEMMA StackInit ==
    ASSUME Init
    PROVE  StackInv
<1>1. stack \in Seq(Operand) /\ Len(stack) = 0 /\ frames \in Seq(Frames) /\ Len(frames) = 0
  BY DEF Init
<1>2. Types
  <2>1. 0 <= StackMax /\ 0 <= MaxDepth /\ 0 \in 0..MaxRuns
    BY VmAssumption
  <2>. QED
    BY <1>1, <2>1 DEF Init, NoReturn, Types
<1>. QED
  BY <1>1, <1>2 DEF Init, NoReturn, StackInv, Returned, Nested, Innermost

\* A step keeps the invariant, and what lay below the innermost call.
LEMMA StackNext ==
    ASSUME StackInv, Next
    PROVE  StackInv' /\ (frames # <<>> => Keeps)
<1>1. CASE HLT
  BY <1>1, HaltStep
<1>2. CASE ADD_SUB_MUL
  BY <1>2, ArithmeticStep
<1>3. CASE DIV_MOD
  BY <1>3, DivisionStep
<1>4. CASE SHL_SHR
  BY <1>4, ShiftStep
<1>5. CASE AND_OR_XOR
  BY <1>5, BitwiseStep
<1>6. CASE COMPARE
  BY <1>6, CompareStep
<1>7. CASE NOT_NEG_NOTL
  BY <1>7, UnaryStep
<1>8. CASE JFALSE_JTRUE
  BY <1>8, ConditionalJumpStep
<1>9. CASE JMP
  BY <1>9, JumpStep
<1>10. CASE PUSHINT_BOOL_STRING
  BY <1>10, ConstantStep
<1>11. CASE PUSHMODULE
  BY <1>11, ModuleStep
<1>12. CASE OBJECT
  BY <1>12, ObjectStep
<1>13. CASE STREQ_STRNE
  BY <1>13, StringEqualStep
<1>14. CASE STRING_TEST
  BY <1>14, StringTestStep
<1>15. CASE MATCHES
  BY <1>15, MatchStep
<1>16. CASE STRLEN
  BY <1>16, LengthStep
<1>17. CASE CALL
  BY <1>17, CallStep
<1>18. CASE FIELD
  BY <1>18, FieldStep
<1>19. CASE INDEX
  BY <1>19, IndexStep
<1>20. CASE LOAD
  BY <1>20, LoadStep
<1>21. CASE STORE
  BY <1>21, StoreStep
<1>22. CASE POP
  BY <1>22, PopStep
<1>23. CASE RULE
  BY <1>23, RuleStep
<1>24. CASE ReturnToRule
  BY <1>24, ReturnStep
<1>25. CASE ReturnToExec
  BY <1>25, ReturnToExecStep DEF ReturnToExec
<1>26. CASE StartRule
  BY <1>26, StartStep DEF StartRule
<1>. QED
  BY <1>1, <1>2, <1>3, <1>4, <1>5, <1>6, <1>7, <1>8, <1>9, <1>10, <1>11, <1>12, <1>13, <1>14,
     <1>15, <1>16, <1>17, <1>18, <1>19, <1>20, <1>21, <1>22, <1>23, <1>24, <1>25, <1>26
     DEF Next, Step

\* The calls lie on the stack one above the other, and every call that waits or
\* runs has operands of the shape its code expects, however rules call each
\* other, whatever fails and whatever failed rules have left behind.
THEOREM StackCorrect == Spec => []StackInv
<1>1. Init => StackInv
  BY StackInit
<1>2. StackInv /\ [Next]_vars => StackInv'
  <2>1. StackInv /\ UNCHANGED vars => StackInv'
    BY DEF vars, StackInv, Types, Returned, Nested, Innermost, Waits, Ready, End, Top
  <2>. QED
    BY <2>1, StackNext
<1>. QED
  BY <1>1, <1>2, PTL DEF Spec

\* The instruction a call is at, and where its operands start.
LEMMA CallsAreThere ==
    ASSUME StackInv, NEW i \in 1..Len(frames)
    PROVE  IsInstruction(frames[i].ip) /\ frames[i].base \in Nat /\ frames[i].base <= Len(stack)
<1>1. /\ frames # <<>> /\ Types /\ i \in Nat
      /\ Len(frames) \in Nat /\ Len(frames) \in 1..Len(frames) /\ Top = frames[Len(frames)]
      /\ Top.base \in Nat /\ Len(stack) \in Nat /\ frames \in Seq(Frames)
  <2>1. frames # <<>> /\ Types
    BY DEF StackInv, Types
  <2>. QED
    BY <2>1, InnermostCall DEF Types
<1>2. IsInstruction(Top.ip) /\ Top.base <= Len(stack)
  <2>1. CASE ret.on
    <3>1. Waits(Top, stack) /\ End(Top) <= Len(stack)
      BY <1>1, <2>1 DEF StackInv, Innermost
    <3>2. IsInstruction(Top.ip) /\ Len(ShapeAt(Top.ip)) > 0 /\ Len(ShapeAt(Top.ip)) \in Nat
      BY <3>1, ShapeType DEF Waits
    <3>. QED
      BY <1>1, <3>1, <3>2 DEF End
  <2>2. CASE ~ret.on
    <3>1. Ready(Top, stack)
      BY <1>1, <2>2 DEF StackInv, Innermost
    <3>2. IsInstruction(Top.ip) /\ Len(ShapeAt(Top.ip)) \in Nat
      BY <3>1, ShapeType DEF Ready
    <3>. QED
      BY <1>1, <3>1, <3>2 DEF Ready
  <2>. QED
    BY <2>1, <2>2
<1>3. frames[i] \in Frames /\ frames[i].base <= Top.base
  BY <1>1 DEF StackInv, Nested
<1>4. frames[i].base \in Nat
  BY <1>3 DEF Frames
<1>5. IsInstruction(frames[i].ip)
  <2>1. CASE i = Len(frames)
    BY <1>1, <1>2, <2>1
  <2>2. CASE i \in 1..(Len(frames) - 1)
    BY <2>2 DEF StackInv, Nested, Waits
  <2>. QED
    BY <1>1, <2>1, <2>2
<1>. QED
  BY <1>1, <1>2, <1>3, <1>4, <1>5

\* The stack and the calls keep to their types and bounds.
THEOREM TypeCorrect == Spec => []TypeOK
<1>1. StackInv => TypeOK
  <2> SUFFICES ASSUME StackInv PROVE TypeOK
    OBVIOUS
  <2>1. /\ stack \in Seq(Operand) /\ Len(stack) \in Nat /\ Len(stack) <= StackMax /\ StackMax \in Nat
        /\ frames \in Seq(Frames) /\ Len(frames) \in Nat /\ Len(frames) <= MaxDepth
        /\ MaxDepth \in Nat /\ runs \in 0..MaxRuns
    BY VmAssumption DEF StackInv, Types
  <2>2. Len(stack) \in 0..StackMax /\ Len(frames) \in 0..MaxDepth
    BY <2>1
  <2>3. ASSUME NEW i \in 1..Len(stack) PROVE stack[i].k \in {"num", "str", "obj"}
    <3>1. stack[i] \in Operand
      BY <2>1
    <3>. QED
      BY <3>1 DEF Operand, Numeric
  <2>4. ASSUME NEW i \in 1..Len(frames)
        PROVE  /\ frames[i].rule \in Rules
               /\ frames[i].ip \in 0..(Len(Code) - 1)
               /\ frames[i].base \in 0..StackMax
    <3>1. frames[i] \in Frames
      BY <2>1
    <3>2. frames[i].rule \in Rules
      BY <3>1 DEF Frames
    <3>3. IsInstruction(frames[i].ip) /\ frames[i].base \in Nat /\ frames[i].base <= Len(stack)
      BY CallsAreThere
    <3>4. frames[i].base \in 0..StackMax
      BY <2>1, <3>3
    <3>. QED
      BY <3>2, <3>3, <3>4 DEF IsInstruction
  <2>. QED
    BY <2>1, <2>2, <2>3, <2>4 DEF TypeOK
<1>. QED
  BY <1>1, StackCorrect, PTL

\* A rule pops only operands that it pushed itself.
THEOREM OwnOperandsCorrect == Spec => []PopsOwnOperands
<1>1. StackInv => PopsOwnOperands
  <2> SUFFICES ASSUME StackInv, Running
               PROVE  /\ Owns(0)
                      /\ Instr.op \in UnaryOps \cup {"OBJECT", "FIELD", "STRLEN", "POP"} => Owns(1)
                      /\ Instr.op \in NumberOps \cup StringOps \cup {"INDEX"} => Owns(2)
                      /\ Instr.op = "MATCHES" => Owns(3)
                      /\ Instr.op = "CALL" => Owns(2) /\ Owns(2 + Pop2.v)
    BY DEF PopsOwnOperands
  <2>1. Len(stack) = Top.base + Len(OwnShape) /\ Top.base \in Nat /\ Len(OwnShape) \in Nat
    BY Current
  <2>2. ASSUME NEW n \in Nat, n <= Len(OwnShape) PROVE Owns(n)
    BY <2>1, <2>2 DEF Owns
  <2>3. Owns(0)
    BY <2>1, <2>2
  <2>4. Instr.op \in UnaryOps \cup {"OBJECT", "FIELD", "STRLEN", "POP"} => 1 <= Len(OwnShape)
    <3>1. Instr.op = "HLT" => 1 <= Len(OwnShape)
      <4>1. Instr.op = "HLT" => Len(OwnShape) = 1
        BY HltFits
      <4>. QED
        BY <4>1
    <3>2. Instr.op \in {"NOT", "NEG", "NOTL"} => 1 <= Len(OwnShape)
      BY UnaryFits
    <3>3. Instr.op \in {"JFALSE", "JTRUE"} => 1 <= Len(OwnShape)
      BY JumpsFit
    <3>4. Instr.op \in {"OBJECT", "FIELD", "STRLEN"} => 1 <= Len(OwnShape)
      BY ObjectFits, FieldFits, StrlenFits
    <3>5. Instr.op \in {"STORE", "POP"} => 1 <= Len(OwnShape)
      BY DropsFit
    <3>. QED
      BY <3>1, <3>2, <3>3, <3>4, <3>5 DEF UnaryOps
  <2>5. Instr.op \in NumberOps \cup StringOps \cup {"INDEX"} => 2 <= Len(OwnShape)
    BY NumbersFit, StringsFit, IndexFits
  <2>6. Instr.op = "MATCHES" => 3 <= Len(OwnShape)
    BY MatchesFits
  <2>7. Instr.op = "CALL" => /\ 2 <= Len(OwnShape) /\ 2 + Pop2.v \in Nat
                             /\ 2 + Pop2.v <= Len(OwnShape)
    <3> SUFFICES ASSUME Instr.op = "CALL"
                 PROVE  2 <= Len(OwnShape) /\ 2 + Pop2.v \in Nat /\ 2 + Pop2.v <= Len(OwnShape)
      OBVIOUS
    <3>1. Pop2.v \in Nat
      BY CallFits, NumericValue
    <3>2. 2 <= Len(OwnShape) /\ 2 + Pop2.v <= Len(OwnShape)
      BY CallFits DEF Pushes, OwnShape
    <3>. QED
      BY <3>1, <3>2
  <2>8. 1 \in Nat /\ 2 \in Nat /\ 3 \in Nat
    OBVIOUS
  <2>. QED
    BY <2>2, <2>3, <2>4, <2>5, <2>6, <2>7, <2>8
<1>. QED
  BY <1>1, StackCorrect, PTL

\* An instruction reads each operand as what it was pushed as.
THEOREM KindsCorrect == Spec => []OperandsHaveTheirKind
<1>1. StackInv => OperandsHaveTheirKind
  <2> SUFFICES ASSUME StackInv, Running PROVE OperandsHaveTheirKind
    BY DEF OperandsHaveTheirKind
  <2>1. Len(stack) \in Nat
    BY Current
  <2>2. /\ Len(stack) - 1 + 1 = Len(stack) /\ Len(stack) - 2 + 1 = Len(stack) - 1
        /\ Len(stack) - 3 + 1 = Len(stack) - 2
    BY <2>1
  <2>3. ASSUME NEW k, Pop1.k = k PROVE OnTop(<<k>>)
    BY <2>2, <2>3 DEF OnTop, Pop1
  <2>4. ASSUME NEW k, NEW l, Pop1.k = k, Pop2.k = l PROVE OnTop(<<k, l>>)
    BY <2>2, <2>4 DEF OnTop, Pop1, Pop2
  <2>5. ASSUME NEW k, NEW l, NEW m, Pop1.k = k, Pop2.k = l, stack[Len(stack) - 2].k = m
        PROVE  OnTop(<<k, l, m>>)
    BY <2>2, <2>5 DEF OnTop, Pop1, Pop2
  <2>6. Instr.op \in NumberOps => OnTop(<<"num", "num">>)
    BY <2>4, NumbersFit, NumericValue
  <2>7. Instr.op \in StringOps => OnTop(<<"str", "str">>)
    BY <2>4, StringsFit
  <2>8. Instr.op \in UnaryOps => OnTop(<<"num">>)
    <3>1. Instr.op \in UnaryOps => Pop1 \in Numeric
      BY HltFits, UnaryFits, JumpsFit, DropsFit DEF UnaryOps
    <3>. QED
      BY <2>3, <3>1, NumericValue
  <2>9. Instr.op \in {"OBJECT", "FIELD"} => OnTop(<<"obj">>)
    BY <2>3, ObjectFits, FieldFits
  <2>10. Instr.op = "STRLEN" => OnTop(<<"str">>)
    BY <2>3, StrlenFits
  <2>11. Instr.op = "INDEX" => OnTop(<<"num", "obj">>)
    BY <2>4, IndexFits, NumericValue
  <2>12. Instr.op = "CALL" => OnTop(<<"obj", "num">>)
    BY <2>4, CallFits, NumericValue
  <2>13. Instr.op = "MATCHES" => OnTop(<<"num", "str", "str">>)
    BY <2>5, MatchesFits, NumericValue
  <2>. QED
    BY <2>6, <2>7, <2>8, <2>9, <2>10, <2>11, <2>12, <2>13 DEF OperandsHaveTheirKind
<1>. QED
  BY <1>1, StackCorrect, PTL

\* Execution stays in the code and on instructions.
THEOREM InstructionCorrect == Spec => []AtInstruction
<1>1. StackInv => AtInstruction
  <2> SUFFICES ASSUME StackInv, Running PROVE Top.ip < Len(Code) /\ Instr.op # "ARG"
    BY DEF AtInstruction
  <2>1. Top.ip < Len(Code)
    BY Current, ShapeType
  <2>2. Instr.op # "ARG"
    BY Current DEF Fits, NumberOps, StringOps, Instr
  <2>. QED
    BY <2>1, <2>2
<1>. QED
  BY <1>1, StackCorrect, PTL

\* What lay on the stack before a rule started stays there.
THEOREM BelowBaseCorrect == Spec => BelowBaseUntouched
<1>1. StackInv /\ [Next]_vars =>
         [frames # <<>> => /\ Top.base <= Len(stack')
                           /\ \A i \in 1..Top.base : stack'[i] = stack[i]]_vars
  BY StackNext DEF Keeps
<1>. QED
  BY <1>1, StackCorrect, PTL DEF Spec, BelowBaseUntouched

\* A rule that reaches HLT has used up its operands.
THEOREM HaltCorrect == Spec => HaltLeavesNothing
<1>1. StackInv /\ [Next]_vars => [Running /\ Instr.op = "HLT" => Len(stack') = Top.base]_vars
  <2> SUFFICES ASSUME StackInv, Next, Running, Instr.op = "HLT"
               PROVE  Len(stack') = Top.base
    OBVIOUS
  <2>1. HLT
    BY DEF Next, Step, Running, Op, ADD_SUB_MUL, DIV_MOD, SHL_SHR, AND_OR_XOR, COMPARE,
           NOT_NEG_NOTL, JFALSE_JTRUE, JMP, PUSHINT_BOOL_STRING, PUSHMODULE, OBJECT,
           STREQ_STRNE, STRING_TEST, MATCHES, STRLEN, CALL, FIELD, INDEX, LOAD, STORE, POP,
           RULE, ReturnToRule, ReturnToExec, StartRule
  <2>2. stack' = Below(1)
    BY <2>1 DEF HLT
  <2>3. Len(OwnShape) = 1
    BY HltFits
  <2>4. 1 \in 0..Len(OwnShape)
    BY <2>3
  <2>5. Len(Below(1)) = Len(stack) - 1
    BY <2>4, Popped
  <2>6. Len(stack) = Top.base + 1 /\ Top.base \in Nat
    BY <2>3, Current
  <2>. QED
    BY <2>2, <2>5, <2>6
<1>. QED
  BY <1>1, StackCorrect, PTL DEF Spec, HaltLeavesNothing
=============================================================================
