--------------------------- MODULE CompilerProofs ---------------------------
(***************************************************************************)
(* What is proved of the compiler object for all files, modules and bounds.*)
(***************************************************************************)
EXTENDS Compiler, FiniteSetTheorems, SequenceTheorems, WellFoundedInduction, TLAPS

Statement == Import \cup Rule \cup Sequence

\* A statement has a name, and the fields of its kind.
LEMMA StatementKinds ==
    ASSUME NEW s \in Statement
    PROVE  /\ s.name \in STRING
           /\ s.kind \in {"import", "rule", "sequence"}
           /\ s.kind = "rule" => s \in Rule
           /\ s.kind = "sequence" => s \in Sequence
BY DEF Statement, Import, Rule, Sequence

\* An element of a sequence is a rule or the name of one.
LEMMA ElementKinds ==
    ASSUME NEW s \in Sequence, NEW k \in 1..Len(s.rules)
    PROVE  /\ Len(s.rules) \in Nat
           /\ s.rules[k].name \in STRING
           /\ s.rules[k].kind \in {"rule", "external"}
           /\ s.rules[k].kind = "rule" => s.rules[k] \in Rule
<1>1. s.rules \in Seq(Rule \cup External)
  BY DEF Sequence
<1>2. s.rules[k] \in Rule \cup External /\ Len(s.rules) \in Nat
  BY <1>1
<1>. QED
  BY <1>2 DEF Rule, External

\* The fields of a rule.
LEMMA RuleFields ==
    ASSUME NEW r \in Rule
    PROVE  /\ r.name \in STRING /\ r.event \in STRING
           /\ r.private \in BOOLEAN /\ r.anonymous \in BOOLEAN /\ r.typed \in BOOLEAN
           /\ r.refs \in SUBSET STRING /\ r.bare \in SUBSET STRING /\ r.strings \in SUBSET STRING
BY DEF Rule

\* The statement that the loops stand at.
LEMMA Here ==
    ASSUME TypeOK, file <= Len(sources), stmt <= Len(Statements)
    PROVE  /\ file \in 1..Len(sources) /\ stmt \in 1..Len(Statements) /\ Len(sources) \in Nat
           /\ Len(Statements) \in Nat
           /\ sources[file] \in Files /\ Body[sources[file]] \in Seq(Statement)
           /\ Stmt \in Statement
           /\ <<file, stmt>> \in Position
<1>1. /\ sources \in Seq(Files) /\ Len(sources) \in Nat /\ Len(sources) <= MaxSources
      /\ MaxSources \in Nat
      /\ file \in Nat /\ file >= 1 /\ stmt \in Nat \ {0} /\ stmt >= 1
  BY CompilerAssumption DEF TypeOK
<1>2. file \in 1..Len(sources) /\ sources[file] \in Files
  BY <1>1
<1>3. Body[sources[file]] \in Seq(Statement)
  BY <1>2, CompilerAssumption DEF Statement
<1>4. Len(Statements) \in Nat /\ stmt \in 1..Len(Statements) /\ Stmt \in Statement
  BY <1>1, <1>3 DEF Statements, Stmt
<1>. QED
  BY <1>1, <1>2, <1>3, <1>4 DEF Position

\* A step at a statement of a kind has it within its file, with the fields of
\* its kind.
LEMMA AtIts ==
    ASSUME TypeOK, NEW phase, NEW kind, AtStatement(phase, kind)
    PROVE  /\ pc = phase /\ file <= Len(sources) /\ stmt <= Len(Statements)
           /\ file \in 1..Len(sources) /\ stmt \in 1..Len(Statements)
           /\ Stmt.name \in STRING /\ Stmt.kind = kind
           /\ kind = "rule" => /\ Stmt \in Rule /\ Stmt.event \in STRING
                               /\ Stmt.private \in BOOLEAN
           /\ kind = "sequence" => Stmt \in Sequence
<1>1. /\ pc = phase /\ file <= Len(sources) /\ stmt <= Len(Statements) /\ Stmt.kind = kind
  BY DEF AtStatement, Stmt
<1>2. Stmt \in Statement /\ file \in 1..Len(sources) /\ stmt \in 1..Len(Statements)
  BY <1>1, Here
<1> HIDE DEF Stmt
<1>. QED
  BY <1>1, <1>2, StatementKinds, RuleFields

\* What a name stands for in the environment.
LEMMA ScopedItem ==
    ASSUME TypeOK, file \in 1..Len(sources), NEW name \in STRING, NEW event \in STRING,
           NEW type \in {"rule", "sequence", "import"}
    PROVE  /\ Item(type, event) \in Scoped
           /\ Item(type, event).type = type /\ Item(type, event).src = sources[file]
           /\ \A n \in DOMAIN Extend(name, Item(type, event)) :
                 n \in STRING /\ Extend(name, Item(type, event))[n] \in Scoped
           /\ DOMAIN Extend(name, Item(type, event)) = DOMAIN env \cup {name}
           /\ Extend(name, Item(type, event))[name] = Item(type, event)
           /\ \A n \in DOMAIN env \ {name} : Extend(name, Item(type, event))[n] = env[n]
<1>1. sources[file] \in Files
  BY DEF TypeOK
<1>2. /\ Item(type, event) \in Scoped
      /\ Item(type, event).type = type /\ Item(type, event).src = sources[file]
  BY <1>1 DEF Item, Scoped
<1> HIDE DEF Item, Scoped
<1>. QED
  BY <1>2 DEF Extend, TypeOK

\* The verdict adds the statement to those refused, or nothing.
LEMMA VerdictType ==
    ASSUME TypeOK, NEW ok, Verdict(ok), pc = "check", file <= Len(sources), stmt <= Len(Statements)
    PROVE  /\ rejected' \subseteq Position /\ stmt' \in Nat \ {0}
           /\ UNCHANGED <<front, done, tables, pc, call, file, indices, err>>
<1>1. <<file, stmt>> \in Position
  BY Here
<1>2. rejected' = rejected \/ rejected' = rejected \cup {<<file, stmt>>}
  BY DEF Verdict
<1>3. stmt' = stmt + 1 /\ UNCHANGED <<front, done, tables, pc, call, file, indices, err>>
  BY DEF Verdict
<1>4. rejected \subseteq Position /\ stmt \in Nat \ {0}
  BY DEF TypeOK
<1> HIDE DEF Position
<1>. QED
  BY <1>1, <1>2, <1>3, <1>4

-----------------------------------------------------------------------------
(* Type correctness *)

\* A new compiler has the types of its variables.
LEMMA InitType == Init => TypeOK
<1> SUFFICES ASSUME Init PROVE TypeOK
  OBVIOUS
<1>1. /\ <<>> \in Seq(Files) /\ <<>> \in Seq(modules) /\ <<>> \in Seq(RuleRecord)
      /\ <<>> \in Seq(SequenceRecord) /\ <<>> \in Seq(Nat \ {0}) /\ Len(<<>>) = 0
  BY EmptySeq
<1>2. /\ sources = <<>> /\ module_table = <<>> /\ rule_table = <<>> /\ sequence_table = <<>>
      /\ indices = <<>>
  BY DEF Init
<1>3. /\ file \in 1..(MaxSources + 1) /\ Len(<<>>) <= MaxSources /\ DOMAIN env = {}
      /\ module_name \in STRING /\ modules \subseteq Defaults \cup Custom
  BY CompilerAssumption DEF Init
<1>4. /\ parsed = FALSE /\ locked = FALSE /\ done = FALSE
      /\ privates = {} /\ rejected = {} /\ strings = {}
      /\ pc = "idle" /\ call = "compile" /\ stmt = 1 /\ err = "SUCCESS"
  BY DEF Init
<1> HIDE DEF Init, Position, RuleRecord, SequenceRecord
<1>5. /\ sources \in Seq(Files) /\ Len(sources) <= MaxSources
      /\ module_table \in Seq(modules) /\ rule_table \in Seq(RuleRecord)
      /\ sequence_table \in Seq(SequenceRecord) /\ indices \in Seq(Nat \ {0})
  BY <1>1, <1>2, <1>3
<1>6. parsed \in BOOLEAN /\ locked \in BOOLEAN /\ done \in BOOLEAN
  BY <1>4
<1>7. privates \subseteq STRING /\ rejected \subseteq Position /\ strings \subseteq STRING
  BY <1>4
<1>8. /\ pc \in {"idle", "check", "compile", "crashed"} /\ call \in {"check", "compile"}
      /\ stmt \in Nat \ {0} /\ err \in Errors
  BY <1>4 DEF Errors
<1>. QED
  BY <1>3, <1>5, <1>6, <1>7, <1>8 DEF TypeOK

\* The calls of the API that leave the program idle.
LEMMA IdleType ==
    ASSUME TypeOK,
           \/ \E m \in Custom : ac_compiler_include_module(m)
           \/ \E f \in Files : ac_compiler_add_file(f)
           \/ ac_compiler_build_ast \/ CompileRefused
    PROVE  TypeOK'
<1> USE DEF front, scope, tables
<1>1. CASE \E m \in Custom : ac_compiler_include_module(m)
  <2>1. PICK m \in Custom : ac_compiler_include_module(m)
    BY <1>1
  <2>2. module_table' \in Seq(modules')
    BY <2>1 DEF ac_compiler_include_module, TypeOK
  <2>. QED
    BY <2>1, <2>2 DEF ac_compiler_include_module, TypeOK
<1>2. CASE \E f \in Files : ac_compiler_add_file(f)
  <2>1. PICK f \in Files : ac_compiler_add_file(f)
    BY <1>2
  <2>2. sources' \in Seq(Files) /\ Len(sources') = Len(sources) + 1 /\ Len(sources') <= MaxSources
    BY <2>1, CompilerAssumption DEF ac_compiler_add_file, TypeOK
  <2>. QED
    BY <2>1, <2>2 DEF ac_compiler_add_file, TypeOK
<1>3. CASE ac_compiler_build_ast
  <2>1. locked' \in BOOLEAN /\ parsed' \in BOOLEAN /\ err' \in Errors
    BY <1>3 DEF ac_compiler_build_ast, TypeOK, Errors
  <2>. QED
    BY <1>3, <2>1 DEF ac_compiler_build_ast, TypeOK
<1>4. CASE CompileRefused
  <2>1. err' \in Errors
    BY <1>4, Zenon DEF CompileRefused, Errors
  <2>. QED
    BY <1>4, <2>1 DEF CompileRefused, TypeOK
<1>. QED
  BY <1>1, <1>2, <1>3, <1>4

\* The check of every file, statement by statement.
LEMMA CheckType ==
    ASSUME TypeOK,
           \/ ac_compiler_check_ast \/ ac_compiler_compile
           \/ checker_import \/ checker_check_rule \/ checker_check_sequence
           \/ EndOfCheckedFile \/ EndOfCheck
    PROVE  TypeOK'
<1> USE DEF front, scope, tables
<1>1. CASE ac_compiler_check_ast \/ ac_compiler_compile
  <2>1. 1 \in 1..(MaxSources + 1)
    BY CompilerAssumption
  <2>2. /\ pc' = "check" /\ call' \in {"check", "compile"} /\ file' = 1 /\ stmt' = 1
        /\ privates' = {} /\ rejected' = {} /\ err' \in Errors
        /\ locked' \in BOOLEAN /\ parsed' \in BOOLEAN
    BY <1>1 DEF ac_compiler_check_ast, ac_compiler_compile, StartCheck, TypeOK, Errors
  <2>3. UNCHANGED <<sources, modules, done, env, strings, module_table, rule_table,
                    sequence_table, module_name, indices>>
    BY <1>1 DEF ac_compiler_check_ast, ac_compiler_compile
  <2>. QED
    BY <2>1, <2>2, <2>3 DEF TypeOK
<1>2. ASSUME NEW ok, Verdict(ok), pc = "check", file <= Len(sources), stmt <= Len(Statements),
             \A n \in DOMAIN env' : n \in STRING /\ env'[n] \in Scoped,
             privates' \subseteq STRING
      PROVE  TypeOK'
  <2>1. /\ rejected' \subseteq Position /\ stmt' \in Nat \ {0}
        /\ UNCHANGED <<front, done, tables, pc, call, file, indices, err>>
    BY <1>2, VerdictType
  <2>. QED
    BY <1>2, <2>1 DEF TypeOK
<1>3. CASE checker_import
  <2>1. Stmt.name \in STRING /\ NoName \in STRING /\ file \in 1..Len(sources)
    BY <1>3, AtIts, CompilerAssumption DEF checker_import
  <2>2. \A n \in DOMAIN env' : n \in STRING /\ env'[n] \in Scoped
    BY <1>3, <2>1, ScopedItem DEF checker_import, TypeOK
  <2>. QED
    BY <1>2, <1>3, <2>2 DEF checker_import, AtStatement, TypeOK
<1>4. CASE checker_check_rule
  <2>1. Stmt.name \in STRING /\ Stmt.event \in STRING /\ file \in 1..Len(sources)
    BY <1>4, AtIts DEF checker_check_rule
  <2>2. CASE Stmt.name \in DOMAIN env
    BY <1>2, <1>4, <2>2 DEF checker_check_rule, AtStatement, TypeOK
  <2>3. CASE Stmt.name \notin DOMAIN env
    <3>1. /\ env' = Extend(Stmt.name, Item("rule", Stmt.event))
          /\ Verdict(check_body(Stmt, env')) /\ AtStatement("check", "rule")
          /\ privates' \subseteq privates \cup {Stmt.name}
      BY <1>4, <2>3 DEF checker_check_rule
    <3>2. \A n \in DOMAIN env' : n \in STRING /\ env'[n] \in Scoped
      BY <2>1, <3>1, ScopedItem
    <3>3. privates' \subseteq STRING
      BY <2>1, <3>1 DEF TypeOK
    <3>. QED
      BY <1>2, <3>1, <3>2, <3>3 DEF AtStatement
  <2>. QED
    BY <2>2, <2>3
<1>5. CASE checker_check_sequence
  <2>1. Stmt.name \in STRING /\ NoName \in STRING /\ file \in 1..Len(sources)
    BY <1>5, AtIts, CompilerAssumption DEF checker_check_sequence
  <2>2. \A n \in DOMAIN env' : n \in STRING /\ env'[n] \in Scoped
    <3>1. env' = env \/ env' = Extend(Stmt.name, Item("sequence", NoName))
      BY <1>5 DEF checker_check_sequence
    <3>2. \A n \in DOMAIN env : n \in STRING /\ env[n] \in Scoped
      BY DEF TypeOK
    <3>3. \A n \in DOMAIN Extend(Stmt.name, Item("sequence", NoName)) :
             n \in STRING /\ Extend(Stmt.name, Item("sequence", NoName))[n] \in Scoped
      BY <2>1, ScopedItem
    <3>. QED
      BY <3>1, <3>2, <3>3
  <2>. QED
    BY <1>2, <1>5, <2>2 DEF checker_check_sequence, AtStatement, TypeOK
<1>6. CASE EndOfCheckedFile
  <2>1. \A n \in DOMAIN env' : n \in STRING /\ env'[n] \in Scoped
    BY <1>6 DEF EndOfCheckedFile, TypeOK
  <2>2. file' \in 1..(MaxSources + 1)
    BY <1>6, CompilerAssumption DEF EndOfCheckedFile, TypeOK
  <2>. QED
    BY <1>6, <2>1, <2>2 DEF EndOfCheckedFile, TypeOK, Errors
<1>7. CASE EndOfCheck
  <2>1. 1 \in 1..(MaxSources + 1)
    BY CompilerAssumption
  <2>2. /\ pc' \in {"compile", "idle"} /\ done' \in BOOLEAN /\ file' = 1 /\ stmt' = 1
        /\ UNCHANGED <<front, scope, tables, call, indices, err>>
    BY <1>7 DEF EndOfCheck, TypeOK
  <2>. QED
    BY <2>1, <2>2 DEF TypeOK
<1>. QED
  BY <1>1, <1>3, <1>4, <1>5, <1>6, <1>7

\* A nonempty set of numbers has a least one.
LEMMA LeastNumber ==
    ASSUME NEW S \in SUBSET Nat, S # {}
    PROVE  \E i \in S : \A j \in S : i <= j
<1> DEFINE less == OpToRel(<, Nat)
<1>1. PICK i \in S : \A j \in S : ~ (<<j, i>> \in less)
  BY WFMin, NatLessThanWellFounded
<1>2. \A j \in S : j < i => <<j, i>> \in less
  BY DEF OpToRel
<1> HIDE DEF less
<1>3. ASSUME NEW j \in S PROVE i <= j
  <2>1. i \in Nat /\ j \in Nat /\ ~(j < i)
    BY <1>1, <1>2
  <2>. QED
    BY <2>1
<1>. QED
  BY <1>3

\* The first file with a statement.
IsFirst(i) ==
    /\ i \in 1..Len(sources) /\ Body[sources[i]] # <<>>
    /\ \A j \in 1..(i - 1) : Body[sources[j]] = <<>>

\* With a statement there is a first one, and its name is the first string.
LEMMA FirstOfFiles ==
    ASSUME TypeOK, NEW i \in 1..Len(sources), Body[sources[i]] # <<>>
    PROVE  \E f \in 1..i :
              /\ IsFirst(f) /\ FirstString = Body[sources[f]][1].name
              /\ 1 \in 1..Len(Body[sources[f]])
              /\ FirstString \in STRING
<1> DEFINE S == {j \in 1..Len(sources) : Body[sources[j]] # <<>>}
           P(f) == Body[sources[f]] # <<>> /\ \A j \in 1..(f - 1) : Body[sources[j]] = <<>>
<1>1. Len(sources) \in Nat /\ \A j \in 1..Len(sources) : sources[j] \in Files
  BY DEF TypeOK
<1>2. PICK f \in S : \A j \in S : f <= j
  <2>1. S \in SUBSET Nat /\ S # {}
    OBVIOUS
  <2> HIDE DEF S
  <2>. QED
    BY <2>1, LeastNumber
<1>3. f \in 1..Len(sources) /\ P(f) /\ f <= i
  <2>1. \A j \in 1..(f - 1) : j \in 1..Len(sources) /\ ~(f <= j)
    BY <1>1
  <2>. QED
    BY <1>2, <2>1
<1>4. \A g \in 1..Len(sources) : P(g) => g = f
  <2> SUFFICES ASSUME NEW g \in 1..Len(sources), P(g) PROVE g = f
    OBVIOUS
  <2>1. CASE g < f
    BY <1>1, <1>3, <2>1
  <2>2. CASE f < g
    BY <1>1, <1>3, <2>2
  <2>. QED
    BY <1>1, <2>1, <2>2
<1>5. FirstString = Body[sources[f]][1].name
  <2>1. f = CHOOSE g \in 1..Len(sources) : P(g)
    <3> HIDE DEF P
    <3>. QED
      BY <1>3, <1>4
  <2>. QED
    BY <2>1 DEF FirstString
<1>6. Body[sources[f]] \in Seq(Statement) /\ Body[sources[f]] # <<>>
  BY <1>1, <1>3, CompilerAssumption DEF Statement
<1>7. 1 \in 1..Len(Body[sources[f]]) /\ Body[sources[f]][1] \in Statement
  BY <1>6
<1>8. IsFirst(f) /\ f \in 1..i
  BY <1>1, <1>3 DEF IsFirst
<1>. QED
  BY <1>5, <1>7, <1>8, StatementKinds

\* The module that an event type is looked up by.
LEMMA FoundModule ==
    ASSUME TypeOK, NEW event
    PROVE  /\ compiler_find_module_ordinal(event) \in 0..Len(module_table)
           /\ compiler_find_module_ordinal(event) # 0 =>
                 event \in Prefixed[module_table[compiler_find_module_ordinal(event)]]
<1> DEFINE S == {o \in 1..Len(module_table) : event \in Prefixed[module_table[o]]}
           P(o) == /\ event \in Prefixed[module_table[o]]
                   /\ \A p \in 1..(o - 1) : event \notin Prefixed[module_table[p]]
<1>1. Len(module_table) \in Nat
  BY DEF TypeOK
<1>2. CASE S = {}
  BY <1>1, <1>2 DEF compiler_find_module_ordinal
<1>3. CASE S # {}
  <2>1. PICK o \in S : \A p \in S : o <= p
    <3>1. S \in SUBSET Nat
      OBVIOUS
    <3> HIDE DEF S
    <3>. QED
      BY <1>3, <3>1, LeastNumber
  <2>2. o \in 1..Len(module_table) /\ P(o)
    <3>1. \A p \in 1..(o - 1) : p \in 1..Len(module_table) /\ ~(o <= p)
      BY <1>1
    <3>. QED
      BY <2>1, <3>1
  <2>3. compiler_find_module_ordinal(event) = CHOOSE p \in 1..Len(module_table) : P(p)
    BY <1>3 DEF compiler_find_module_ordinal
  <2>4. compiler_find_module_ordinal(event) \in 1..Len(module_table)
        /\ P(compiler_find_module_ordinal(event))
    <3> HIDE DEF P
    <3>. QED
      BY <2>2, <2>3
  <2>. QED
    BY <1>1, <2>4
<1>. QED
  BY <1>2, <1>3

\* The entry that a name is looked up by: the first of that name.
LEMMA FoundRule ==
    ASSUME NEW table, Len(table) \in Nat, NEW name
    PROVE  LET x == find_rule_idx_by_name(table, name)
           IN  /\ x \in 0..Len(table)
               /\ x # 0 => table[x].name = name
               /\ \A i \in 1..Len(table) : table[i].name = name => x \in 1..i
<1> DEFINE S == {i \in 1..Len(table) : table[i].name = name}
           P(i) == table[i].name = name /\ \A j \in 1..(i - 1) : table[j].name # name
           x == find_rule_idx_by_name(table, name)
<1>2. CASE S = {}
  BY <1>2 DEF find_rule_idx_by_name
<1>3. CASE S # {}
  <2>1. PICK i \in S : \A j \in S : i <= j
    <3>1. S \in SUBSET Nat
      OBVIOUS
    <3> HIDE DEF S
    <3>. QED
      BY <1>3, <3>1, LeastNumber
  <2>2. i \in 1..Len(table) /\ P(i)
    <3>1. \A j \in 1..(i - 1) : j \in 1..Len(table) /\ ~(i <= j)
      OBVIOUS
    <3>. QED
      BY <2>1, <3>1
  <2>3. x = CHOOSE j \in 1..Len(table) : P(j)
    BY <1>3 DEF find_rule_idx_by_name
  <2>4. x \in 1..Len(table) /\ P(x)
    <3> HIDE DEF P, x
    <3>. QED
      BY <2>2, <2>3
  <2>5. \A j \in 1..Len(table) : table[j].name = name => x <= j
    <3> HIDE DEF x
    <3>. QED
      BY <2>4
  <2>6. \A j \in 1..Len(table) : table[j].name = name => x \in 1..j
    <3> HIDE DEF x
    <3>. QED
      BY <2>4, <2>5
  <2>7. x \in 0..Len(table) /\ (x # 0 => table[x].name = name)
    <3> HIDE DEF x
    <3>. QED
      BY <2>4
  <2>. QED
    BY <2>6, <2>7
<1>. QED
  BY <1>2, <1>3

\* The compilation of a rule: its entry, and the strings interned.
LEMMA CompiledRule ==
    ASSUME TypeOK, pc = "compile", file <= Len(sources), stmt <= Len(Statements),
           NEW r \in Rule, NEW k \in Nat, compiler_compile_rule(r, k)
    PROVE  /\ strings' \subseteq STRING /\ module_name' \in STRING
           /\ rule_table' \in Seq(RuleRecord) /\ err' \in Errors
           /\ RuleCompiles(r) => /\ rule_table' = Append(rule_table, RuleEntry(r, k))
                                 /\ RuleEntry(r, k) \in RuleRecord /\ UNCHANGED err
           /\ ~RuleCompiles(r) => UNCHANGED rule_table /\ err' # "SUCCESS"
<1>1. /\ r.name \in STRING /\ r.event \in STRING /\ r.private \in BOOLEAN
      /\ r.anonymous \in BOOLEAN /\ r.refs \in SUBSET STRING /\ r.strings \in SUBSET STRING
  BY RuleFields
<1>2. FirstString \in STRING
  <2>1. file \in 1..Len(sources) /\ Len(Statements) \in Nat /\ stmt \in 1..Len(Statements)
    BY Here
  <2>2. Body[sources[file]] # <<>>
    BY <2>1 DEF Statements
  <2>. QED
    BY <2>1, <2>2, FirstOfFiles
<1>3. RuleEntry(r, k) \in RuleRecord
  <2>1. EntryName(r) \in STRING
    BY <1>1, <1>2 DEF EntryName
  <2>2. compiler_find_module_ordinal(r.event) \in Nat
    BY FoundModule DEF TypeOK
  <2>3. <<file, stmt, k>> \in (1..MaxSources) \X (Nat \ {0}) \X Nat
    BY Here DEF Position
  <2> HIDE DEF EntryName, compiler_find_module_ordinal
  <2>. QED
    BY <1>1, <2>1, <2>2, <2>3 DEF RuleEntry, RuleRecord
<1>4. OwnName(r) \subseteq STRING
  BY <1>1 DEF OwnName
<1>5. CASE RuleCompiles(r)
  <2>1. /\ strings' = strings \cup OwnName(r) \cup r.refs \cup r.strings
        /\ module_name' = ModuleAfter(r)
        /\ rule_table' = Append(rule_table, RuleEntry(r, k)) /\ err' = err
    BY <1>5 DEF compiler_compile_rule
  <2>2. ModuleAfter(r) \in STRING
    BY <1>1 DEF ModuleAfter, TypeOK
  <2>3. rule_table' \in Seq(RuleRecord)
    BY <1>3, <2>1 DEF TypeOK
  <2>. QED
    BY <1>1, <1>3, <1>4, <1>5, <2>1, <2>2, <2>3 DEF TypeOK
<1>6. CASE ~RuleCompiles(r)
  <2>1. /\ strings' = strings \cup OwnName(r) /\ UNCHANGED <<module_name, rule_table>>
        /\ err' \in {"UNSUCCESSFUL", "MODULE"}
    BY <1>6 DEF compiler_compile_rule
  <2>. QED
    BY <1>4, <1>6, <2>1 DEF TypeOK, Errors
<1>. QED
  BY <1>5, <1>6

\* The element that the loop of a sequence stands at.
LEMMA AtIt ==
    ASSUME TypeOK, NEW kind, AtElement(kind)
    PROVE  /\ AtStatement("compile", "sequence") /\ Stmt \in Sequence
           /\ Len(indices) + 1 \in 1..Len(Stmt.rules) /\ Len(indices) + 1 \in Nat \ {0}
           /\ Element.kind = kind /\ Element.name \in STRING
           /\ kind = "rule" => Element \in Rule
<1>1. /\ AtStatement("compile", "sequence") /\ Len(indices) < Len(Stmt.rules)
      /\ Element.kind = kind
  BY DEF AtElement
<1>2. Stmt \in Sequence
  BY <1>1, AtIts
<1>3. Len(Stmt.rules) \in Nat /\ Len(indices) \in Nat
  BY <1>2 DEF Sequence, TypeOK
<1>4. Len(indices) + 1 \in 1..Len(Stmt.rules)
  BY <1>1, <1>3
<1> HIDE DEF Stmt
<1>. QED
  BY <1>1, <1>2, <1>3, <1>4, ElementKinds DEF Element

\* An element of a sequence gets an index, of an entry if it was found or compiled.
LEMMA NextIndex ==
    ASSUME TypeOK, CompileExternal \/ CompileAnonymous
    PROVE  /\ AtStatement("compile", "sequence")
           /\ \E x \in Nat \ {0} : indices' = Append(indices, x)
           /\ indices' \in Seq(Nat \ {0}) /\ Len(indices') = Len(indices) + 1
           /\ Len(indices') <= Len(Stmt.rules)
           /\ UNCHANGED <<front, done, scope, module_table, sequence_table, pc, call, file, stmt>>
<1>1. CASE CompileExternal
  <2>1. /\ AtElement("external")
        /\ indices' = Append(indices, IndexOf(find_rule_idx_by_name(rule_table, Element.name)))
        /\ UNCHANGED <<front, done, scope, tables, pc, call, file, stmt, err>>
    BY <1>1 DEF CompileExternal
  <2>2. IndexOf(find_rule_idx_by_name(rule_table, Element.name)) \in Nat \ {0}
    <3>1. Len(rule_table) \in Nat
      BY DEF TypeOK
    <3>2. find_rule_idx_by_name(rule_table, Element.name) \in Nat
      BY <3>1, FoundRule
    <3>. QED
      BY <3>2 DEF IndexOf
  <2>. QED
    BY <2>1, <2>2, AtIt DEF tables, TypeOK
<1>2. CASE CompileAnonymous
  <2>1. /\ AtElement("rule") /\ compiler_compile_rule(Element, Len(indices) + 1)
        /\ indices' = Append(indices, IF RuleCompiles(Element) THEN Len(rule_table') ELSE IndexOf(0))
        /\ UNCHANGED <<front, done, scope, module_table, sequence_table, pc, call, file, stmt>>
    BY <1>2 DEF CompileAnonymous
  <2>2. /\ pc = "compile" /\ file <= Len(sources) /\ stmt <= Len(Statements)
        /\ Element \in Rule /\ Len(indices) + 1 \in Nat
    BY <2>1, AtIt, AtIts
  <2>3. /\ rule_table' \in Seq(RuleRecord)
        /\ RuleCompiles(Element) =>
              rule_table' = Append(rule_table, RuleEntry(Element, Len(indices) + 1))
    BY <2>1, <2>2, CompiledRule
  <2>4. (IF RuleCompiles(Element) THEN Len(rule_table') ELSE IndexOf(0)) \in Nat \ {0}
    <3>1. RuleCompiles(Element) => Len(rule_table') = Len(rule_table) + 1 /\ Len(rule_table) \in Nat
      BY <2>3 DEF TypeOK
    <3>. QED
      BY <3>1 DEF IndexOf
  <2>. QED
    BY <2>1, <2>4, AtIt DEF TypeOK
<1>. QED
  BY <1>1, <1>2

\* The compilation of every file, statement by statement.
LEMMA CompileType ==
    ASSUME TypeOK,
           \/ compiler_compile_import \/ CompileRule \/ CompileExternal \/ CompileAnonymous
           \/ compiler_add_sequence_entry \/ Crash \/ EndOfCompiledFile \/ EndOfCompile
    PROVE  TypeOK'
<1> USE DEF front, scope, tables
<1>1. CASE compiler_compile_import
  <2>1. /\ AtStatement("compile", "import") /\ strings' = strings \cup {Stmt.name}
        /\ \/ UNCHANGED <<module_table, err>>
           \/ /\ Stmt.name \in modules
              /\ module_table' = Append(module_table, Stmt.name) /\ UNCHANGED err
           \/ err' = "MODULE" /\ UNCHANGED module_table
        /\ stmt' = stmt + 1
        /\ UNCHANGED <<front, done, scope, rule_table, sequence_table, module_name, pc, call,
                       file, indices>>
    BY <1>1 DEF compiler_compile_import
  <2>2. strings' \subseteq STRING
    BY <2>1, AtIts DEF TypeOK
  <2>3. module_table' \in Seq(modules)
    <3>1. module_table \in Seq(modules)
      BY DEF TypeOK
    <3>2. module_table' = module_table
             \/ (Stmt.name \in modules /\ module_table' = Append(module_table, Stmt.name))
      BY <2>1
    <3> HIDE DEF Stmt
    <3>. QED
      BY <3>1, <3>2
  <2>4. err' \in Errors
    BY <2>1 DEF TypeOK, Errors
  <2>. QED
    BY <2>1, <2>2, <2>3, <2>4 DEF TypeOK
<1>2. CASE CompileRule
  <2>1. /\ AtStatement("compile", "rule") /\ compiler_compile_rule(Stmt, 0) /\ stmt' = stmt + 1
        /\ UNCHANGED <<front, done, scope, module_table, sequence_table, pc, call, file, indices>>
    BY <1>2 DEF CompileRule
  <2>2. /\ strings' \subseteq STRING /\ module_name' \in STRING
        /\ rule_table' \in Seq(RuleRecord) /\ err' \in Errors
    BY <2>1, AtIts, CompiledRule
  <2>3. stmt' \in Nat \ {0}
    BY <2>1 DEF TypeOK
  <2>4. UNCHANGED <<sources, modules, parsed, locked, done, env, privates, rejected,
                    module_table, sequence_table, pc, call, file, indices>>
    BY <2>1
  <2>. QED
    BY <2>2, <2>3, <2>4 DEF TypeOK
<1>3. CASE CompileExternal
  <2>1. UNCHANGED <<front, done, scope, tables, pc, call, file, stmt, err>>
    BY <1>3 DEF CompileExternal
  <2>. QED
    BY <1>3, <2>1, NextIndex DEF TypeOK
<1>4. CASE CompileAnonymous
  <2>1. /\ AtElement("rule") /\ compiler_compile_rule(Element, Len(indices) + 1)
    BY <1>4 DEF CompileAnonymous
  <2>2. /\ pc = "compile" /\ file <= Len(sources) /\ stmt <= Len(Statements)
        /\ Element \in Rule /\ Len(indices) + 1 \in Nat
    BY <2>1, AtIt, AtIts
  <2>3. /\ strings' \subseteq STRING /\ module_name' \in STRING
        /\ rule_table' \in Seq(RuleRecord) /\ err' \in Errors
    BY <2>1, <2>2, CompiledRule
  <2>. QED
    BY <1>4, <2>3, NextIndex DEF TypeOK
<1>5. CASE compiler_add_sequence_entry
  <2>1. /\ AtStatement("compile", "sequence") /\ strings' = strings \cup {Stmt.name}
        /\ sequence_table' = Append(sequence_table,
                                    [name |-> Stmt.name, rules |-> indices, at |-> <<file, stmt>>])
        /\ indices' = <<>> /\ stmt' = stmt + 1
        /\ UNCHANGED <<front, done, scope, module_table, rule_table, module_name, pc, call, file, err>>
    BY <1>5 DEF compiler_add_sequence_entry
  <2>2. Stmt.name \in STRING /\ <<file, stmt>> \in Position /\ indices \in Seq(Nat \ {0})
    BY <2>1, AtIts, Here DEF TypeOK
  <2>3. [name |-> Stmt.name, rules |-> indices, at |-> <<file, stmt>>] \in SequenceRecord
    BY <2>2 DEF SequenceRecord
  <2>4. strings' \subseteq STRING
    BY <2>1, <2>2 DEF TypeOK
  <2>6. sequence_table' \in Seq(SequenceRecord)
    <3> DEFINE new == [name |-> Stmt.name, rules |-> indices, at |-> <<file, stmt>>]
    <3>1. sequence_table \in Seq(SequenceRecord) /\ new \in SequenceRecord
          /\ sequence_table' = Append(sequence_table, new)
      BY <2>1, <2>3 DEF TypeOK
    <3> HIDE DEF new, SequenceRecord
    <3>. QED
      BY <3>1
  <2>5. indices' \in Seq(Nat \ {0})
    BY <2>1, EmptySeq
  <2>. QED
    BY <2>1, <2>4, <2>5, <2>6 DEF TypeOK
<1>6. CASE Crash
  BY <1>6 DEF Crash, TypeOK
<1>7. CASE EndOfCompiledFile
  <2>1. file' \in 1..(MaxSources + 1)
    BY <1>7, CompilerAssumption DEF EndOfCompiledFile, TypeOK
  <2>. QED
    BY <1>7, <2>1 DEF EndOfCompiledFile, TypeOK
<1>8. CASE EndOfCompile
  <2>1. 1 \in 1..(MaxSources + 1)
    BY CompilerAssumption
  <2>2. /\ pc' = "idle" /\ file' = 1 /\ stmt' = 1
        /\ UNCHANGED <<front, done, scope, tables, call, indices, err>>
    BY <1>8 DEF EndOfCompile
  <2>. QED
    BY <2>1, <2>2 DEF TypeOK
<1>. QED
  BY <1>1, <1>2, <1>3, <1>4, <1>5, <1>6, <1>7, <1>8

\* Every step keeps them.
LEMMA NextType == TypeOK /\ [Next]_vars => TypeOK'
<1>1. CASE UNCHANGED vars
  BY <1>1 DEF vars, TypeOK
<1>2. CASE Next
  BY <1>2, IdleType, CheckType, CompileType DEF Next, Step
<1>. QED
  BY <1>1, <1>2

\* Every variable of the compiler keeps its type.
THEOREM TypeCorrect == Spec => []TypeOK
BY InitType, NextType, PTL DEF Spec

-----------------------------------------------------------------------------
(* Control: a compiler that is not locked has checked nothing, and one that is
   not done has compiled nothing.                                             *)

InSequence ==
    /\ file <= Len(sources) /\ stmt <= Len(Statements)
    /\ Stmt.kind = "sequence" /\ Len(indices) <= Len(Stmt.rules)

Control ==
    /\ ~locked => ~parsed /\ ~done /\ env = <<>> /\ pc = "idle"
    /\ done => call = "compile"
    /\ pc \in {"compile", "crashed"} => done
    /\ pc = "check" => ~done
    /\ ~done => /\ rule_table = <<>> /\ sequence_table = <<>> /\ module_table = <<>>
                /\ indices = <<>>
    /\ pc = "idle" => indices = <<>>
    /\ indices # <<>> => InSequence
    /\ pc # "check" \/ file > Len(sources) \/ stmt = 1 => privates = {}

\* A new compiler is not locked and not done.
LEMMA InitControl == Init => Control
  BY DEF Init, Control

\* Every step keeps that order; the proof has one step per action.
LEMMA ControlStep == TypeOK /\ Control /\ [Next]_vars => Control'
<1> SUFFICES ASSUME TypeOK, Control, [Next]_vars PROVE Control'
  OBVIOUS
<1> USE DEF front, scope, tables
<1>1. ASSUME NEW m \in Custom, ac_compiler_include_module(m) PROVE Control'
  BY <1>1 DEF ac_compiler_include_module, Control, InSequence, Statements, Stmt
<1>2. ASSUME NEW f \in Files, ac_compiler_add_file(f) PROVE Control'
  BY <1>2 DEF ac_compiler_add_file, Control
<1>3. CASE ac_compiler_build_ast
  BY <1>3 DEF ac_compiler_build_ast, Control
<1>4. CASE CompileRefused
  BY <1>4 DEF CompileRefused, Control
<1>5. CASE ac_compiler_check_ast \/ ac_compiler_compile
  BY <1>5 DEF ac_compiler_check_ast, ac_compiler_compile, StartCheck, Control
<1>6. ASSUME NEW ok, Verdict(ok), pc = "check", file <= Len(sources) PROVE Control'
  <2>1. /\ UNCHANGED <<front, done, tables, pc, call, file, indices, err>>
        /\ stmt' = stmt + 1 /\ stmt' # 1
    BY <1>6 DEF Verdict, TypeOK
  <2>. QED
    BY <1>6, <2>1 DEF Control, TypeOK
<1>7. CASE checker_import \/ checker_check_rule \/ checker_check_sequence
  BY <1>6, <1>7 DEF checker_import, checker_check_rule, checker_check_sequence, AtStatement
<1>8. CASE EndOfCheckedFile
  BY <1>8 DEF EndOfCheckedFile, Control
<1>9. CASE EndOfCheck
  BY <1>9 DEF EndOfCheck, Control
<1>10. CASE compiler_compile_import
  BY <1>10 DEF compiler_compile_import, AtStatement, Control, InSequence, Stmt
<1>11. CASE CompileRule
  BY <1>11 DEF CompileRule, AtStatement, Control, InSequence, Stmt
<1>12. CASE CompileExternal \/ CompileAnonymous
  <2>1. pc = "compile" /\ file <= Len(sources) /\ stmt <= Len(Statements) /\ Stmt.kind = "sequence"
    BY <1>12, NextIndex, AtIts
  <2>2. InSequence'
    BY <1>12, <2>1, NextIndex DEF InSequence, Stmt, Statements
  <2>. QED
    BY <1>12, <2>1, <2>2, NextIndex DEF Control, TypeOK
<1>13. CASE compiler_add_sequence_entry
  BY <1>13 DEF compiler_add_sequence_entry, AtStatement, Control
<1>14. CASE Crash
  BY <1>14 DEF Crash, AtElement, AtStatement, Control, InSequence, Stmt, Statements
<1>15. CASE EndOfCompiledFile \/ EndOfCompile
  <2>1. indices = <<>> /\ privates = {} /\ done
    BY <1>15 DEF EndOfCompiledFile, EndOfCompile, Control, InSequence, Stmt, Statements, TypeOK
  <2>2. /\ pc' \in {"compile", "idle"} /\ indices' = <<>> /\ privates' = {} /\ done'
        /\ UNCHANGED <<front, call, env>>
    BY <1>15, <2>1 DEF EndOfCompiledFile, EndOfCompile
  <2>. QED
    BY <2>1, <2>2 DEF Control
<1>16. CASE UNCHANGED vars
  BY <1>16 DEF vars, Control, InSequence, Statements, Stmt
<1>. QED
  BY <1>1, <1>2, <1>3, <1>4, <1>5, <1>7, <1>8, <1>9, <1>10, <1>11, <1>12, <1>13, <1>14, <1>15,
     <1>16 DEF Next, Step

\* Control always holds.
LEMMA ControlCorrect == Spec => [](TypeOK /\ Control)
BY InitType, InitControl, NextType, ControlStep, PTL DEF Spec

-----------------------------------------------------------------------------
(* Scopes: what a file keeps to itself leaves the environment with it.      *)

\* A statement of the sources declares the name for every file.
Public(n) ==
    \E i \in 1..Len(sources) : \E j \in 1..Len(Body[sources[i]]) :
        /\ Body[sources[i]][j].name = n
        /\ Body[sources[i]][j].kind = "rule" => ~Body[sources[i]][j].private

Scoping == \A n \in DOMAIN env \ privates : Public(n)

\* Adding a source takes no public declaration away.
LEMMA PublicStays ==
    ASSUME TypeOK, NEW n, Public(n),
           sources' = sources \/ \E f : sources' = Append(sources, f)
    PROVE  Public(n)'
<1>1. PICK i \in 1..Len(sources) : \E j \in 1..Len(Body[sources[i]]) :
         /\ Body[sources[i]][j].name = n
         /\ Body[sources[i]][j].kind = "rule" => ~Body[sources[i]][j].private
  BY DEF Public
<1>2. i \in 1..Len(sources') /\ sources'[i] = sources[i]
  <2>1. sources \in Seq(Files) /\ Len(sources) \in Nat
    BY DEF TypeOK
  <2>2. CASE sources' = sources
    BY <2>2
  <2>3. ASSUME NEW f, sources' = Append(sources, f) PROVE i \in 1..Len(sources') /\ sources'[i] = sources[i]
    BY <2>1, <2>3
  <2>. QED
    BY <2>2, <2>3
<1>. QED
  BY <1>1, <1>2 DEF Public

\* A private name enters the environment and privates together, and leaves them
\* together at the end of its file.
LEMMA ScopingStep == TypeOK /\ Control /\ Scoping /\ [Next]_vars => Scoping'
<1> SUFFICES ASSUME TypeOK, Control, Scoping, [Next]_vars PROVE Scoping'
  OBVIOUS
<1> USE DEF front, scope, tables
<1>1. ASSUME sources' = sources \/ \E f : sources' = Append(sources, f),
             \A n \in DOMAIN env' \ privates' : n \in DOMAIN env \ privates \/ Public(n)
      PROVE  Scoping'
  BY <1>1, PublicStays DEF Scoping
<1>2. CASE AtStatement("check", Stmt.kind) /\ UNCHANGED sources
           /\ DOMAIN env' \subseteq DOMAIN env \cup {Stmt.name}
           /\ privates \subseteq privates'
           /\ (Stmt.kind = "rule" /\ Stmt.private /\ Stmt.name \notin DOMAIN env => Stmt.name \in privates')
  <2> SUFFICES ASSUME NEW n \in DOMAIN env' \ privates'
               PROVE  n \in DOMAIN env \ privates \/ Public(n)
    BY <1>1, <1>2
  <2>1. CASE n \in DOMAIN env
    BY <1>2, <2>1
  <2>2. CASE n \notin DOMAIN env
    BY <1>2, <2>2, AtIts DEF Public, Stmt, Statements
  <2>. QED
    BY <2>1, <2>2
<1>3. CASE checker_import \/ checker_check_rule \/ checker_check_sequence
  <2>1. UNCHANGED front
    BY <1>3 DEF checker_import, checker_check_rule, checker_check_sequence, Verdict
  <2>2. AtStatement("check", Stmt.kind)
    BY <1>3 DEF checker_import, checker_check_rule, checker_check_sequence, AtStatement, Stmt
  <2>3. /\ DOMAIN env' \subseteq DOMAIN env \cup {Stmt.name} /\ privates \subseteq privates'
        /\ checker_check_rule => (Stmt.private /\ Stmt.name \notin DOMAIN env => Stmt.name \in privates')
    BY <1>3 DEF checker_import, checker_check_rule, checker_check_sequence, Extend
  <2>4. Stmt.kind = "rule" => checker_check_rule
    BY <1>3 DEF checker_import, checker_check_sequence, AtStatement, Stmt
  <2>. QED
    BY <1>2, <2>1, <2>2, <2>3, <2>4
<1>4. CASE EndOfCheckedFile
  BY <1>1, <1>4 DEF EndOfCheckedFile
<1>5. CASE ac_compiler_check_ast \/ ac_compiler_compile
  BY <1>1, <1>5 DEF ac_compiler_check_ast, ac_compiler_compile, StartCheck, Control
<1>6. CASE /\ UNCHANGED <<env, privates>>
           /\ sources' = sources \/ \E f : sources' = Append(sources, f)
  BY <1>1, <1>6
<1>7. CASE \/ \E m \in Custom : ac_compiler_include_module(m)
           \/ \E f \in Files : ac_compiler_add_file(f)
           \/ ac_compiler_build_ast \/ CompileRefused \/ UNCHANGED vars
  BY <1>6, <1>7 DEF ac_compiler_include_module, ac_compiler_add_file, ac_compiler_build_ast,
                    CompileRefused, vars
<1>8. CASE \/ EndOfCheck \/ compiler_compile_import \/ CompileRule \/ CompileExternal
           \/ CompileAnonymous \/ compiler_add_sequence_entry \/ Crash
           \/ EndOfCompiledFile \/ EndOfCompile
  BY <1>6, <1>8 DEF EndOfCheck, compiler_compile_import, CompileRule, CompileExternal,
                    CompileAnonymous, compiler_add_sequence_entry, Crash, EndOfCompiledFile,
                    EndOfCompile
<1>. QED
  BY <1>3, <1>4, <1>5, <1>7, <1>8 DEF Next, Step

\* A private rule is known only while the file it is written in is checked:
\* whatever is in scope besides is declared publicly by a file.
THEOREM PrivateCorrect == Spec => []PrivateStaysInFile
<1>1. Init => Scoping
  BY DEF Init, Scoping
<1>2. Control /\ Scoping => PrivateStaysInFile
  <2>1. Control => (pc # "check" => privates = {})
    BY DEF Control
  <2>2. \A n : Public(n) =>
          \E i \in 1..Len(sources) : \E d \in {Body[sources[i]][j] : j \in 1..Len(Body[sources[i]])} :
              d.name = n /\ (d.kind = "rule" => ~d.private)
    BY DEF Public
  <2>. QED
    BY <2>1, <2>2 DEF Scoping, PrivateStaysInFile
<1>. QED
  BY <1>1, <1>2, InitType, InitControl, NextType, ControlStep, ScopingStep, PTL DEF Spec

-----------------------------------------------------------------------------
(* Positions in the sources *)

StmtAt(i, j) == Body[sources[i]][j]
IsStmt(i, j) == i \in 1..Len(sources) /\ j \in 1..Len(Body[sources[i]])
Before(i, j, k, l) == i < k \/ (i = k /\ j < l)

\* A statement of the sources, with where it is.
LEMMA StmtAtType ==
    ASSUME TypeOK, NEW i, NEW j, IsStmt(i, j)
    PROVE  /\ i \in Nat \ {0} /\ j \in Nat \ {0} /\ StmtAt(i, j) \in Statement
           /\ Named(StmtAt(i, j))
<1>1. i \in 1..Len(sources) /\ sources[i] \in Files /\ Len(sources) \in Nat
  BY DEF IsStmt, TypeOK
<1>2. Body[sources[i]] \in Seq(Statement) /\ j \in 1..Len(Body[sources[i]])
  BY <1>1, CompilerAssumption DEF Statement, IsStmt
<1>3. StmtAt(i, j) \in Statement /\ j \in Nat \ {0}
  BY <1>2 DEF StmtAt
<1>. QED
  BY <1>1, <1>2, <1>3, CompilerAssumption DEF StmtAt

\* The statement that the loops stand at is the one of their position.
LEMMA CurrentStmt ==
    ASSUME TypeOK, NEW phase, NEW kind, AtStatement(phase, kind)
    PROVE  IsStmt(file, stmt) /\ StmtAt(file, stmt) = Stmt
BY AtIts DEF IsStmt, StmtAt, Stmt, Statements

\* The check that ac_compiler_compile runs is under way, or it succeeded.
First == call = "compile" /\ (pc = "check" \/ done)

\* It has passed the statement.
Past(i, j) == done \/ Before(i, j, file, stmt)

CheckStep == checker_import \/ checker_check_rule \/ checker_check_sequence

\* The steps at which the first check or the compilation after it can be after
\* the step.
LEMMA FirstSteps ==
    ASSUME TypeOK, Control, [Next]_vars, First'
    PROVE  \/ ac_compiler_compile /\ ~locked
           \/ First /\ CheckStep
           \/ First /\ EndOfCheckedFile
           \/ /\ First /\ UNCHANGED <<sources, env, privates, rejected>> /\ (~done' => ~done)
              /\ \A i, j : IsStmt(i, j) => (Past(i, j)' <=> Past(i, j))
<1> USE DEF front, scope, tables
<1>1. CASE \/ \E m \in Custom : ac_compiler_include_module(m)
           \/ \E f \in Files : ac_compiler_add_file(f)
  BY <1>1 DEF ac_compiler_include_module, ac_compiler_add_file, First
<1>2. ASSUME done, done', UNCHANGED <<sources, scope, call>>
      PROVE  /\ First /\ UNCHANGED <<sources, env, privates, rejected>> /\ (~done' => ~done)
             /\ \A i, j : IsStmt(i, j) => (Past(i, j)' <=> Past(i, j))
  BY <1>2 DEF First, Past
<1>3. CASE ac_compiler_build_ast \/ CompileRefused
  BY <1>2, <1>3 DEF ac_compiler_build_ast, CompileRefused, First
<1>4. CASE ac_compiler_check_ast
  BY <1>4 DEF ac_compiler_check_ast, StartCheck, First
<1>5. CASE ac_compiler_compile
  BY <1>5 DEF ac_compiler_compile
<1>6. CASE CheckStep
  <2>1. pc = "check" /\ call' = call
    BY <1>6 DEF CheckStep, checker_import, checker_check_rule, checker_check_sequence,
                AtStatement, Verdict
  <2>. QED
    BY <1>6, <2>1 DEF First
<1>7. CASE EndOfCheckedFile
  BY <1>7 DEF EndOfCheckedFile, First
<1>8. CASE EndOfCheck
  <2>1. /\ First /\ UNCHANGED <<sources, env, privates, rejected>> /\ done' /\ file > Len(sources)
    BY <1>8 DEF EndOfCheck, First, Control
  <2>2. \A i, j : IsStmt(i, j) => Past(i, j)' /\ Past(i, j)
    BY <2>1 DEF IsStmt, Past, Before, TypeOK
  <2>. QED
    BY <2>1, <2>2
<1>9. CASE \/ compiler_compile_import \/ CompileRule \/ CompileExternal \/ CompileAnonymous
           \/ compiler_add_sequence_entry \/ Crash \/ EndOfCompiledFile \/ EndOfCompile
  <2>1. pc = "compile" /\ UNCHANGED <<sources, scope, call, done>>
    BY <1>9 DEF compiler_compile_import, CompileRule, CompileExternal, CompileAnonymous,
                compiler_add_sequence_entry, Crash, EndOfCompiledFile, EndOfCompile,
                AtElement, AtStatement
  <2>. QED
    BY <1>2, <2>1 DEF Control
<1>10. CASE UNCHANGED vars
  BY <1>10 DEF vars, First, Past, Before
<1>. QED
  BY <1>1, <1>3, <1>4, <1>5, <1>6, <1>7, <1>8, <1>9, <1>10 DEF Next, Step, CheckStep

-----------------------------------------------------------------------------
(* What the check of ac_compiler_compile establishes *)

\* With the same sources the same statements are in the same places.
LEMMA SameSources ==
    ASSUME UNCHANGED sources
    PROVE  \A i, j : StmtAt(i, j)' = StmtAt(i, j) /\ (IsStmt(i, j)' <=> IsStmt(i, j))
BY DEF StmtAt, IsStmt

\* The check of one statement: what it adds, and what it has verified if
\* nothing has been refused.
LEMMA CheckedStmt ==
    ASSUME TypeOK, CheckStep
    PROVE  /\ pc = "check" /\ IsStmt(file, stmt) /\ StmtAt(file, stmt) = Stmt
           /\ UNCHANGED <<sources, modules, file, pc, call, done>> /\ stmt' = stmt + 1
           /\ DOMAIN env' = DOMAIN env \cup {Stmt.name}
           /\ \A n \in DOMAIN env : env'[n] = env[n]
           /\ Stmt.name \notin DOMAIN env =>
                 /\ env'[Stmt.name].src = sources[file]
                 /\ env'[Stmt.name].type = "rule" => Stmt.kind = "rule"
           /\ privates' = privates \/ (Stmt.kind = "rule" /\ Stmt.name \notin DOMAIN env
                                       /\ privates' = privates \cup {Stmt.name})
           /\ rejected' = {} =>
                 /\ rejected = {}
                 /\ Stmt.kind = "rule" => Stmt.name \notin DOMAIN env /\ check_body(Stmt, env')
                 /\ Stmt.kind = "sequence" =>
                       \A k \in 1..Len(Stmt.rules) : check_element(Stmt.rules[k], env')
<1>1. AtStatement("check", Stmt.kind)
  BY DEF CheckStep, checker_import, checker_check_rule, checker_check_sequence, AtStatement, Stmt
<1>2. /\ pc = "check" /\ IsStmt(file, stmt) /\ StmtAt(file, stmt) = Stmt
      /\ Stmt.name \in STRING /\ file \in 1..Len(sources) /\ NoName \in STRING
      /\ Stmt.kind = "rule" => Stmt.event \in STRING
  BY <1>1, AtIts, CurrentStmt, CompilerAssumption
<1>3. \E ok : /\ Verdict(ok)
              /\ rejected' = {} =>
                    /\ ok
                    /\ Stmt.kind = "rule" => Stmt.name \notin DOMAIN env /\ check_body(Stmt, env')
                    /\ Stmt.kind = "sequence" =>
                          \A k \in 1..Len(Stmt.rules) : check_element(Stmt.rules[k], env')
  <2>1. CASE checker_import
    <3>1. Verdict(TRUE) /\ Stmt.kind = "import"
      BY <2>1 DEF checker_import, AtStatement, Stmt
    <3>. QED
      BY <3>1
  <2>2. ~Verdict(FALSE) \/ rejected' # {}
    BY DEF Verdict
  <2>3. CASE checker_check_rule
    <3>1. Stmt.kind = "rule"
      BY <2>3 DEF checker_check_rule, AtStatement, Stmt
    <3>2. CASE Stmt.name \in DOMAIN env
      <4>1. Verdict(FALSE)
        BY <2>3, <3>2 DEF checker_check_rule
      <4>. QED
        BY <2>2, <4>1
    <3>3. CASE Stmt.name \notin DOMAIN env
      <4>1. Verdict(check_body(Stmt, env'))
        BY <2>3, <3>3 DEF checker_check_rule
      <4>2. rejected' = {} => check_body(Stmt, env')
        BY <4>1 DEF Verdict
      <4>. QED
        BY <3>1, <3>3, <4>1, <4>2
    <3>. QED
      BY <3>2, <3>3
  <2>4. CASE checker_check_sequence
    <3>1. Stmt.kind = "sequence"
      BY <2>4 DEF checker_check_sequence, AtStatement, Stmt
    <3>2. CASE Stmt.name \in DOMAIN env
      <4>1. Verdict(FALSE)
        BY <2>4, <3>2 DEF checker_check_sequence
      <4>. QED
        BY <2>2, <4>1
    <3>3. CASE Stmt.name \notin DOMAIN env
      <4> DEFINE ok == \A k \in 1..Len(Stmt.rules) : check_element(Stmt.rules[k], env')
      <4>1. Verdict(ok)
        BY <2>4, <3>3 DEF checker_check_sequence
      <4>2. rejected' = {} => ok
        <5> HIDE DEF ok
        <5>. QED
          BY <4>1 DEF Verdict
      <4>. QED
        BY <3>1, <4>1, <4>2
    <3>. QED
      BY <3>2, <3>3
  <2>. QED
    BY <2>1, <2>3, <2>4 DEF CheckStep
<1>4. /\ UNCHANGED <<sources, modules, file, pc, call, done>> /\ stmt' = stmt + 1
      /\ rejected' = {} => rejected = {}
  BY <1>3 DEF Verdict, front
<1>5. \/ env' = env /\ privates' = privates /\ Stmt.name \in DOMAIN env
      \/ /\ Stmt.name \notin DOMAIN env
         /\ \E type \in {"rule", "sequence", "import"}, event \in STRING :
               /\ env' = Extend(Stmt.name, Item(type, event))
               /\ type = "rule" => Stmt.kind = "rule"
         /\ privates' = privates \/ (Stmt.kind = "rule" /\ privates' = privates \cup {Stmt.name})
  <2>1. CASE checker_import
    BY <1>2, <2>1 DEF checker_import
  <2>2. CASE checker_check_rule
    <3>1. Stmt.kind = "rule"
      BY <2>2 DEF checker_check_rule, AtStatement, Stmt
    <3>. QED
      BY <1>2, <2>2, <3>1 DEF checker_check_rule
  <2>3. CASE checker_check_sequence
    BY <1>2, <2>3 DEF checker_check_sequence
  <2>. QED
    BY <2>1, <2>2, <2>3 DEF CheckStep
<1>6. CASE Stmt.name \in DOMAIN env
  BY <1>2, <1>3, <1>4, <1>5, <1>6
<1>7. CASE Stmt.name \notin DOMAIN env
  <2>1. PICK type \in {"rule", "sequence", "import"}, event \in STRING :
           /\ env' = Extend(Stmt.name, Item(type, event))
           /\ type = "rule" => Stmt.kind = "rule"
    BY <1>5, <1>7
  <2>2. DOMAIN env' = DOMAIN env \cup {Stmt.name} /\ env'[Stmt.name] = Item(type, event)
        /\ \A n \in DOMAIN env : env'[n] = env[n]
    BY <1>7, <2>1 DEF Extend
  <2>3. Item(type, event).type = type /\ Item(type, event).src = sources[file]
    BY DEF Item
  <2>. QED
    BY <1>2, <1>3, <1>4, <1>5, <1>7, <2>1, <2>2, <2>3
<1>. QED
  BY <1>6, <1>7

\* A step of the check passes one statement, the end of a file none.
LEMMA PastStep ==
    ASSUME TypeOK, Control, NEW i, NEW j, IsStmt(i, j)
    PROVE  /\ CheckStep => (Past(i, j)' <=> Past(i, j) \/ (i = file /\ j = stmt))
           /\ EndOfCheckedFile => (Past(i, j)' <=> Past(i, j))
<1>1. i \in Nat /\ j \in Nat /\ i \in 1..Len(sources) /\ j \in 1..Len(Body[sources[i]])
  BY StmtAtType DEF IsStmt
<1>2. file \in Nat /\ stmt \in Nat
  BY DEF TypeOK
<1>3. ASSUME CheckStep PROVE Past(i, j)' <=> Past(i, j) \/ (i = file /\ j = stmt)
  <2>1. ~done /\ ~done' /\ file' = file /\ stmt' = stmt + 1
    BY <1>3, CheckedStmt DEF Control
  <2>. QED
    BY <1>1, <1>2, <2>1 DEF Past, Before
<1>4. ASSUME EndOfCheckedFile PROVE Past(i, j)' <=> Past(i, j)
  <2>1. ~done /\ ~done' /\ file' = file + 1 /\ stmt' = 1 /\ stmt > Len(Body[sources[file]])
    BY <1>4 DEF EndOfCheckedFile, Control, Statements
  <2>2. i = file => j < stmt
    BY <1>1, <1>2, <2>1
  <2>. QED
    BY <1>1, <1>2, <2>1, <2>2 DEF Past, Before
<1>. QED
  BY <1>3, <1>4

\* Statement j of file i declares a rule of the name.
Declares(i, j, n) == IsStmt(i, j) /\ StmtAt(i, j).kind = "rule" /\ StmtAt(i, j).name = n

\* A statement up to j of file i does; in a file of the same name, if it is here.
Declared(n, i, j) == \E k, l \in Nat : Declares(k, l, n) /\ ~Before(i, j, k, l)
DeclaredHere(n, i, j) ==
    \E k, l \in Nat : Declares(k, l, n) /\ ~Before(i, j, k, l) /\ sources[k] = sources[i]

\* A rule in scope is declared by a statement that the check has passed.
EnvInv ==
    First => \A n \in DOMAIN env : env[n].type = "rule" =>
                \E i, j \in Nat : Declares(i, j, n) /\ Past(i, j) /\ sources[i] = env[n].src

\* The check declares the statement it passes and removes what is private.
LEMMA EnvStep == TypeOK /\ Control /\ EnvInv /\ [Next]_vars => EnvInv'
<1> SUFFICES ASSUME TypeOK, Control, EnvInv, [Next]_vars, First',
                    NEW n \in DOMAIN env', env'[n].type = "rule"
             PROVE  (\E i, j \in Nat : Declares(i, j, n) /\ Past(i, j) /\ sources[i] = env[n].src)'
  BY DEF EnvInv
<1>1. CASE ac_compiler_compile /\ ~locked
  <2>1. DOMAIN env' = {}
    BY <1>1 DEF ac_compiler_compile, Control
  <2>. QED
    BY <2>1
<1>2. ASSUME First, UNCHANGED sources, n \in DOMAIN env, env'[n] = env[n],
             \A i, j : IsStmt(i, j) => (Past(i, j) => Past(i, j)')
      PROVE  (\E i, j \in Nat : Declares(i, j, n) /\ Past(i, j) /\ sources[i] = env[n].src)'
  <2>1. PICK i, j \in Nat : Declares(i, j, n) /\ Past(i, j) /\ sources[i] = env[n].src
    BY <1>2 DEF EnvInv
  <2>2. Declares(i, j, n)'
    BY <1>2, <2>1, SameSources DEF Declares
  <2>3. Past(i, j)'
    BY <1>2, <2>1 DEF Declares
  <2>. QED
    BY <1>2, <2>1, <2>2, <2>3
<1>3. CASE First /\ CheckStep
  <2>1. \A i, j : IsStmt(i, j) => (Past(i, j) => Past(i, j)')
    BY <1>3, PastStep
  <2>2. /\ IsStmt(file, stmt) /\ StmtAt(file, stmt) = Stmt
        /\ UNCHANGED sources
        /\ DOMAIN env' = DOMAIN env \cup {Stmt.name}
        /\ \A m \in DOMAIN env : env'[m] = env[m]
        /\ Stmt.name \notin DOMAIN env =>
              /\ env'[Stmt.name].src = sources[file]
              /\ env'[Stmt.name].type = "rule" => Stmt.kind = "rule"
    BY <1>3, CheckedStmt
  <2>3. CASE n \in DOMAIN env
    BY <1>2, <1>3, <2>1, <2>2, <2>3
  <2>4. CASE n \notin DOMAIN env
    <3>1. n = Stmt.name /\ Stmt.kind = "rule" /\ env'[n].src = sources[file]
      BY <2>2, <2>4
    <3>2. Declares(file, stmt, n) /\ file \in Nat /\ stmt \in Nat
      BY <2>2, <3>1, StmtAtType DEF Declares
    <3>3. PICK i, j \in Nat : i = file /\ j = stmt
      BY <3>2
    <3>4. Declares(i, j, n)'
      BY <2>2, <3>2, <3>3, SameSources DEF Declares
    <3>5. Past(i, j)'
      BY <1>3, <2>2, <3>3, PastStep
    <3>. QED
      BY <2>2, <3>1, <3>3, <3>4, <3>5
  <2>. QED
    BY <2>3, <2>4
<1>4. CASE First /\ EndOfCheckedFile
  <2>1. UNCHANGED sources /\ n \in DOMAIN env /\ env'[n] = env[n]
    BY <1>4 DEF EndOfCheckedFile, front
  <2>. QED
    BY <1>2, <1>4, <2>1, PastStep
<1>5. CASE /\ First /\ UNCHANGED <<sources, env, privates, rejected>>
           /\ \A i, j : IsStmt(i, j) => (Past(i, j)' <=> Past(i, j))
  BY <1>2, <1>5
<1>. QED
  BY <1>1, <1>3, <1>4, <1>5, FirstSteps

\* What a statement names is declared up to it, and what a sequence names as
\* its own, in its file.
Resolves(i, j) ==
    /\ StmtAt(i, j).kind = "rule" => \A n \in StmtAt(i, j).refs : Declared(n, i, j)
    /\ StmtAt(i, j).kind = "sequence" =>
          \A k \in 1..Len(StmtAt(i, j).rules) :
             IF StmtAt(i, j).rules[k].kind = "rule"
             THEN \A n \in StmtAt(i, j).rules[k].refs : Declared(n, i, j)
             ELSE DeclaredHere(StmtAt(i, j).rules[k].name, i, j)

\* So it is for every statement that was passed, if none has been refused.
RefsInv ==
    First /\ rejected = {} => \A i, j \in Nat : IsStmt(i, j) /\ Past(i, j) => Resolves(i, j)

\* With the same sources the same names are declared in the same places.
LEMMA SameMeaning ==
    ASSUME UNCHANGED sources
    PROVE  /\ \A i, j, n : Declares(i, j, n)' <=> Declares(i, j, n)
           /\ \A i, j, n : Declared(n, i, j)' <=> Declared(n, i, j)
           /\ \A i, j, n : DeclaredHere(n, i, j)' <=> DeclaredHere(n, i, j)
           /\ \A i, j : Resolves(i, j)' <=> Resolves(i, j)
<1>1. \A i, j, n : Declares(i, j, n)' <=> Declares(i, j, n)
  BY SameSources DEF Declares
<1>2. \A i, j, n : Declared(n, i, j)' <=> Declared(n, i, j)
  BY <1>1 DEF Declared
<1>3. \A i, j, n : DeclaredHere(n, i, j)' <=> DeclaredHere(n, i, j)
  BY <1>1 DEF DeclaredHere
<1>4. \A i, j : Resolves(i, j)' <=> Resolves(i, j)
  BY <1>2, <1>3, SameSources DEF Resolves
<1>. QED
  BY <1>1, <1>2, <1>3, <1>4

\* A rule that the statement being checked can see is declared up to it.
LEMMA SeenRule ==
    ASSUME TypeOK, Control, EnvInv', First', CheckStep,
           NEW n \in DOMAIN env', env'[n].type = "rule"
    PROVE  /\ Declared(n, file, stmt)
           /\ env'[n].src = sources[file] => DeclaredHere(n, file, stmt)
<1>1. PICK i, j \in Nat : Declares(i, j, n)' /\ Past(i, j)' /\ sources'[i] = env'[n].src
  BY DEF EnvInv
<1>2. UNCHANGED sources /\ ~done
  BY CheckedStmt DEF Control
<1>3. Declares(i, j, n)
  BY <1>1, <1>2, SameMeaning
<1>4. Past(i, j) \/ (i = file /\ j = stmt)
  BY <1>1, <1>3, PastStep DEF Declares
<1>5. ~Before(file, stmt, i, j)
  BY <1>1, <1>2, <1>4 DEF Past, Before, TypeOK
<1>. QED
  BY <1>1, <1>2, <1>3, <1>5 DEF Declared, DeclaredHere

\* What the check accepts was declared by statements passed before.
LEMMA RefsStep == TypeOK /\ Control /\ EnvInv' /\ RefsInv /\ [Next]_vars => RefsInv'
<1> SUFFICES ASSUME TypeOK, Control, EnvInv', RefsInv, [Next]_vars, First', rejected' = {},
                    NEW i \in Nat, NEW j \in Nat, IsStmt(i, j)', Past(i, j)'
             PROVE  Resolves(i, j)'
  BY DEF RefsInv
<1>1. CASE ac_compiler_compile /\ ~locked
  <2>1. ~done' /\ file' = 1 /\ stmt' = 1 /\ UNCHANGED sources
    BY <1>1 DEF ac_compiler_compile, StartCheck
  <2>2. i \in Nat \ {0} /\ j \in Nat \ {0}
    BY <2>1, StmtAtType, SameSources
  <2>. QED
    BY <2>1, <2>2 DEF Past, Before
<1>2. ASSUME First, UNCHANGED sources, rejected = {}, Past(i, j)
      PROVE  Resolves(i, j)'
  BY <1>2, SameSources, SameMeaning DEF RefsInv
<1>3. CASE First /\ CheckStep
  <2>1. /\ UNCHANGED sources /\ rejected = {} /\ StmtAt(file, stmt) = Stmt
        /\ Stmt.kind = "rule" => check_body(Stmt, env')
        /\ Stmt.kind = "sequence" => \A k \in 1..Len(Stmt.rules) : check_element(Stmt.rules[k], env')
    BY <1>3, CheckedStmt
  <2>2. IsStmt(i, j)
    BY <2>1, SameSources
  <2>3. CASE Past(i, j)
    BY <1>2, <1>3, <2>1, <2>3
  <2>4. CASE i = file /\ j = stmt
    <3>1. \A r : check_body(r, env') => \A n \in r.refs : Declared(n, file, stmt)
      BY <1>3, SeenRule DEF check_body, check_type
    <3>2. \A r : check_element(r, env') /\ r.kind = "external" => DeclaredHere(r.name, file, stmt)
      BY <1>3, SeenRule DEF check_element
    <3>3. \A r : check_element(r, env') /\ r.kind # "external" => check_body(r, env')
      BY DEF check_element
    <3>4. Stmt.kind = "sequence" => \A k \in 1..Len(Stmt.rules) : Stmt.rules[k].kind \in {"rule", "external"}
      BY <2>1, <2>2, <2>4, StmtAtType, StatementKinds, ElementKinds
    <3>5. Resolves(file, stmt)
      BY <2>1, <3>1, <3>2, <3>3, <3>4 DEF Resolves
    <3>. QED
      BY <2>1, <2>4, <3>5, SameMeaning
  <2>. QED
    BY <1>3, <2>2, <2>3, <2>4, PastStep
<1>4. CASE First /\ EndOfCheckedFile
  <2>1. UNCHANGED sources /\ rejected = {}
    BY <1>4 DEF EndOfCheckedFile, front
  <2>. QED
    BY <1>2, <1>4, <2>1, SameSources, PastStep
<1>5. CASE /\ First /\ UNCHANGED <<sources, env, privates, rejected>>
           /\ \A k, l : IsStmt(k, l) => (Past(k, l)' <=> Past(k, l))
  BY <1>2, <1>5, SameSources
<1>. QED
  BY <1>1, <1>3, <1>4, <1>5, FirstSteps

\* The first of all names, if not a rule's, stays in scope: no rule takes it.
FirstInv ==
    First => \A f \in Nat : IsFirst(f) /\ IsStmt(f, 1) /\ StmtAt(f, 1).kind # "rule" =>
        /\ Past(f, 1) /\ ~done => StmtAt(f, 1).name \in DOMAIN env \ privates
        /\ rejected = {} =>
              \A i, j \in Nat : Past(i, j) => ~Declares(i, j, StmtAt(f, 1).name)

\* The name of the first statement is never given up while its file is checked,
\* nor declared again by a statement that is accepted.
LEMMA FirstStep == TypeOK /\ Control /\ FirstInv /\ [Next]_vars => FirstInv'
<1> SUFFICES ASSUME TypeOK, Control, FirstInv, [Next]_vars, First' PROVE FirstInv'
  BY DEF FirstInv
<1>1. UNCHANGED sources
  <2>1. CheckStep => UNCHANGED sources
    BY CheckedStmt
  <2>2. ac_compiler_compile \/ EndOfCheckedFile => UNCHANGED sources
    BY DEF ac_compiler_compile, EndOfCheckedFile, front
  <2>. QED
    BY <2>1, <2>2, FirstSteps
<1> SUFFICES ASSUME NEW f \in Nat, IsFirst(f), IsStmt(f, 1), StmtAt(f, 1).kind # "rule"
             PROVE  /\ Past(f, 1)' /\ ~done' => StmtAt(f, 1).name \in DOMAIN env' \ privates'
                    /\ rejected' = {} =>
                          \A i, j \in Nat : Past(i, j)' => ~Declares(i, j, StmtAt(f, 1).name)
  <2>1. \A f : IsFirst(f)' <=> IsFirst(f)
    BY <1>1 DEF IsFirst
  <2>. QED
    BY <1>1, <2>1, SameSources DEF FirstInv, Declares
<1> DEFINE name == StmtAt(f, 1).name
<1>2. CASE ac_compiler_compile /\ ~locked
  <2>1. ~done' /\ file' = 1 /\ stmt' = 1
    BY <1>2, <1>1 DEF ac_compiler_compile, StartCheck, Control
  <2>2. \A i, j : IsStmt(i, j) => i \in Nat \ {0} /\ j \in Nat \ {0}
    BY StmtAtType
  <2>3. \A i, j : IsStmt(i, j) => ~Past(i, j)'
    BY <2>1, <2>2 DEF Past, Before
  <2>. QED
    BY <2>3 DEF Declares
<1>3. ASSUME First, rejected' = {} => rejected = {},
             \A i, j : IsStmt(i, j) => (Past(i, j)' <=> Past(i, j)),
             ~done' => ~done /\ DOMAIN env' \ privates' = DOMAIN env \ privates
      PROVE  /\ Past(f, 1)' /\ ~done' => name \in DOMAIN env' \ privates'
             /\ rejected' = {} => \A i, j \in Nat : Past(i, j)' => ~Declares(i, j, name)
  <2>1. Past(f, 1)' <=> Past(f, 1)
    BY <1>3
  <2>2. \A i, j : Declares(i, j, name) => (Past(i, j)' <=> Past(i, j))
    BY <1>3 DEF Declares
  <2>. QED
    BY <1>3, <2>1, <2>2 DEF FirstInv
<1>4. CASE First /\ CheckStep
  <2>1. /\ IsStmt(file, stmt) /\ StmtAt(file, stmt) = Stmt /\ ~done
        /\ DOMAIN env' = DOMAIN env \cup {Stmt.name}
        /\ privates' = privates \/ (Stmt.kind = "rule" /\ Stmt.name \notin DOMAIN env
                                    /\ privates' = privates \cup {Stmt.name})
        /\ rejected' = {} => rejected = {} /\ (Stmt.kind = "rule" => Stmt.name \notin DOMAIN env)
    BY <1>4, CheckedStmt DEF Control
  <2>2. file \in Nat /\ stmt \in Nat \ {0} /\ Body[sources[file]] # <<>>
    BY <2>1 DEF IsStmt, TypeOK
  <2>3. Past(f, 1) \/ (file = f /\ stmt = 1)
    <3>1. ~(file < f)
      <4>1. file < f => file \in 1..(f - 1)
        BY <2>1, <2>2, StmtAtType
      <4>. QED
        BY <2>2, <4>1 DEF IsFirst
    <3>. QED
      BY <2>2, <3>1 DEF Past, Before
  <2>4. name \in DOMAIN env' \ privates'
    <3>1. CASE Past(f, 1)
      BY <1>4, <2>1, <3>1 DEF FirstInv
    <3>2. CASE file = f /\ stmt = 1
      BY <2>1, <3>2 DEF Control
    <3>. QED
      BY <2>3, <3>1, <3>2
  <2>5. ASSUME rejected' = {}, NEW i \in Nat, NEW j \in Nat, Past(i, j)', Declares(i, j, name)
        PROVE  FALSE
    <3>1. CASE Past(i, j)
      BY <1>4, <2>1, <2>5, <3>1 DEF FirstInv
    <3>2. CASE i = file /\ j = stmt
      <4>1. Stmt.kind = "rule" /\ Stmt.name = name
        BY <2>1, <2>5, <3>2 DEF Declares
      <4>2. Past(f, 1)
        BY <2>1, <2>3, <4>1
      <4>3. name \in DOMAIN env
        BY <1>4, <2>1, <4>2 DEF FirstInv
      <4>. QED
        BY <2>1, <2>5, <4>1, <4>3
    <3>. QED
      BY <1>4, <2>5, <3>1, <3>2, PastStep DEF Declares
  <2>. QED
    BY <2>4, <2>5
<1>5. CASE First /\ EndOfCheckedFile
  <2>1. /\ DOMAIN env' \ privates' = DOMAIN env \ privates /\ UNCHANGED <<done, rejected>>
    BY <1>5 DEF EndOfCheckedFile
  <2>. QED
    BY <1>3, <1>5, <2>1, PastStep
<1>6. CASE /\ First /\ UNCHANGED <<sources, env, privates, rejected>> /\ (~done' => ~done)
           /\ \A i, j : IsStmt(i, j) => (Past(i, j)' <=> Past(i, j))
  BY <1>3, <1>6
<1>. QED
  BY <1>2, <1>4, <1>5, <1>6, FirstSteps

-----------------------------------------------------------------------------
(* The rule table and the places of the sources it has entries for *)

\* Element k of the sequence at j of file i, or the rule statement itself.
RuleAt(i, j, k) == IF k = 0 THEN StmtAt(i, j) ELSE StmtAt(i, j).rules[k]

IsPlace(i, j, k) ==
    /\ IsStmt(i, j) /\ k \in Nat
    /\ k = 0 => StmtAt(i, j).kind = "rule"
    /\ k # 0 => /\ StmtAt(i, j).kind = "sequence" /\ k \in 1..Len(StmtAt(i, j).rules)
                /\ StmtAt(i, j).rules[k].kind = "rule"

\* The compilation has passed the place.
Reached(i, j, k) ==
    pc = "compile" => Before(i, j, file, stmt) \/ (i = file /\ j = stmt /\ k \in 1..Len(indices))

\* A step that compiles the rule at a place, and one that compiles none.
AddsEntry(k) ==
    /\ done /\ done' /\ pc = "compile" /\ pc' = "compile"
    /\ UNCHANGED <<sources, modules, module_table, err>>
    /\ IsPlace(file, stmt, k) /\ ~Reached(file, stmt, k) /\ RuleCompiles(RuleAt(file, stmt, k))
    /\ rule_table' = Append(rule_table, RuleEntry(RuleAt(file, stmt, k), k))
    /\ \A i, j, l : IsPlace(i, j, l) =>
          (Reached(i, j, l)' <=> Reached(i, j, l) \/ (i = file /\ j = stmt /\ l = k))

KeepsEntries ==
    /\ UNCHANGED rule_table
    /\ rule_table # <<>> =>
          /\ UNCHANGED <<sources, modules>>
          /\ module_table' = module_table \/ \E m \in modules : module_table' = Append(module_table, m)
          /\ \A i, j, l : IsPlace(i, j, l) /\ Reached(i, j, l) => Reached(i, j, l)'
    /\ done' /\ err' = "SUCCESS" /\ pc' # "crashed" =>
          /\ UNCHANGED sources
          /\ \A i, j, l : IsPlace(i, j, l) /\ Reached(i, j, l)' =>
                done /\ err = "SUCCESS" /\ pc # "crashed" /\ Reached(i, j, l)

\* A place in the sources has a rule.
LEMMA PlaceType ==
    ASSUME TypeOK, NEW i, NEW j, NEW k, IsPlace(i, j, k)
    PROVE  /\ i \in Nat \ {0} /\ j \in Nat \ {0} /\ k \in Nat
           /\ StmtAt(i, j).kind \in {"rule", "sequence"}
           /\ RuleAt(i, j, k) \in Rule
           /\ RuleAt(i, j, k).anonymous <=> k # 0
<1>1. /\ i \in Nat \ {0} /\ j \in Nat \ {0} /\ StmtAt(i, j) \in Statement
      /\ Named(StmtAt(i, j)) /\ k \in Nat
  BY StmtAtType DEF IsPlace
<1>2. CASE k = 0
  <2>1. StmtAt(i, j).kind = "rule" /\ StmtAt(i, j) \in Rule
    BY <1>1, <1>2, StatementKinds DEF IsPlace
  <2>2. ~StmtAt(i, j).anonymous
    BY <1>1, <2>1 DEF Named
  <2>. QED
    BY <1>1, <1>2, <2>1, <2>2 DEF RuleAt
<1>3. CASE k # 0
  <2>1. /\ StmtAt(i, j).kind = "sequence" /\ StmtAt(i, j) \in Sequence
        /\ k \in 1..Len(StmtAt(i, j).rules) /\ StmtAt(i, j).rules[k].kind = "rule"
    BY <1>1, <1>3, StatementKinds DEF IsPlace
  <2>2. StmtAt(i, j).rules[k] \in Rule
    BY <2>1, ElementKinds
  <2>3. StmtAt(i, j).rules[k].anonymous
    BY <1>1, <2>1 DEF Named
  <2>. QED
    BY <1>1, <1>3, <2>1, <2>2, <2>3 DEF RuleAt
<1>. QED
  BY <1>2, <1>3

\* Steps while nothing is compiled yet.
LEMMA QuietTables ==
    ASSUME TypeOK, Control,
           \/ \E m \in Custom : ac_compiler_include_module(m)
           \/ \E f \in Files : ac_compiler_add_file(f)
           \/ ac_compiler_build_ast \/ ac_compiler_check_ast \/ ac_compiler_compile
           \/ CompileRefused \/ CheckStep \/ EndOfCheckedFile \/ EndOfCheck
           \/ Crash \/ EndOfCompile \/ EndOfCompiledFile \/ UNCHANGED vars
    PROVE  KeepsEntries
<1> USE DEF front, scope, tables
<1>1. CASE ~done /\ ~done' /\ UNCHANGED rule_table
  BY <1>1 DEF KeepsEntries, Control
<1>2. CASE done /\ UNCHANGED <<sources, modules, module_table, rule_table, pc>> /\ pc = "idle"
           /\ err' # "SUCCESS"
  BY <1>2 DEF KeepsEntries, Reached
<1>3. CASE \/ \E m \in Custom : ac_compiler_include_module(m)
           \/ \E f \in Files : ac_compiler_add_file(f)
           \/ ac_compiler_check_ast \/ ac_compiler_compile
  BY <1>1, <1>3 DEF ac_compiler_include_module, ac_compiler_add_file, ac_compiler_check_ast,
                    ac_compiler_compile
<1>4. CASE ac_compiler_build_ast \/ CompileRefused
  <2>1. pc = "idle" /\ UNCHANGED <<sources, modules, done, tables, pc>>
    BY <1>4 DEF ac_compiler_build_ast, CompileRefused
  <2>2. done => err' # "SUCCESS"
    <3>1. done => locked
      BY DEF Control
    <3>2. ac_compiler_build_ast => (locked => err' = "LOCKED")
      BY DEF ac_compiler_build_ast
    <3>3. CompileRefused => (done => err' = "DONE")
      BY Zenon DEF CompileRefused
    <3>. QED
      BY <1>4, <3>1, <3>2, <3>3
  <2>. QED
    BY <1>1, <1>2, <2>1, <2>2
<1>5. CASE CheckStep
  <2>1. ~done /\ ~done'
    BY <1>5, CheckedStmt DEF Control
  <2>2. UNCHANGED rule_table
    BY <1>5 DEF CheckStep, checker_import, checker_check_rule, checker_check_sequence, Verdict
  <2>. QED
    BY <1>1, <2>1, <2>2
<1>6. CASE EndOfCheckedFile
  BY <1>1, <1>6 DEF EndOfCheckedFile, Control
<1>7. CASE EndOfCheck
  <2>1. /\ ~done /\ rule_table = <<>> /\ rule_table' = <<>> /\ UNCHANGED sources
        /\ done' => pc' = "compile" /\ file' = 1 /\ stmt' = 1 /\ indices' = <<>>
    BY <1>7 DEF EndOfCheck, Control
  <2>2. \A i, j, l : IsPlace(i, j, l) /\ done' => ~Reached(i, j, l)'
    BY <2>1, PlaceType DEF Reached, Before
  <2>. QED
    BY <2>1, <2>2 DEF KeepsEntries
<1>8. CASE Crash \/ UNCHANGED vars
  BY <1>8 DEF Crash, vars, KeepsEntries, Reached, Before, Control
<1>9. CASE EndOfCompile \/ EndOfCompiledFile
  <2>1. /\ pc = "compile" /\ done /\ indices = <<>>
        /\ file > Len(sources) \/ (file \in 1..Len(sources) /\ stmt > Len(Body[sources[file]]))
    BY <1>9 DEF EndOfCompile, EndOfCompiledFile, Control, InSequence, Statements, TypeOK
  <2>2. /\ UNCHANGED <<sources, modules, module_table, rule_table, done, indices, err>>
        /\ \/ pc' = "idle" /\ file > Len(sources)
           \/ pc' = "compile" /\ file' = file + 1 /\ stmt' = 1
    BY <1>9 DEF EndOfCompile, EndOfCompiledFile
  <2>3. ASSUME NEW i, NEW j, NEW l, IsPlace(i, j, l) PROVE Reached(i, j, l)' <=> Reached(i, j, l)
    <3>1. i \in 1..Len(sources) /\ j \in 1..Len(Body[sources[i]]) /\ i \in Nat /\ j \in Nat \ {0}
      BY <2>3, PlaceType DEF IsPlace, IsStmt
    <3>2. Reached(i, j, l) <=> Before(i, j, file, stmt)
      BY <2>1 DEF Reached
    <3>3. i = file => j < stmt
      BY <2>1, <3>1 DEF TypeOK
    <3>4. CASE pc' = "idle" /\ file > Len(sources)
      BY <3>1, <3>2, <3>4 DEF Reached, Before, TypeOK
    <3>5. CASE pc' = "compile" /\ file' = file + 1 /\ stmt' = 1
      <4>1. Reached(i, j, l)' <=> Before(i, j, file + 1, 1)
        BY <2>1, <2>2, <3>5 DEF Reached, Before
      <4>. QED
        BY <3>1, <3>2, <3>3, <4>1 DEF Before, TypeOK
    <3>. QED
      BY <2>2, <3>4, <3>5
  <2>. QED
    BY <2>1, <2>2, <2>3 DEF KeepsEntries
<1>. QED
  BY <1>3, <1>4, <1>5, <1>6, <1>7, <1>8, <1>9

\* The end of a statement is reached when its places are.
LEMMA NextStatement ==
    ASSUME TypeOK, pc = "compile", pc' = "compile", file' = file, stmt' = stmt + 1, indices' = <<>>,
           NEW i, NEW j, NEW l, IsPlace(i, j, l)
    PROVE  Reached(i, j, l)' <=> Reached(i, j, l) \/ (i = file /\ j = stmt)
<1>1. i \in Nat /\ j \in Nat /\ file \in Nat /\ stmt \in Nat
  BY PlaceType DEF TypeOK
<1>2. Reached(i, j, l)' <=> Before(i, j, file, stmt + 1)
  BY DEF Reached, Before
<1>3. Reached(i, j, l) => Before(i, j, file, stmt) \/ (i = file /\ j = stmt)
  BY DEF Reached
<1>4. Before(i, j, file, stmt) => Reached(i, j, l)
  BY DEF Reached
<1>. QED
  BY <1>1, <1>2, <1>3, <1>4 DEF Before

\* Steps of the compilation: the rule at a place, or none.
LEMMA CompileTables ==
    ASSUME TypeOK, Control,
           \/ compiler_compile_import \/ CompileRule \/ CompileExternal \/ CompileAnonymous
           \/ compiler_add_sequence_entry
    PROVE  KeepsEntries \/ \E k \in Nat : AddsEntry(k) /\ (k = 0 \/ k = Len(indices) + 1)
<1> USE DEF front, scope, tables
<1>1. ASSUME done, pc = "compile", pc' = "compile",
             UNCHANGED <<sources, modules, rule_table>>,
             module_table' = module_table \/ \E m \in modules : module_table' = Append(module_table, m),
             err' = "SUCCESS" => err = "SUCCESS",
             \A i, j, l : IsPlace(i, j, l) => (Reached(i, j, l)' <=> Reached(i, j, l))
      PROVE  KeepsEntries
  BY <1>1 DEF KeepsEntries
<1>2. ASSUME done, pc = "compile", pc' = "compile",
             UNCHANGED <<sources, modules, module_table, rule_table>>, err' # "SUCCESS",
             \A i, j, l : IsPlace(i, j, l) /\ Reached(i, j, l) => Reached(i, j, l)'
      PROVE  KeepsEntries
  BY <1>2 DEF KeepsEntries
<1>3. CASE compiler_compile_import
  <2>1. /\ AtStatement("compile", "import")
        /\ UNCHANGED <<sources, modules, rule_table, done, pc, file, indices>> /\ stmt' = stmt + 1
        /\ module_table' = module_table \/ \E m \in modules : module_table' = Append(module_table, m)
        /\ err' = "SUCCESS" => err = "SUCCESS"
    BY <1>3 DEF compiler_compile_import
  <2>2. /\ pc = "compile" /\ pc' = "compile" /\ done /\ indices' = <<>>
        /\ StmtAt(file, stmt).kind = "import"
    BY <2>1, AtIts, CurrentStmt DEF Control, InSequence
  <2>3. \A i, j, l : IsPlace(i, j, l) => (Reached(i, j, l)' <=> Reached(i, j, l))
    BY <2>1, <2>2, NextStatement, PlaceType
  <2>. QED
    BY <1>1, <2>1, <2>2, <2>3
<1>4. CASE CompileRule
  <2>1. /\ AtStatement("compile", "rule") /\ compiler_compile_rule(Stmt, 0)
        /\ UNCHANGED <<sources, modules, module_table, done, pc, file, indices>> /\ stmt' = stmt + 1
    BY <1>4 DEF CompileRule
  <2>2. /\ pc = "compile" /\ pc' = "compile" /\ done /\ done' /\ indices = <<>> /\ indices' = <<>>
        /\ Stmt.kind = "rule" /\ StmtAt(file, stmt) = Stmt /\ IsStmt(file, stmt) /\ Stmt \in Rule
        /\ file <= Len(sources) /\ stmt <= Len(Statements)
    BY <2>1, AtIts, CurrentStmt DEF Control, InSequence
  <2>3. /\ RuleCompiles(Stmt) => rule_table' = Append(rule_table, RuleEntry(Stmt, 0)) /\ UNCHANGED err
        /\ ~RuleCompiles(Stmt) => UNCHANGED rule_table /\ err' # "SUCCESS"
    BY <2>1, <2>2, CompiledRule
  <2>4. \A i, j, l : IsPlace(i, j, l) =>
           (Reached(i, j, l)' <=> Reached(i, j, l) \/ (i = file /\ j = stmt))
    BY <2>1, <2>2, NextStatement
  <2>5. CASE RuleCompiles(Stmt)
    <3>1. RuleAt(file, stmt, 0) = Stmt /\ IsPlace(file, stmt, 0)
      BY <2>2 DEF RuleAt, IsPlace
    <3>2. ~Reached(file, stmt, 0)
      BY <2>2 DEF Reached, Before, TypeOK
    <3>3. \A l : IsPlace(file, stmt, l) => l = 0
      BY <2>2 DEF IsPlace
    <3>4. AddsEntry(0)
      BY <2>1, <2>2, <2>3, <2>4, <2>5, <3>1, <3>2, <3>3 DEF AddsEntry
    <3>. QED
      BY <3>4
  <2>6. CASE ~RuleCompiles(Stmt)
    BY <1>2, <2>1, <2>2, <2>3, <2>4, <2>6
  <2>. QED
    BY <2>5, <2>6
<1>5. ASSUME CompileExternal \/ CompileAnonymous
      PROVE  /\ pc = "compile" /\ pc' = "compile" /\ done /\ done'
             /\ UNCHANGED <<sources, modules, module_table>>
             /\ StmtAt(file, stmt) = Stmt /\ IsStmt(file, stmt) /\ Stmt.kind = "sequence"
             /\ Len(indices) + 1 \in 1..Len(Stmt.rules) /\ Len(indices) + 1 \in Nat \ {0}
             /\ Element = Stmt.rules[Len(indices) + 1]
             /\ file <= Len(sources) /\ stmt <= Len(Statements)
             /\ ~Reached(file, stmt, Len(indices) + 1)
             /\ \A i, j, l : IsPlace(i, j, l) =>
                   (Reached(i, j, l)' <=> Reached(i, j, l)
                                          \/ (i = file /\ j = stmt /\ l = Len(indices) + 1))
  <2>1. /\ AtStatement("compile", "sequence")
        /\ UNCHANGED <<sources, modules, module_table, done, pc, file, stmt>>
        /\ Len(indices') = Len(indices) + 1 /\ Len(indices) \in Nat
    BY <1>5, NextIndex DEF TypeOK
  <2>2. /\ pc = "compile" /\ pc' = "compile" /\ done /\ done'
        /\ StmtAt(file, stmt) = Stmt /\ IsStmt(file, stmt) /\ Stmt.kind = "sequence"
        /\ file <= Len(sources) /\ stmt <= Len(Statements)
    BY <2>1, AtIts, CurrentStmt DEF Control
  <2>3. Len(indices) + 1 \in 1..Len(Stmt.rules) /\ Len(indices) + 1 \in Nat \ {0}
    BY <1>5, AtIt DEF CompileExternal, CompileAnonymous
  <2>4. ~Reached(file, stmt, Len(indices) + 1)
    BY <2>1, <2>2 DEF Reached, Before, TypeOK
  <2>5. \A i, j, l : IsPlace(i, j, l) =>
           (Reached(i, j, l)' <=> Reached(i, j, l) \/ (i = file /\ j = stmt /\ l = Len(indices) + 1))
    BY <2>1, <2>2 DEF Reached, Before, IsPlace
  <2>. QED
    BY <2>1, <2>2, <2>3, <2>4, <2>5 DEF Element
<1>6. CASE CompileExternal
  <2>1. Element.kind = "external" /\ UNCHANGED <<rule_table, err>>
    BY <1>6 DEF CompileExternal, AtElement
  <2>2. ~IsPlace(file, stmt, Len(indices) + 1)
    BY <1>5, <1>6, <2>1 DEF IsPlace
  <2>. QED
    BY <1>1, <1>5, <1>6, <2>1, <2>2
<1>7. CASE CompileAnonymous
  <2>1. /\ Element.kind = "rule" /\ Element \in Rule
        /\ compiler_compile_rule(Element, Len(indices) + 1)
    BY <1>7, AtIt DEF CompileAnonymous
  <2>2. PICK k \in Nat \ {0} : k = Len(indices) + 1
    BY <1>5, <1>7
  <2>3. /\ RuleCompiles(Element) => rule_table' = Append(rule_table, RuleEntry(Element, k)) /\ UNCHANGED err
        /\ ~RuleCompiles(Element) => UNCHANGED rule_table /\ err' # "SUCCESS"
    BY <1>5, <1>7, <2>1, <2>2, CompiledRule
  <2>4. CASE RuleCompiles(Element)
    <3>1. RuleAt(file, stmt, k) = Element /\ IsPlace(file, stmt, k)
      BY <1>5, <1>7, <2>1, <2>2 DEF RuleAt, IsPlace
    <3>2. AddsEntry(k)
      BY <1>5, <1>7, <2>2, <2>3, <2>4, <3>1 DEF AddsEntry
    <3>. QED
      BY <2>2, <3>2
  <2>5. CASE ~RuleCompiles(Element)
    BY <1>2, <1>5, <1>7, <2>3, <2>5
  <2>. QED
    BY <2>4, <2>5
<1>8. CASE compiler_add_sequence_entry
  <2>1. /\ AtStatement("compile", "sequence") /\ Len(indices) = Len(Stmt.rules)
        /\ UNCHANGED <<sources, modules, module_table, rule_table, done, pc, file, err>>
        /\ stmt' = stmt + 1 /\ indices' = <<>>
    BY <1>8 DEF compiler_add_sequence_entry
  <2>2. /\ pc = "compile" /\ pc' = "compile" /\ done
        /\ StmtAt(file, stmt) = Stmt /\ Stmt.kind = "sequence"
    BY <2>1, AtIts, CurrentStmt DEF Control
  <2>3. \A l : IsPlace(file, stmt, l) => Reached(file, stmt, l)
    BY <2>1, <2>2 DEF IsPlace, Reached
  <2>4. \A i, j, l : IsPlace(i, j, l) => (Reached(i, j, l)' <=> Reached(i, j, l))
    BY <2>1, <2>2, <2>3, NextStatement
  <2>. QED
    BY <1>1, <2>1, <2>2, <2>4
<1>. QED
  BY <1>3, <1>4, <1>6, <1>7, <1>8

\* Every step keeps the entries or adds the one of the place it passes.
LEMMA TableSteps ==
    ASSUME TypeOK, Control, [Next]_vars
    PROVE  KeepsEntries \/ \E k \in Nat : AddsEntry(k)
BY QuietTables, CompileTables DEF Next, Step, CheckStep

\* With the same sources the same rules are in the same places.
LEMMA SameRules ==
    ASSUME UNCHANGED sources
    PROVE  /\ \A i, j, k : RuleAt(i, j, k)' = RuleAt(i, j, k) /\ (IsPlace(i, j, k)' <=> IsPlace(i, j, k))
           /\ \A f : IsFirst(f)' <=> IsFirst(f)
           /\ \A r : EntryName(r)' = EntryName(r)
<1>1. \A i, j, k : RuleAt(i, j, k)' = RuleAt(i, j, k) /\ (IsPlace(i, j, k)' <=> IsPlace(i, j, k))
  BY SameSources DEF RuleAt, IsPlace
<1>2. \A f : IsFirst(f)' <=> IsFirst(f)
  BY DEF IsFirst
<1>3. \A r : EntryName(r)' = EntryName(r)
  BY DEF EntryName, FirstString
<1>. QED
  BY <1>1, <1>2, <1>3

\* Once the compilation has begun, nothing it depends on changes, and an error
\* it returned is never replaced by success.
LEMMA DoneStays ==
    ASSUME TypeOK, Control, [Next]_vars, done
    PROVE  /\ done' /\ UNCHANGED <<sources, modules, rejected>>
           /\ err' = "SUCCESS" => err = "SUCCESS"
<1> USE DEF front, scope, tables
<1>1. pc # "check" /\ locked
  BY DEF Control
<1>2. CASE \/ \E m \in Custom : ac_compiler_include_module(m)
           \/ \E f \in Files : ac_compiler_add_file(f)
           \/ ac_compiler_check_ast \/ ac_compiler_compile
  BY <1>2 DEF ac_compiler_include_module, ac_compiler_add_file, ac_compiler_check_ast,
              ac_compiler_compile
<1>3. CASE CheckStep \/ EndOfCheckedFile \/ EndOfCheck
  BY <1>1, <1>3, CheckedStmt DEF EndOfCheckedFile, EndOfCheck
<1>4. CASE ac_compiler_build_ast
  BY <1>1, <1>4 DEF ac_compiler_build_ast
<1>5. CASE CompileRefused
  <2>1. err' = "DONE"
    BY <1>5, Zenon DEF CompileRefused
  <2>. QED
    BY <1>5, <2>1 DEF CompileRefused
<1>6. CASE compiler_compile_import
  BY <1>6 DEF compiler_compile_import
<1>7. ASSUME NEW r, NEW k, compiler_compile_rule(r, k) PROVE err' = "SUCCESS" => err = "SUCCESS"
  BY <1>7 DEF compiler_compile_rule
<1>8. CASE CompileRule \/ CompileAnonymous
  BY <1>7, <1>8 DEF CompileRule, CompileAnonymous
<1>9. CASE \/ CompileExternal \/ compiler_add_sequence_entry \/ Crash
           \/ EndOfCompiledFile \/ EndOfCompile \/ UNCHANGED vars
  BY <1>9 DEF CompileExternal, compiler_add_sequence_entry, Crash, EndOfCompiledFile,
              EndOfCompile, vars
<1>. QED
  BY <1>2, <1>3, <1>4, <1>5, <1>6, <1>8, <1>9 DEF Next, Step, CheckStep

\* Entry e of the table is that of the rule at the place.
EntryFor(e, i, j, k) ==
    /\ IsPlace(i, j, k) /\ Reached(i, j, k) /\ rule_table[e].at = <<i, j, k>>
    /\ rule_table[e].name = EntryName(RuleAt(i, j, k))
    /\ rule_table[e].refs = RuleAt(i, j, k).refs
    /\ rule_table[e].private = RuleAt(i, j, k).private
    /\ rule_table[e].anonymous = RuleAt(i, j, k).anonymous
    /\ RuleAt(i, j, k).event # NoName =>
          /\ RuleAt(i, j, k).event \in modules
          /\ rule_table[e].ordinal \in 1..Len(module_table)
          /\ RuleAt(i, j, k).event \in Prefixed[module_table[rule_table[e].ordinal]]

\* Every entry is that of one place, and no two are of the same.
EntriesInv ==
    /\ \A e \in 1..Len(rule_table) : \E i, j, k \in Nat : EntryFor(e, i, j, k)
    /\ \A d, e \in 1..Len(rule_table) : d # e => rule_table[d].at # rule_table[e].at

\* While no error has occurred, every place reached has its entry.
CompleteInv ==
    done /\ err = "SUCCESS" /\ pc # "crashed" =>
        \A i, j, k : IsPlace(i, j, k) /\ Reached(i, j, k) =>
            \E e \in 1..Len(rule_table) : rule_table[e].at = <<i, j, k>>

\* The entry that AddsEntry adds.
LEMMA NewEntry ==
    ASSUME TypeOK, NEW k \in Nat, AddsEntry(k), NEW i, NEW j, i = file, j = stmt,
           NEW e, e = Len(rule_table) + 1
    PROVE  /\ e \in Nat \ {0} /\ 1..Len(rule_table') = (1..Len(rule_table)) \cup {e}
           /\ e \notin 1..Len(rule_table)
           /\ \A d \in 1..Len(rule_table) : rule_table'[d] = rule_table[d]
           /\ EntryFor(e, i, j, k)'
<1> DEFINE r == RuleAt(i, j, k)
<1>1. /\ IsPlace(i, j, k) /\ RuleCompiles(r) /\ rule_table' = Append(rule_table, RuleEntry(r, k))
      /\ UNCHANGED <<sources, modules, module_table>>
  BY DEF AddsEntry
<1>2. /\ e \in Nat \ {0} /\ Len(rule_table) \in Nat /\ Len(rule_table') = e
      /\ rule_table'[e] = RuleEntry(r, k)
      /\ \A d \in 1..Len(rule_table) : rule_table'[d] = rule_table[d]
  <2> HIDE DEF r
  <2>1. rule_table \in Seq(RuleRecord)
    BY DEF TypeOK
  <2>. QED
    BY <1>1, <2>1
<1>3. 1..Len(rule_table') = (1..Len(rule_table)) \cup {e} /\ e \notin 1..Len(rule_table)
  BY <1>2
<1>4. Reached(i, j, k)'
  BY <1>1 DEF AddsEntry
<1>5. /\ rule_table'[e].at = <<i, j, k>> /\ rule_table'[e].name = EntryName(r)
      /\ rule_table'[e].refs = r.refs /\ rule_table'[e].private = r.private
      /\ rule_table'[e].anonymous = r.anonymous
      /\ r.event # NoName => rule_table'[e].ordinal = compiler_find_module_ordinal(r.event)
  <2> HIDE DEF r
  <2>. QED
    BY <1>2 DEF RuleEntry
<1>6. r.event # NoName =>
         /\ r.event \in modules
         /\ compiler_find_module_ordinal(r.event) \in 1..Len(module_table)
         /\ r.event \in Prefixed[module_table[compiler_find_module_ordinal(r.event)]]
  <2> HIDE DEF r
  <2>1. Len(module_table) \in Nat
    BY DEF TypeOK
  <2>. QED
    BY <1>1, <2>1, FoundModule DEF RuleCompiles
<1>7. EntryFor(e, i, j, k)'
  <2>1. RuleAt(i, j, k)' = r /\ IsPlace(i, j, k)' /\ EntryName(r)' = EntryName(r)
    BY <1>1, SameRules
  <2>2. EntryName(RuleAt(i, j, k))' = EntryName(r)
    BY <1>1, <2>1 DEF EntryName, FirstString
  <2> HIDE DEF r
  <2>. QED
    BY <1>1, <1>4, <1>5, <1>6, <2>1, <2>2 DEF EntryFor
<1>. QED
  BY <1>2, <1>3, <1>7

\* A new entry is that of a place that no entry before it is of.
LEMMA EntriesStep == TypeOK /\ Control /\ EntriesInv /\ [Next]_vars => EntriesInv'
<1> SUFFICES ASSUME TypeOK, Control, EntriesInv, [Next]_vars PROVE EntriesInv'
  OBVIOUS
<1>1. CASE KeepsEntries /\ rule_table = <<>>
  BY <1>1 DEF KeepsEntries, EntriesInv
<1>2. ASSUME rule_table # <<>>, UNCHANGED <<sources, modules>>,
             module_table' = module_table \/ \E m \in modules : module_table' = Append(module_table, m),
             NEW e \in 1..Len(rule_table), rule_table'[e] = rule_table[e],
             \A i, j, l : IsPlace(i, j, l) /\ Reached(i, j, l) => Reached(i, j, l)'
      PROVE  \E i, j, k \in Nat : EntryFor(e, i, j, k)'
  <2>1. PICK i, j, k \in Nat : EntryFor(e, i, j, k)
    BY DEF EntriesInv
  <2>2. /\ RuleAt(i, j, k)' = RuleAt(i, j, k) /\ (IsPlace(i, j, k)' <=> IsPlace(i, j, k))
        /\ EntryName(RuleAt(i, j, k))' = EntryName(RuleAt(i, j, k))
    BY <1>2, SameRules DEF EntryName, FirstString
  <2>3. \A o \in 1..Len(module_table) : o \in 1..Len(module_table') /\ module_table'[o] = module_table[o]
    <3>1. module_table \in Seq(modules) /\ Len(module_table) \in Nat
      BY DEF TypeOK
    <3>2. CASE module_table' = module_table
      BY <3>2
    <3>3. ASSUME NEW m \in modules, module_table' = Append(module_table, m),
                 NEW o \in 1..Len(module_table)
          PROVE  o \in 1..Len(module_table') /\ module_table'[o] = module_table[o]
      BY <3>1, <3>3
    <3>. QED
      BY <1>2, <3>2, <3>3
  <2>4. EntryFor(e, i, j, k)'
    BY <1>2, <2>1, <2>2, <2>3 DEF EntryFor
  <2>. QED
    BY <2>4
<1>3. CASE KeepsEntries /\ rule_table # <<>>
  BY <1>2, <1>3 DEF KeepsEntries, EntriesInv
<1>4. ASSUME NEW k \in Nat, AddsEntry(k) PROVE EntriesInv'
  <2>1. PICK i, j, e : i = file /\ j = stmt /\ e = Len(rule_table) + 1
    OBVIOUS
  <2>2. /\ e \in Nat \ {0} /\ 1..Len(rule_table') = (1..Len(rule_table)) \cup {e}
        /\ e \notin 1..Len(rule_table)
        /\ \A d \in 1..Len(rule_table) : rule_table'[d] = rule_table[d]
        /\ EntryFor(e, i, j, k)'
    BY <1>4, <2>1, NewEntry
  <2>3. /\ UNCHANGED <<sources, modules, module_table>>
        /\ IsPlace(i, j, k) /\ ~Reached(i, j, k)
        /\ \A m, n, l : IsPlace(m, n, l) /\ Reached(m, n, l) => Reached(m, n, l)'
    BY <1>4, <2>1 DEF AddsEntry
  <2>4. i \in Nat /\ j \in Nat
    BY <2>3, PlaceType
  <2>5. \A d \in 1..Len(rule_table) : \E m, n, l \in Nat : EntryFor(d, m, n, l)'
    <3>1. \A d \in 1..Len(rule_table) : rule_table # <<>>
      BY EmptySeq
    <3>. QED
      BY <1>2, <2>2, <2>3, <3>1
  <2>6. \A d \in 1..Len(rule_table) : rule_table[d].at # <<i, j, k>>
    <3> SUFFICES ASSUME NEW d \in 1..Len(rule_table), rule_table[d].at = <<i, j, k>> PROVE FALSE
      OBVIOUS
    <3>1. PICK m, n, l \in Nat : EntryFor(d, m, n, l)
      BY DEF EntriesInv
    <3>2. <<m, n, l>> = <<i, j, k>> /\ Reached(m, n, l)
      BY <3>1 DEF EntryFor
    <3>3. m = i /\ n = j /\ l = k
      BY <3>2
    <3>. QED
      BY <2>3, <3>2, <3>3
  <2>7. rule_table'[e].at = <<i, j, k>>
    BY <2>2 DEF EntryFor
  <2>8. \A d, f \in 1..Len(rule_table') : d # f => rule_table'[d].at # rule_table'[f].at
    BY <2>2, <2>6, <2>7 DEF EntriesInv
  <2>9. \E m, n, l \in Nat : EntryFor(e, m, n, l)'
    BY <2>2, <2>4
  <2>10. \A d \in 1..Len(rule_table') : \E m, n, l \in Nat : EntryFor(d, m, n, l)'
    BY <2>2, <2>5, <2>9
  <2>. QED
    BY <2>8, <2>10 DEF EntriesInv
<1>. QED
  BY <1>1, <1>3, <1>4, TableSteps

\* A place that is passed without an error gets its entry.
LEMMA CompleteStep == TypeOK /\ Control /\ CompleteInv /\ [Next]_vars => CompleteInv'
<1> SUFFICES ASSUME TypeOK, Control, CompleteInv, [Next]_vars, done', err' = "SUCCESS", pc' # "crashed",
                    NEW i, NEW j, NEW l, IsPlace(i, j, l)', Reached(i, j, l)'
             PROVE  \E e \in 1..Len(rule_table') : rule_table'[e].at = <<i, j, l>>
  BY DEF CompleteInv
<1>1. CASE KeepsEntries
  <2>1. UNCHANGED <<sources, rule_table>>
    BY <1>1 DEF KeepsEntries
  <2>2. IsPlace(i, j, l)
    BY <2>1, SameRules
  <2>. QED
    BY <1>1, <2>1, <2>2 DEF KeepsEntries, CompleteInv
<1>2. ASSUME NEW k \in Nat, AddsEntry(k)
      PROVE  \E e \in 1..Len(rule_table') : rule_table'[e].at = <<i, j, l>>
  <2>1. PICK m, n, e : m = file /\ n = stmt /\ e = Len(rule_table) + 1
    OBVIOUS
  <2>2. /\ 1..Len(rule_table') = (1..Len(rule_table)) \cup {e}
        /\ \A d \in 1..Len(rule_table) : rule_table'[d] = rule_table[d]
        /\ EntryFor(e, m, n, k)'
    BY <1>2, <2>1, NewEntry
  <2>3. /\ done /\ err = "SUCCESS" /\ pc # "crashed" /\ UNCHANGED sources
    BY <1>2 DEF AddsEntry
  <2>4. IsPlace(i, j, l)
    BY <2>3, SameRules
  <2>5. Reached(i, j, l) \/ (i = m /\ j = n /\ l = k)
    BY <1>2, <2>1, <2>4 DEF AddsEntry
  <2>6. rule_table'[e].at = <<m, n, k>>
    BY <2>2 DEF EntryFor
  <2>7. CASE Reached(i, j, l)
    <3>1. PICK d \in 1..Len(rule_table) : rule_table[d].at = <<i, j, l>>
      BY <2>3, <2>4, <2>7 DEF CompleteInv
    <3>2. d \in 1..Len(rule_table') /\ rule_table'[d].at = <<i, j, l>>
      BY <2>2, <3>1
    <3>. QED
      BY <3>2
  <2>8. CASE i = m /\ j = n /\ l = k
    BY <2>2, <2>6, <2>8
  <2>. QED
    BY <2>5, <2>7, <2>8
<1>. QED
  BY <1>1, <1>2, TableSteps

\* A new compiler has checked and compiled nothing.
LEMMA InitTables == Init => EnvInv /\ RefsInv /\ FirstInv /\ EntriesInv /\ CompleteInv
BY DEF Init, First, EnvInv, RefsInv, FirstInv, EntriesInv, CompleteInv

\* What check and compilation establish always holds.
LEMMA TablesCorrect ==
    Spec => [](TypeOK /\ Control /\ EnvInv /\ RefsInv /\ FirstInv /\ EntriesInv /\ CompleteInv)
BY InitType, InitControl, InitTables, NextType, ControlStep, EnvStep, RefsStep, FirstStep,
   EntriesStep, CompleteStep, PTL DEF Spec

-----------------------------------------------------------------------------
(* References: what a rule refers to comes before it in the table.          *)

BackInv ==
    Clean => \A e \in 1..Len(rule_table) : \A n \in rule_table[e].refs :
                \E d \in 1..e : rule_table[d].name = n

\* A statement passed without an error has its entry, with its name.
LEMMA EntryOfStmt ==
    ASSUME TypeOK, Control, EntriesInv, CompleteInv, Clean, pc # "crashed",
           NEW i, NEW j, NEW n, Declares(i, j, n), Reached(i, j, 0)
    PROVE  \E d \in 1..Len(rule_table) : rule_table[d].name = n /\ rule_table[d].at = <<i, j, 0>>
<1>1. IsPlace(i, j, 0) /\ RuleAt(i, j, 0) = StmtAt(i, j) /\ StmtAt(i, j).name = n
  BY DEF Declares, IsPlace, RuleAt
<1>2. ~StmtAt(i, j).anonymous
  BY <1>1, PlaceType
<1>3. PICK d \in 1..Len(rule_table) : rule_table[d].at = <<i, j, 0>>
  BY <1>1 DEF CompleteInv, Clean
<1>4. PICK k, l, m \in Nat : EntryFor(d, k, l, m)
  BY DEF EntriesInv
<1>5. k = i /\ l = j /\ m = 0 /\ rule_table[d].name = EntryName(RuleAt(k, l, m))
  <2>1. <<k, l, m>> = <<i, j, 0>>
    BY <1>3, <1>4 DEF EntryFor
  <2>. QED
    BY <1>4, <2>1 DEF EntryFor
<1>6. rule_table[d].name = n
  BY <1>1, <1>2, <1>5 DEF EntryName
<1>. QED
  BY <1>3, <1>6

\* The rule that a new entry refers to was passed, so it has an entry already.
LEMMA BackStep ==
    TypeOK /\ Control /\ RefsInv /\ EntriesInv /\ CompleteInv /\ BackInv /\ [Next]_vars => BackInv'
<1> SUFFICES ASSUME TypeOK, Control, RefsInv, EntriesInv, CompleteInv, BackInv, [Next]_vars, Clean'
             PROVE  \A e \in 1..Len(rule_table') : \A n \in rule_table'[e].refs :
                       \E d \in 1..e : rule_table'[d].name = n
  BY DEF BackInv
<1>1. done => Clean /\ UNCHANGED sources
  BY DoneStays DEF Clean
<1>2. CASE KeepsEntries
  <2>1. CASE rule_table = <<>>
    BY <1>2, <2>1 DEF KeepsEntries
  <2>2. CASE rule_table # <<>>
    BY <1>1, <1>2, <2>2 DEF KeepsEntries, BackInv, Control
  <2>. QED
    BY <2>1, <2>2
<1>3. ASSUME NEW k \in Nat, AddsEntry(k)
      PROVE  \A e \in 1..Len(rule_table') : \A n \in rule_table'[e].refs :
                \E d \in 1..e : rule_table'[d].name = n
  <2>1. PICK i, j, e : i = file /\ j = stmt /\ e = Len(rule_table) + 1
    OBVIOUS
  <2>2. /\ e \in Nat \ {0} /\ 1..Len(rule_table') = (1..Len(rule_table)) \cup {e}
        /\ e \notin 1..Len(rule_table) /\ Len(rule_table) \in Nat
        /\ \A d \in 1..Len(rule_table) : rule_table'[d] = rule_table[d]
        /\ EntryFor(e, i, j, k)'
    BY <1>3, <2>1, NewEntry DEF TypeOK
  <2>3. /\ done /\ pc = "compile" /\ IsPlace(i, j, k) /\ Clean /\ UNCHANGED sources
    BY <1>1, <1>3, <2>1 DEF AddsEntry
  <2>4. \A d \in 1..Len(rule_table) : \A n \in rule_table'[d].refs :
           \E c \in 1..d : rule_table'[c].name = n
    <3> SUFFICES ASSUME NEW d \in 1..Len(rule_table), NEW n \in rule_table'[d].refs
                 PROVE  \E c \in 1..d : rule_table'[c].name = n
      OBVIOUS
    <3>1. PICK c \in 1..d : rule_table[c].name = n
      BY <2>2, <2>3 DEF BackInv
    <3>2. c \in 1..Len(rule_table)
      BY <2>2
    <3>. QED
      BY <2>2, <3>1, <3>2
  <2>5. ASSUME NEW n \in rule_table'[e].refs PROVE \E d \in 1..e : rule_table'[d].name = n
    <3>1. n \in RuleAt(i, j, k).refs /\ rule_table'[e].name = EntryName(RuleAt(i, j, k))
      <4>1. rule_table'[e].refs = RuleAt(i, j, k)'.refs /\ rule_table'[e].name = EntryName(RuleAt(i, j, k))'
        BY <2>2 DEF EntryFor
      <4>2. RuleAt(i, j, k)' = RuleAt(i, j, k) /\ EntryName(RuleAt(i, j, k))' = EntryName(RuleAt(i, j, k))
        BY <2>3, SameRules DEF EntryName, FirstString
      <4>. QED
        BY <2>5, <4>1, <4>2
    <3>2. Declared(n, i, j)
      <4>1. i \in Nat /\ j \in Nat /\ IsStmt(i, j) /\ First /\ Past(i, j)
        BY <2>3, PlaceType DEF IsPlace, First, Past, Control
      <4>2. Resolves(i, j)
        BY <2>3, <4>1 DEF RefsInv, Clean
      <4>. QED
        BY <2>3, <3>1, <4>2 DEF Resolves, RuleAt, IsPlace
    <3>3. PICK l, m \in Nat : Declares(l, m, n) /\ ~Before(i, j, l, m)
      BY <3>2 DEF Declared
    <3>4. Before(l, m, file, stmt) \/ (l = i /\ m = j)
      BY <2>1, <3>3 DEF Before, TypeOK
    <3>5. CASE Before(l, m, file, stmt)
      <4>1. PICK d \in 1..Len(rule_table) : rule_table[d].name = n
        BY <2>3, <3>3, <3>5, EntryOfStmt DEF Reached
      <4>2. d \in 1..e /\ rule_table'[d].name = n
        BY <2>1, <2>2, <4>1
      <4>. QED
        BY <4>2
    <3>6. CASE l = i /\ m = j
      <4>1. k = 0 /\ RuleAt(i, j, k) = StmtAt(i, j) /\ StmtAt(i, j).name = n
        BY <2>3, <3>3, <3>6 DEF Declares, IsPlace, RuleAt
      <4>2. ~StmtAt(i, j).anonymous
        BY <2>3, <4>1, PlaceType
      <4>3. rule_table'[e].name = n
        BY <3>1, <4>1, <4>2 DEF EntryName
      <4>. QED
        BY <2>2, <4>3
    <3>. QED
      BY <3>4, <3>5, <3>6
  <2>. QED
    BY <2>2, <2>4, <2>5
<1>. QED
  BY <1>2, <1>3, TableSteps

\* In sources that passed the check a rule refers to rules up to itself: the
\* entry that a name is looked up by is never a later one.
THEOREM BackCorrect == Spec => []ReferencesGoBack
<1>1. Init => BackInv
  BY DEF Init, BackInv
<1>2. TypeOK /\ BackInv => ReferencesGoBack
  <2> SUFFICES ASSUME TypeOK, BackInv, Clean, NEW i \in 1..Len(rule_table), NEW n \in rule_table[i].refs
               PROVE  find_rule_idx_by_name(rule_table, n) \in 1..i
    BY DEF ReferencesGoBack
  <2>1. Len(rule_table) \in Nat
    BY DEF TypeOK
  <2>2. PICK d \in 1..i : rule_table[d].name = n
    BY DEF BackInv
  <2>3. d \in 1..Len(rule_table)
    BY <2>1
  <2>4. find_rule_idx_by_name(rule_table, n) \in 1..d
    BY <2>1, <2>2, <2>3, FoundRule
  <2>. QED
    BY <2>1, <2>4
<1>. QED
  BY <1>1, <1>2, TablesCorrect, BackStep, PTL DEF Spec

-----------------------------------------------------------------------------
(* Completeness: success means one entry for every rule of the sources.     *)

\* A rule written in the sources is at a place.
LEMMA WrittenPlace ==
    ASSUME TypeOK, NEW p \in Written, NEW w \in RulesAt(p)
    PROVE  \E i, j, k : /\ IsPlace(i, j, k) /\ w.at = <<i, j, k>> /\ w.rule = RuleAt(i, j, k)
<1>1. PICK i \in 1..Len(sources) : p \in {<<i, j>> : j \in 1..Len(Body[sources[i]])}
  BY DEF Written
<1>2. PICK j \in 1..Len(Body[sources[i]]) : p = <<i, j>>
  BY <1>1
<1>3. p[1] = i /\ p[2] = j /\ At(p) = StmtAt(i, j) /\ IsStmt(i, j)
  BY <1>2 DEF At, StmtAt, IsStmt
<1>4. At(p).kind \in {"import", "rule", "sequence"}
  BY <1>3, StmtAtType, StatementKinds
<1>5. CASE At(p).kind = "rule"
  <2>1. RulesAt(p) = {[at |-> <<p[1], p[2], 0>>, rule |-> At(p)]}
    BY <1>5, Zenon DEF RulesAt
  <2>2. w.at = <<i, j, 0>> /\ w.rule = StmtAt(i, j)
    BY <1>3, <2>1
  <2>3. IsPlace(i, j, 0) /\ RuleAt(i, j, 0) = StmtAt(i, j)
    BY <1>3, <1>5 DEF IsPlace, RuleAt
  <2>. QED
    BY <2>2, <2>3
<1>6. CASE At(p).kind = "sequence"
  <2>1. RulesAt(p) = {[at |-> <<p[1], p[2], k>>, rule |-> At(p).rules[k]] : k \in
                         {m \in 1..Len(At(p).rules) : At(p).rules[m].kind = "rule"}}
    <3>1. At(p).kind # "rule"
      BY <1>6
    <3>. QED
      BY <1>6, <3>1, Zenon DEF RulesAt
  <2>2. PICK k \in 1..Len(At(p).rules) :
           /\ At(p).rules[k].kind = "rule"
           /\ w = [at |-> <<p[1], p[2], k>>, rule |-> At(p).rules[k]]
    BY <2>1
  <2>3. w.at = <<i, j, k>> /\ w.rule = StmtAt(i, j).rules[k]
    BY <1>3, <2>2
  <2>4. k \in Nat /\ k # 0
    OBVIOUS
  <2>5. IsPlace(i, j, k) /\ RuleAt(i, j, k) = StmtAt(i, j).rules[k]
    BY <1>3, <1>6, <2>2, <2>4 DEF IsPlace, RuleAt
  <2>. QED
    BY <2>3, <2>5
<1>7. CASE At(p).kind = "import"
  <2>1. At(p).kind # "rule" /\ At(p).kind # "sequence"
    BY <1>7
  <2>2. RulesAt(p) = {}
    BY <1>7, <2>1, Zenon DEF RulesAt
  <2>. QED
    BY <2>2
<1>. QED
  BY <1>4, <1>5, <1>6, <1>7

\* No module's name begins with that of another.
PrefixFree == \A m, o \in Defaults \cup Custom : o \in Prefixed[m] => o = m

\* When ac_compiler_compile returns success, every rule of the sources has one
\* entry, with its flags; and if no module's name begins with that of another,
\* the ordinal in it is that of the rule's own module.
THEOREM CompleteCorrect ==
    ASSUME PrefixFree
    PROVE  Spec => []SuccessIsComplete
<1>1. TypeOK /\ EntriesInv /\ CompleteInv => SuccessIsComplete
  <2> SUFFICES ASSUME TypeOK, EntriesInv, CompleteInv, pc = "idle", done, err = "SUCCESS",
                      NEW p \in Written, NEW w \in RulesAt(p)
               PROVE  LET entries == {i \in 1..Len(rule_table) : rule_table[i].at = w.at}
                      IN  /\ Cardinality(entries) = 1
                          /\ \A i \in entries :
                                /\ rule_table[i].private = w.rule.private
                                /\ rule_table[i].anonymous = w.rule.anonymous
                                /\ w.rule.event # NoName =>
                                      module_table[rule_table[i].ordinal] = w.rule.event
    BY DEF SuccessIsComplete
  <2> DEFINE entries == {i \in 1..Len(rule_table) : rule_table[i].at = w.at}
  <2>1. PICK i, j, k : IsPlace(i, j, k) /\ w.at = <<i, j, k>> /\ w.rule = RuleAt(i, j, k)
    BY WrittenPlace
  <2>2. PICK e \in 1..Len(rule_table) : rule_table[e].at = <<i, j, k>>
    BY <2>1 DEF CompleteInv, Reached
  <2>3. entries = {e}
    BY <2>1, <2>2 DEF EntriesInv
  <2>4. Cardinality(entries) = 1
    <3> HIDE DEF entries
    <3>. QED
      BY <2>3, FS_Singleton
  <2>5. EntryFor(e, i, j, k)
    <3>1. PICK l, m, n \in Nat : EntryFor(e, l, m, n)
      BY DEF EntriesInv
    <3>2. <<l, m, n>> = <<i, j, k>>
      BY <2>2, <3>1 DEF EntryFor
    <3>. QED
      BY <3>1, <3>2
  <2>6. /\ rule_table[e].private = w.rule.private /\ rule_table[e].anonymous = w.rule.anonymous
    BY <2>1, <2>5 DEF EntryFor
  <2>7. ASSUME w.rule.event # NoName PROVE module_table[rule_table[e].ordinal] = w.rule.event
    <3>1. /\ w.rule.event \in modules
          /\ rule_table[e].ordinal \in 1..Len(module_table)
          /\ w.rule.event \in Prefixed[module_table[rule_table[e].ordinal]]
      BY <2>1, <2>5, <2>7 DEF EntryFor
    <3>2. module_table[rule_table[e].ordinal] \in modules /\ modules \subseteq Defaults \cup Custom
      BY <3>1 DEF TypeOK
    <3>. QED
      BY <3>1, <3>2 DEF PrefixFree
  <2>. QED
    BY <2>3, <2>4, <2>6, <2>7
<1>. QED
  BY <1>1, TablesCorrect, PTL

-----------------------------------------------------------------------------
(* Sequences: an index is that of the rule it was written for.              *)

\* If the first statement of all is a rule, it has the first entry.
FirstEntryInv ==
    done /\ err = "SUCCESS" /\ rule_table # <<>> =>
        \A f \in Nat : IsFirst(f) /\ IsStmt(f, 1) /\ StmtAt(f, 1).kind = "rule" =>
            rule_table[1].at = <<f, 1, 0>>

\* The first entry added is that of the first statement, if that is a rule.
LEMMA FirstEntryStep ==
    TypeOK /\ Control /\ CompleteInv /\ FirstEntryInv /\ [Next]_vars => FirstEntryInv'
<1> SUFFICES ASSUME TypeOK, Control, CompleteInv, FirstEntryInv, [Next]_vars,
                    done', err' = "SUCCESS", rule_table' # <<>>,
                    NEW f \in Nat, IsFirst(f)', IsStmt(f, 1)', StmtAt(f, 1).kind' = "rule"
             PROVE  rule_table'[1].at = <<f, 1, 0>>
  BY DEF FirstEntryInv
<1>1. ASSUME UNCHANGED sources
      PROVE  IsFirst(f) /\ IsStmt(f, 1) /\ StmtAt(f, 1).kind = "rule"
  BY <1>1, SameSources, SameRules
<1>2. CASE KeepsEntries
  <2>1. UNCHANGED <<sources, rule_table>> /\ done /\ err = "SUCCESS"
    BY <1>2, DoneStays DEF KeepsEntries, Control
  <2>. QED
    BY <1>1, <2>1 DEF FirstEntryInv
<1>3. ASSUME NEW k \in Nat, AddsEntry(k) PROVE rule_table'[1].at = <<f, 1, 0>>
  <2>1. PICK i, j, e : i = file /\ j = stmt /\ e = Len(rule_table) + 1
    OBVIOUS
  <2>2. /\ \A d \in 1..Len(rule_table) : rule_table'[d] = rule_table[d]
        /\ EntryFor(e, i, j, k)' /\ Len(rule_table) \in Nat
    BY <1>3, <2>1, NewEntry DEF TypeOK
  <2>3. /\ UNCHANGED sources /\ done /\ err = "SUCCESS" /\ pc = "compile" /\ IsPlace(i, j, k)
    BY <1>3, <2>1 DEF AddsEntry
  <2>4. CASE rule_table # <<>>
    <3>1. 1 \in 1..Len(rule_table)
      BY <2>2, <2>4, EmptySeq DEF TypeOK
    <3>2. rule_table[1].at = <<f, 1, 0>>
      BY <1>1, <2>3, <2>4 DEF FirstEntryInv
    <3>. QED
      BY <2>2, <3>1, <3>2
  <2>5. CASE rule_table = <<>>
    <3>1. IsFirst(f) /\ IsStmt(f, 1) /\ StmtAt(f, 1).kind = "rule"
      BY <1>1, <2>3
    <3>2. IsPlace(f, 1, 0)
      BY <3>1 DEF IsPlace
    <3>3. ~Reached(f, 1, 0)
      <4>1. Len(rule_table) = 0
        BY <2>5
      <4>. QED
        BY <2>3, <3>2, <4>1 DEF CompleteInv
    <3>4. ~Before(f, 1, i, j)
      BY <2>1, <2>3, <3>3 DEF Reached
    <3>5. i \in Nat \ {0} /\ j \in Nat \ {0} /\ IsStmt(i, j)
      BY <2>3, PlaceType DEF IsPlace
    <3>6. ~(i < f)
      <4>1. i < f => i \in 1..(f - 1) /\ Body[sources[i]] # <<>>
        BY <3>5 DEF IsStmt
      <4>. QED
        BY <3>1, <4>1 DEF IsFirst
    <3>7. i = f /\ j = 1
      BY <3>4, <3>5, <3>6 DEF Before
    <3>8. k = 0
      BY <2>3, <3>1, <3>7 DEF IsPlace
    <3>9. e = 1 /\ rule_table'[e].at = <<i, j, k>>
      BY <2>1, <2>2, <2>5 DEF EntryFor
    <3>. QED
      BY <3>7, <3>8, <3>9
  <2>. QED
    BY <2>4, <2>5
<1>. QED
  BY <1>2, <1>3, TableSteps

\* Index x of the table is what element k of the sequence stands for.
Resolved(i, j, k, x) ==
    /\ x \in 1..Len(rule_table)
    /\ IF StmtAt(i, j).rules[k].kind = "rule" THEN rule_table[x].at = <<i, j, k>>
       ELSE /\ rule_table[x].name = StmtAt(i, j).rules[k].name
            /\ NamesUnique => rule_table[x].at[1] = i

SequencesInv ==
    Clean =>
        /\ \A k \in 1..Len(indices) : \A i, j, x : i = file /\ j = stmt /\ x = indices[k] =>
              Resolved(i, j, k, x)
        /\ \A s \in 1..Len(sequence_table) : \E i, j \in Nat :
              /\ IsStmt(i, j) /\ sequence_table[s].at = <<i, j>>
              /\ \A k \in 1..Len(sequence_table[s].rules) : \A x : x = sequence_table[s].rules[k] =>
                    Resolved(i, j, k, x)

\* Two files that both declare a name are one, if names are unique.
LEMMA NamesOfFiles ==
    ASSUME TypeOK, NamesUnique, NEW i, NEW j, NEW k, NEW l, NEW m \in 1..Len(sources), NEW n,
           Declares(i, j, n), Declares(k, l, n), sources[k] = sources[m]
    PROVE  i = m
<1>1. \A p, q, f : Declares(p, q, n) /\ f \in 1..Len(sources) /\ sources[f] = sources[p] =>
         n \in RuleNamesOf(f) /\ p \in 1..Len(sources)
  BY DEF Declares, IsStmt, StmtAt, RuleNamesOf
<1>2. i \in 1..Len(sources) /\ sources[i] = sources[i]
  BY DEF Declares, IsStmt
<1>3. n \in RuleNamesOf(i)
  BY <1>1, <1>2
<1>4. n \in RuleNamesOf(m)
  BY <1>1
<1>. QED
  BY <1>2, <1>3, <1>4 DEF NamesUnique

\* The rule that a sequence names is found, also where anonymous rules are
\* found by the same name: then that name is of the first statement.
LEMMA ExternalFound ==
    ASSUME TypeOK, Control, RefsInv, FirstInv, EntriesInv, CompleteInv, FirstEntryInv, Clean,
           CompileExternal, NEW i, NEW j, NEW k, NEW x,
           i = file, j = stmt, k = Len(indices) + 1, NEW n, n = Element.name,
           x = IndexOf(find_rule_idx_by_name(rule_table, n))
    PROVE  Resolved(i, j, k, x)
<1>1. /\ pc = "compile" /\ done /\ StmtAt(i, j) = Stmt /\ IsStmt(i, j) /\ Stmt.kind = "sequence"
      /\ k \in 1..Len(Stmt.rules) /\ Element = Stmt.rules[k] /\ Element.kind = "external"
  <2>1. AtElement("external")
    BY DEF CompileExternal
  <2>2. AtStatement("compile", "sequence") /\ Element.kind = "external" /\ k \in 1..Len(Stmt.rules)
    BY <2>1, AtIt
  <2>. QED
    BY <2>2, AtIts, CurrentStmt DEF Control, Element
<1>2. DeclaredHere(n, i, j)
  <2>1. i \in Nat /\ j \in Nat /\ First /\ Past(i, j)
    BY <1>1, StmtAtType DEF First, Past, Control
  <2>2. Resolves(i, j)
    BY <1>1, <2>1 DEF RefsInv, Clean
  <2>. QED
    BY <1>1, <2>2 DEF Resolves
<1>3. PICK l, m \in Nat : Declares(l, m, n) /\ ~Before(i, j, l, m) /\ sources[l] = sources[i]
  BY <1>2 DEF DeclaredHere
<1>4. Before(l, m, i, j)
  <2>1. l # i \/ m # j
    BY <1>1, <1>3 DEF Declares
  <2>. QED
    BY <1>1, <1>3, <2>1, StmtAtType DEF Before
<1>5. PICK d \in 1..Len(rule_table) : rule_table[d].name = n /\ rule_table[d].at = <<l, m, 0>>
  <2>1. Reached(l, m, 0)
    BY <1>4 DEF Reached, Before
  <2>2. pc # "crashed" /\ Declares(l, m, n)
    BY <1>1, <1>3
  <2>. QED
    BY <2>1, <2>2, EntryOfStmt
<1>6. /\ x \in 1..Len(rule_table) /\ rule_table[x].name = n
      /\ \A c \in 1..Len(rule_table) : rule_table[c].name = n => x \in 1..c
  <2>1. Len(rule_table) \in Nat
    BY DEF TypeOK
  <2> DEFINE y == find_rule_idx_by_name(rule_table, n)
  <2>2. /\ y \in 0..Len(rule_table) /\ (y # 0 => rule_table[y].name = n)
        /\ \A c \in 1..Len(rule_table) : rule_table[c].name = n => y \in 1..c
    BY <2>1, FoundRule
  <2>3. x = IndexOf(y)
    OBVIOUS
  <2> HIDE DEF y
  <2>4. y \in 1..Len(rule_table) /\ x = y
    BY <1>5, <2>1, <2>2, <2>3 DEF IndexOf
  <2>. QED
    BY <2>2, <2>4
<1>7. PICK f, g, h \in Nat : EntryFor(x, f, g, h)
  BY <1>6 DEF EntriesInv
<1>8. /\ IsPlace(f, g, h) /\ rule_table[x].at = <<f, g, h>> /\ rule_table[x].name = EntryName(RuleAt(f, g, h))
      /\ IsStmt(f, g)
  BY <1>7 DEF EntryFor, IsPlace
<1>9. ASSUME NEW a, NEW b, Declares(a, b, n), Reached(a, b, 0)
       PROVE  \E e \in 1..Len(rule_table) : rule_table[e].name = n /\ rule_table[e].at = <<a, b, 0>>
  <2>1. pc # "crashed"
    BY <1>1
  <2>. QED
    BY <1>9, <2>1, EntryOfStmt
<1>10. ASSUME NamesUnique PROVE f = i
  <2>1. CASE h = 0
    <3>1. Declares(f, g, n)
      <4>1. RuleAt(f, g, h) = StmtAt(f, g) /\ StmtAt(f, g).kind = "rule"
        BY <1>8, <2>1 DEF RuleAt, IsPlace
      <4>2. ~StmtAt(f, g).anonymous
        BY <1>8, <2>1, <4>1, PlaceType
      <4>. QED
        BY <1>6, <1>8, <4>1, <4>2 DEF EntryName, Declares
    <3>. QED
      BY <1>1, <1>3, <1>10, <3>1, NamesOfFiles DEF IsStmt
  <2>2. CASE h # 0
    <3>1. n = FirstString
      BY <1>6, <1>8, <2>2, PlaceType DEF EntryName
    <3>2. PICK first \in 1..f : IsFirst(first) /\ FirstString = StmtAt(first, 1).name /\ IsStmt(first, 1)
      <4>1. f \in 1..Len(sources) /\ Body[sources[f]] # <<>>
        BY <1>8 DEF IsStmt
      <4>. QED
        BY <4>1, FirstOfFiles DEF StmtAt, IsStmt, IsFirst
    <3>3. first \in Nat
      OBVIOUS
    <3>4. StmtAt(first, 1).kind = "rule"
      <4>1. First /\ Past(l, m)
        BY <1>1 DEF First, Past, Control
      <4>. QED
        BY <1>3, <3>1, <3>2, <3>3, <4>1 DEF FirstInv, Clean
    <3>5. rule_table[1].at = <<first, 1, 0>> /\ 1 \in 1..Len(rule_table)
      <4>1. rule_table # <<>> /\ 1 \in 1..Len(rule_table)
        BY <1>6, EmptySeq
      <4>. QED
        BY <1>1, <3>2, <3>3, <3>4, <4>1 DEF FirstEntryInv, Clean
    <3>6. rule_table[1].name = n
      <4>1. Declares(first, 1, n) /\ Reached(first, 1, 0)
        <5>1. PICK a, b, c \in Nat : EntryFor(1, a, b, c)
          BY <3>5 DEF EntriesInv
        <5>2. <<a, b, c>> = <<first, 1, 0>>
          BY <3>5, <5>1 DEF EntryFor
        <5>3. a = first /\ b = 1 /\ c = 0
          BY <5>2
        <5>4. Reached(first, 1, 0)
          BY <5>1, <5>3 DEF EntryFor
        <5>. QED
          BY <3>1, <3>2, <3>4, <5>4 DEF Declares
      <4>2. PICK c \in 1..Len(rule_table) : rule_table[c].name = n /\ rule_table[c].at = <<first, 1, 0>>
        BY <1>9, <4>1
      <4>. QED
        BY <3>5, <4>2 DEF EntriesInv
    <3>7. x = 1
      BY <1>6, <3>5, <3>6
    <3>8. <<f, g, h>> = <<first, 1, 0>>
      BY <1>8, <3>5, <3>7
    <3>. QED
      BY <2>2, <3>8
  <2>. QED
    BY <2>1, <2>2
<1>11. rule_table[x].at[1] = f
  BY <1>8
<1>12. k \in 1..Len(StmtAt(i, j).rules) /\ Element = StmtAt(i, j).rules[k] /\ Element.kind = "external"
  BY <1>1
<1>. QED
  BY <1>6, <1>10, <1>11, <1>12 DEF Resolved

\* What a step does to the indices of the current sequence and to the entries.
LEMMA SequenceSteps ==
    ASSUME TypeOK, Control, [Next]_vars, done'
    PROVE  \/ sequence_table' = <<>> /\ indices' = <<>>
           \/ done /\ UNCHANGED sequence_table /\ indices' = <<>>
           \/ done /\ UNCHANGED <<sequence_table, indices, file, stmt>>
           \/ done /\ UNCHANGED sequence_table /\ (CompileExternal \/ CompileAnonymous)
           \/ done /\ compiler_add_sequence_entry
<1>0. ASSUME EndOfCompiledFile \/ EndOfCompile
      PROVE  done /\ indices = <<>>
  <2>1. pc = "compile"
    BY <1>0 DEF EndOfCompiledFile, EndOfCompile
  <2>2. done
    BY <2>1 DEF Control
  <2>3. ~InSequence
    <3>1. CASE EndOfCompiledFile
      BY <3>1 DEF EndOfCompiledFile, InSequence, TypeOK, Statements
    <3>2. CASE EndOfCompile
      BY <3>2 DEF EndOfCompile, InSequence, TypeOK
    <3>. QED
      BY <1>0, <3>1, <3>2
  <2>. QED
    BY <2>2, <2>3 DEF Control
<1> USE DEF front, scope, tables
<1>1. CASE \/ \E m \in Custom : ac_compiler_include_module(m)
           \/ \E f \in Files : ac_compiler_add_file(f)
           \/ ac_compiler_check_ast \/ ac_compiler_compile
  BY <1>1 DEF ac_compiler_include_module, ac_compiler_add_file, ac_compiler_check_ast,
              ac_compiler_compile
<1>2. CASE CheckStep
  BY <1>2, CheckedStmt DEF Control
<1>3. CASE EndOfCheckedFile \/ EndOfCheck
  BY <1>3 DEF EndOfCheckedFile, EndOfCheck, Control
<1>4. CASE ac_compiler_build_ast \/ CompileRefused \/ Crash \/ UNCHANGED vars
  BY <1>4 DEF ac_compiler_build_ast, CompileRefused, Crash, vars
<1>5. CASE compiler_compile_import \/ CompileRule
  <2>1. \E kind \in {"import", "rule"} : AtStatement("compile", kind)
    BY <1>5 DEF compiler_compile_import, CompileRule
  <2>2. done /\ indices = <<>>
    BY <2>1, AtIts DEF Control, InSequence
  <2>. QED
    BY <1>5, <2>2 DEF compiler_compile_import, CompileRule
<1>6. CASE EndOfCompiledFile \/ EndOfCompile
  BY <1>0, <1>6 DEF EndOfCompiledFile, EndOfCompile
<1>7. CASE CompileExternal \/ CompileAnonymous
  BY <1>7, NextIndex, AtIts DEF Control
<1>8. CASE compiler_add_sequence_entry
  BY <1>8 DEF compiler_add_sequence_entry, AtStatement, Control
<1>. QED
  BY <1>1, <1>2, <1>3, <1>4, <1>5, <1>6, <1>7, <1>8 DEF Next, Step, CheckStep

\* What has been resolved stays so: entries are only added.
LEMMA ResolvedStays ==
    ASSUME TypeOK, Control, [Next]_vars, done, NEW i, NEW j, NEW k, NEW x, Resolved(i, j, k, x)
    PROVE  Resolved(i, j, k, x)'
<1>1. UNCHANGED sources
  BY DoneStays
<1>2. x \in 1..Len(rule_table') /\ rule_table'[x] = rule_table[x]
  <2>1. x \in 1..Len(rule_table)
    BY DEF Resolved
  <2>2. ASSUME NEW l \in Nat, AddsEntry(l) PROVE x \in 1..Len(rule_table') /\ rule_table'[x] = rule_table[x]
    <3>1. PICK f, g, e : f = file /\ g = stmt /\ e = Len(rule_table) + 1
      OBVIOUS
    <3>. QED
      BY <2>1, <2>2, <3>1, NewEntry
  <2>. QED
    BY <2>1, <2>2, TableSteps DEF KeepsEntries
<1>3. NamesUnique' <=> NamesUnique
  BY <1>1 DEF NamesUnique, RuleNamesOf
<1>4. StmtAt(i, j)' = StmtAt(i, j)
  BY <1>1, SameSources
<1>. QED
  BY <1>2, <1>3, <1>4 DEF Resolved

\* An index written for an element stays that of its rule, in the list of the
\* sequence under way and then in its entry.
LEMMA SequencesStep ==
    /\ TypeOK /\ Control /\ RefsInv /\ FirstInv /\ EntriesInv /\ CompleteInv /\ FirstEntryInv
    /\ SequencesInv /\ [Next]_vars
    => SequencesInv'
<1> SUFFICES ASSUME TypeOK, Control, RefsInv, FirstInv, EntriesInv, CompleteInv, FirstEntryInv,
                    SequencesInv, [Next]_vars, Clean'
             PROVE  SequencesInv'
  BY DEF SequencesInv
<1> DEFINE OfIndices == \A k \in 1..Len(indices) : \A i, j, x :
                           i = file /\ j = stmt /\ x = indices[k] => Resolved(i, j, k, x)
           OfEntry(s) == \E i, j \in Nat :
              /\ IsStmt(i, j) /\ sequence_table[s].at = <<i, j>>
              /\ \A k \in 1..Len(sequence_table[s].rules) : \A x : x = sequence_table[s].rules[k] =>
                    Resolved(i, j, k, x)
           OfEntries == \A s \in 1..Len(sequence_table) : OfEntry(s)
<1>1. done => Clean /\ UNCHANGED sources
  BY DoneStays DEF Clean
<1>2. CASE sequence_table' = <<>> /\ indices' = <<>>
  BY <1>2 DEF SequencesInv
<1>3. done => OfIndices /\ OfEntries
  BY <1>1 DEF SequencesInv
<1>4. ASSUME done, NEW s \in 1..Len(sequence_table), sequence_table'[s] = sequence_table[s]
      PROVE  OfEntry(s)'
  <2>1. PICK i, j \in Nat :
           /\ IsStmt(i, j) /\ sequence_table[s].at = <<i, j>>
           /\ \A k \in 1..Len(sequence_table[s].rules) : \A x : x = sequence_table[s].rules[k] =>
                 Resolved(i, j, k, x)
    BY <1>3, <1>4
  <2>2. IsStmt(i, j)'
    BY <1>1, <1>4, <2>1, SameSources
  <2>3. \A k \in 1..Len(sequence_table[s].rules) : \A x : x = sequence_table[s].rules[k] =>
           Resolved(i, j, k, x)'
    BY <1>4, <2>1, ResolvedStays
  <2>. QED
    BY <1>4, <2>1, <2>2, <2>3
<1>5. CASE done /\ UNCHANGED sequence_table /\ indices' = <<>>
  <2>1. OfEntries'
    BY <1>4, <1>5
  <2>2. OfIndices'
    BY <1>5
  <2>. QED
    BY <2>1, <2>2 DEF SequencesInv
<1>6. CASE done /\ UNCHANGED <<sequence_table, indices, file, stmt>>
  <2>1. OfEntries'
    BY <1>4, <1>6
  <2>2. OfIndices'
    BY <1>3, <1>6, ResolvedStays
  <2>. QED
    BY <2>1, <2>2 DEF SequencesInv
<1>7. CASE done /\ UNCHANGED sequence_table /\ (CompileExternal \/ CompileAnonymous)
  <2>1. OfEntries'
    BY <1>4, <1>7
  <2>2. PICK i, j, m : i = file /\ j = stmt /\ m = Len(indices) + 1
    OBVIOUS
  <2>3. PICK y : indices' = Append(indices, y) /\ y \in Nat \ {0}
    BY <1>7, NextIndex
  <2>4. /\ file' = i /\ stmt' = j /\ m \in Nat \ {0} /\ 1..Len(indices') = (1..Len(indices)) \cup {m}
        /\ \A k \in 1..Len(indices) : indices'[k] = indices[k]
        /\ indices'[m] = y
    <3>1. file' = i /\ stmt' = j
      BY <1>7, <2>2 DEF CompileExternal, CompileAnonymous
    <3>2. indices \in Seq(Nat \ {0})
      BY DEF TypeOK
    <3>3. /\ Len(indices) \in Nat /\ Len(indices') = Len(indices) + 1
          /\ \A k \in 1..Len(indices) : indices'[k] = indices[k]
          /\ indices'[Len(indices) + 1] = y
      BY <2>3, <3>2
    <3>. QED
      BY <2>2, <3>1, <3>3
  <2>5. \A k \in 1..Len(indices) : \A x : x = indices[k] => Resolved(i, j, k, x)'
    BY <1>3, <1>7, <2>2, ResolvedStays
  <2>6. Resolved(i, j, m, y)'
    <3>1. CASE CompileExternal
      <4>1. PICK n, x : n = Element.name /\ x = IndexOf(find_rule_idx_by_name(rule_table, n))
        OBVIOUS
      <4>2. y = x
        <5>1. indices' = Append(indices, x)
          BY <3>1, <4>1 DEF CompileExternal
        <5>2. indices'[m] = x
          <6>1. x \in Nat
            <7>1. Len(rule_table) \in Nat
              BY DEF TypeOK
            <7>2. find_rule_idx_by_name(rule_table, n) \in Nat
              BY <7>1, FoundRule
            <7>. QED
              BY <4>1, <7>2 DEF IndexOf
          <6>. QED
            BY <2>2, <5>1, <6>1 DEF TypeOK
        <5>. QED
          BY <2>4, <5>2
      <4>3. Resolved(i, j, m, x)
        BY <1>1, <1>7, <2>2, <3>1, <4>1, ExternalFound
      <4>. QED
        BY <1>7, <4>2, <4>3, ResolvedStays
    <3>2. CASE CompileAnonymous
      <4>1. /\ AtElement("rule") /\ compiler_compile_rule(Element, m)
            /\ y = IF RuleCompiles(Element) THEN Len(rule_table') ELSE IndexOf(0)
        <5> DEFINE z == IF RuleCompiles(Element) THEN Len(rule_table') ELSE IndexOf(0)
        <5>1. AtElement("rule") /\ compiler_compile_rule(Element, m) /\ indices' = Append(indices, z)
          BY <2>2, <3>2 DEF CompileAnonymous
        <5>2. Len(indices) \in Nat /\ indices'[m] = z
          <6> HIDE DEF z
          <6>. QED
            BY <2>2, <5>1 DEF TypeOK
        <5>. QED
          BY <2>4, <5>1, <5>2
      <4>2. /\ pc = "compile" /\ file <= Len(sources) /\ stmt <= Len(Statements)
            /\ Element \in Rule /\ Element.kind = "rule" /\ m \in Nat
            /\ Element = StmtAt(i, j).rules[m]
        BY <2>2, <2>4, <4>1, AtIt, AtIts, CurrentStmt DEF Element
      <4>3. RuleCompiles(Element)
        <5>1. err' = "SUCCESS"
          BY DEF Clean
        <5>. QED
          BY <4>1, <4>2, <5>1, CompiledRule
      <4>4. rule_table' = Append(rule_table, RuleEntry(Element, m)) /\ rule_table \in Seq(RuleRecord)
            /\ RuleEntry(Element, m) \in RuleRecord
        BY <4>1, <4>2, <4>3, CompiledRule DEF TypeOK
      <4>5. y \in 1..Len(rule_table') /\ rule_table'[y] = RuleEntry(Element, m)
        BY <4>1, <4>3, <4>4
      <4>6. rule_table'[y].at = <<i, j, m>>
        BY <2>2, <4>5 DEF RuleEntry
      <4>7. StmtAt(i, j)'.rules[m].kind = "rule"
        BY <1>1, <1>7, <4>2, SameSources
      <4>. QED
        BY <4>5, <4>6, <4>7 DEF Resolved
    <3>. QED
      BY <1>7, <3>1, <3>2
  <2>7. OfIndices'
    BY <2>4, <2>5, <2>6
  <2>. QED
    BY <2>1, <2>7 DEF SequencesInv
<1>8. CASE done /\ compiler_add_sequence_entry
  <2>1. PICK i, j, s : i = file /\ j = stmt /\ s = Len(sequence_table) + 1
    OBVIOUS
  <2>2. PICK new : new = [name |-> Stmt.name, rules |-> indices, at |-> <<file, stmt>>]
    OBVIOUS
  <2>3. /\ sequence_table' = Append(sequence_table, new) /\ indices' = <<>>
        /\ AtStatement("compile", "sequence")
    BY <1>8, <2>2 DEF compiler_add_sequence_entry
  <2>4. /\ s \in Nat /\ 1..Len(sequence_table') = (1..Len(sequence_table)) \cup {s}
        /\ \A t \in 1..Len(sequence_table) : sequence_table'[t] = sequence_table[t]
        /\ sequence_table'[s] = new
    BY <2>1, <2>3 DEF TypeOK
  <2>5. new.rules = indices /\ new.at = <<i, j>> /\ i \in Nat /\ j \in Nat /\ IsStmt(i, j)'
    BY <1>1, <1>8, <2>1, <2>2, <2>3, CurrentStmt, StmtAtType, SameSources
  <2>6. \A k \in 1..Len(indices) : \A x : x = indices[k] => Resolved(i, j, k, x)'
    BY <1>3, <1>8, <2>1, ResolvedStays
  <2>7. OfEntry(s)'
    BY <2>4, <2>5, <2>6
  <2>8. OfEntries'
    BY <1>4, <1>8, <2>4, <2>7
  <2>9. OfIndices'
    BY <2>3
  <2>. QED
    BY <2>8, <2>9 DEF SequencesInv
<1>9. done'
  BY DEF Clean
<1>. QED
  BY <1>2, <1>5, <1>6, <1>7, <1>8, <1>9, SequenceSteps

\* Every index of a sequence is that of the rule written at its place: the
\* anonymous rule itself, or one of the name, of the same file if no two files
\* declare a rule of one name.
THEOREM SequencesCorrect == Spec => []SequencesResolve
<1>1. Init => FirstEntryInv /\ SequencesInv
  BY DEF Init, FirstEntryInv, SequencesInv, Clean
<1>2. TypeOK /\ SequencesInv => SequencesResolve
  <2> SUFFICES ASSUME TypeOK, SequencesInv, Clean, NEW s \in 1..Len(sequence_table),
                      NEW k \in 1..Len(sequence_table[s].rules)
               PROVE  LET e == rule_table[sequence_table[s].rules[k]]
                      IN  /\ sequence_table[s].rules[k] <= Len(rule_table)
                          /\ IF ElementOf(sequence_table[s], k).kind = "rule"
                             THEN e.at = <<sequence_table[s].at[1], sequence_table[s].at[2], k>>
                             ELSE /\ e.name = ElementOf(sequence_table[s], k).name
                                  /\ NamesUnique => e.at[1] = sequence_table[s].at[1]
    BY DEF SequencesResolve
  <2>1. PICK i, j \in Nat :
           /\ IsStmt(i, j) /\ sequence_table[s].at = <<i, j>>
           /\ \A l \in 1..Len(sequence_table[s].rules) : \A x : x = sequence_table[s].rules[l] =>
                 Resolved(i, j, l, x)
    BY DEF SequencesInv
  <2>2. PICK x : x = sequence_table[s].rules[k]
    OBVIOUS
  <2>3. Resolved(i, j, k, x)
    BY <2>1, <2>2
  <2>4. sequence_table[s].at[1] = i /\ sequence_table[s].at[2] = j
    BY <2>1
  <2>5. ElementOf(sequence_table[s], k) = StmtAt(i, j).rules[k]
    BY <2>4 DEF ElementOf, StmtAt
  <2>6. x <= Len(rule_table)
    BY <2>3 DEF Resolved, TypeOK
  <2>. QED
    BY <2>2, <2>3, <2>4, <2>5, <2>6 DEF Resolved
<1>. QED
  BY <1>1, <1>2, TablesCorrect, FirstEntryStep, SequencesStep, PTL DEF Spec
=============================================================================
